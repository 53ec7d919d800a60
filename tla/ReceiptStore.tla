---------------------------- MODULE ReceiptStore ----------------------------
(***************************************************************************)
(* A directory of deploy receipts and the processes that use it: deploys   *)
(* writing (receipt.WriteAtomic) and the receipt commands reading (list,   *)
(* last-ok, handoff, read, diff of two receipts and diff --vs-last-ok).    *)
(* One action per system call, so that processes interleave, are killed    *)
(* and lose power between any two.                                         *)
(*                                                                         *)
(* Files are identified by who made them: files maps a name to one of      *)
(* them, contents to what is in it.  A writer's temporary file has the     *)
(* writer itself as its name.                                              *)
(***************************************************************************)
EXTENDS ReceiptCompare, FiniteSets

CONSTANTS
  Writer,     \* deploy processes about to write a receipt
  Prior,      \* files that were in the directory before
  Path,       \* names ending in .json, numbered in string order
  Reader,     \* receipt commands
  OwnPath,    \* Writer -> Path: <UTC>-<deploy id>.json, directory mode
  FilePath,   \* a path given as --receipt, file mode
  Receipts,   \* Writer -> the receipts that deploy may have built
  Found,      \* what may be in the directory at the start
  Requests,   \* reading commands
  Deleted,    \* paths whose receipts somebody may delete
  Junk,       \* a file of something else
  Blank,      \* what is in a file whose content was not written
  NoFile      \* no such file

ASSUME StoreAssumption ==
  /\ Path \subseteq Nat /\ IsFiniteSet(Path) /\ Deleted \subseteq Path
  /\ FilePath \in Path
  /\ OwnPath \in [Writer -> Path \ {FilePath}]
  /\ \A w, x \in Writer : OwnPath[w] = OwnPath[x] => w = x
  /\ Writer \cap Path = {} /\ Writer \cap Prior = {}
  /\ NoFile \notin Writer \cup Prior
  /\ \A x \in UNION {Receipts[w] : w \in Writer} : x \notin {Junk, Blank, NoFile}
  /\ \A w \in Writer : \A x \in Receipts[w] : IsReceipt(x)
  /\ \A f \in Found :
       /\ DOMAIN f \subseteq Path \ {OwnPath[w] : w \in Writer}
       /\ \A n \in DOMAIN f :
            f[n].file \in Prior /\ (f[n].content = Junk \/ IsReceipt(f[n].content))
  /\ \A q \in Requests :
       /\ q.command \in {"list", "last-ok", "handoff", "read", "diff", "pair", "vs-last-ok"}
       /\ q.command \notin {"list", "last-ok"} => q.current \in Path
       /\ q.command \in {"diff", "pair"} => q.other \in Path
  /\ Unset \notin Path /\ Unset \notin Requests
  /\ Unset \notin {"ok", "failed", "no_last_ok", "match", "drift"}

VARIABLES
  files,      \* name -> the file it leads to
  onDisk,     \* the same, as it will be found after a power loss
  contents,   \* file -> what is in it
  synced,     \* files whose content has reached the disk
  wpc,        \* stage of every writer
  out,        \* the receipt it writes and where
  rpc,        \* stage of every reader
  req,        \* its command
  toRead,     \* names of the directory listing it has not opened yet
  rows,       \* <<path, receipt>> pairs it has listed
  chosen,     \* the last ok path it found
  seen,       \* receipts it has read, by role: current, other
  answer,     \* what it reports
  before,     \* the files of the directory when it was listed (history)
  flushed,    \* writers whose directory sync worked (history)
  power       \* FALSE once the machine has lost power: at most once

disk == <<files, onDisk, contents, synced>>
writers == <<wpc, out, flushed>>
readers == <<rpc, req, toRead, rows, chosen, seen, answer, before>>
vars == <<disk, writers, readers, power>>

FileName == Path \cup Writer
File == Writer \cup Prior

\* The receipt at name n, or Junk, or NoFile.
At(n) == IF files[n] = NoFile THEN NoFile ELSE contents[files[n]]

Decodes(x) == x \notin {NoFile, Junk, Blank} /\ Valid(x)

-----------------------------------------------------------------------------
NoAnswer == [verdict |-> Unset, path |-> Unset, codes |-> {}]

StoreInit ==
  /\ \E f \in Found :
       /\ files = [n \in FileName |-> IF n \in DOMAIN f THEN f[n].file ELSE NoFile]
       /\ contents = [i \in File |->
                        IF \E n \in DOMAIN f : f[n].file = i
                        THEN f[CHOOSE n \in DOMAIN f : f[n].file = i].content ELSE Blank]
  /\ onDisk = files
  /\ synced = Prior
  /\ wpc = [w \in Writer |-> "idle"]
  /\ out = [w \in Writer |-> [receipt |-> Unset, path |-> Unset]]
  /\ flushed = {}
  /\ rpc = [r \in Reader |-> "idle"]
  /\ req = [r \in Reader |-> Unset]
  /\ toRead = [r \in Reader |-> {}]
  /\ rows = [r \in Reader |-> {}]
  /\ chosen = [r \in Reader |-> Unset]
  /\ seen = [r \in Reader |-> [current |-> Unset, other |-> Unset]]
  /\ answer = [r \in Reader |-> NoAnswer]
  /\ before = [r \in Reader |-> files]
  /\ power = TRUE

-----------------------------------------------------------------------------
\* WriteAtomic.

\* Encode refuses a receipt that Decode would not take back; nothing is touched.
Refuse(w) ==
  /\ wpc[w] = "idle"
  /\ \E r \in Receipts[w] : ~ Valid(r)
  /\ wpc' = [wpc EXCEPT ![w] = "failed"]
  /\ UNCHANGED <<disk, out, flushed, readers, power>>

\* resolveReceiptWritePath, Encode and CreateTemp.
CreateTemp(w) ==
  /\ wpc[w] = "idle"
  /\ \E r \in Receipts[w], p \in {OwnPath[w], FilePath} :
       /\ Valid(r)
       /\ out' = [out EXCEPT ![w] = [receipt |-> r, path |-> p]]
  /\ files' = [files EXCEPT ![w] = w]
  /\ contents' = [contents EXCEPT ![w] = Blank]
  /\ wpc' = [wpc EXCEPT ![w] = "write"]
  /\ UNCHANGED <<onDisk, synced, flushed, readers, power>>

WriteBody(w) ==
  /\ wpc[w] = "write"
  /\ contents' = [contents EXCEPT ![w] = out[w].receipt]
  /\ wpc' = [wpc EXCEPT ![w] = "sync"]
  /\ UNCHANGED <<files, onDisk, synced, out, flushed, readers, power>>

\* Mutant: the body is left to the page cache.
SyncBodyNot(w) ==
  /\ wpc[w] = "sync"
  /\ wpc' = [wpc EXCEPT ![w] = "rename"]
  /\ UNCHANGED <<disk, out, flushed, readers, power>>

SyncBody(w) ==
  /\ wpc[w] = "sync"
  /\ synced' = synced \cup {w}
  /\ wpc' = [wpc EXCEPT ![w] = "rename"]
  /\ UNCHANGED <<files, onDisk, contents, out, flushed, readers, power>>

Rename(w) ==
  /\ wpc[w] = "rename"
  /\ files' = [files EXCEPT ![out[w].path] = w, ![w] = NoFile]
  /\ wpc' = [wpc EXCEPT ![w] = "flush"]
  /\ UNCHANGED <<onDisk, contents, synced, out, flushed, readers, power>>

\* Mutant: the file is synced once more in place of the directory.
SyncDirNot(w) ==
  /\ wpc[w] = "flush"
  /\ flushed' = flushed \cup {w}
  /\ wpc' = [wpc EXCEPT ![w] = "done"]
  /\ UNCHANGED <<disk, out, readers, power>>

\* The directory sync: its errors are ignored.
SyncDir(w) ==
  /\ wpc[w] = "flush"
  /\ \/ onDisk' = files /\ flushed' = flushed \cup {w}
     \/ UNCHANGED <<onDisk, flushed>>
  /\ wpc' = [wpc EXCEPT ![w] = "done"]
  /\ UNCHANGED <<files, contents, synced, out, readers, power>>

\* A system call fails: the deferred cleanup removes the temporary file.
WriteFails(w) ==
  /\ wpc[w] \in {"write", "sync", "rename"}
  /\ files' = [files EXCEPT ![w] = NoFile]
  /\ wpc' = [wpc EXCEPT ![w] = "failed"]
  /\ UNCHANGED <<onDisk, contents, synced, out, flushed, readers, power>>

\* The process is killed: what it had made stays.
KillWriter(w) ==
  /\ wpc[w] \in {"write", "sync", "rename", "flush"}
  /\ wpc' = [wpc EXCEPT ![w] = "killed"]
  /\ UNCHANGED <<disk, out, flushed, readers, power>>

-----------------------------------------------------------------------------
\* The receipt commands.  A request names the command and its file arguments.

Finish(r, verdict, path, codes) ==
  /\ rpc' = [rpc EXCEPT ![r] = "done"]
  /\ answer' = [answer EXCEPT ![r] = [verdict |-> verdict, path |-> path, codes |-> codes]]

\* The stage a command starts with: diff without --mode looks at both files
\* before it takes them for receipts.
FirstStage(q) ==
  CASE q.command \in {"list", "last-ok", "vs-last-ok"} -> "list"
    [] q.command \in {"handoff", "read"} -> "current"
    [] q.command = "diff" -> "detect"
    [] q.command = "pair" -> "other"

Ask(r) ==
  /\ rpc[r] = "idle"
  /\ \E q \in Requests :
       /\ req' = [req EXCEPT ![r] = q]
       /\ rpc' = [rpc EXCEPT ![r] = FirstStage(q)]
       /\ chosen' = [chosen EXCEPT ![r] = IF q.command \in {"diff", "pair"} THEN q.other ELSE Unset]
  /\ UNCHANGED <<disk, writers, power, toRead, rows, seen, answer, before>>

\* diffArgsDecodeAsReceiptPair: what is read here is read again.  If one of the
\* two is no receipt, the first is taken for a contract.
Detect(r) ==
  /\ rpc[r] \in {"detect", "detect-second"}
  /\ LET n == IF rpc[r] = "detect" THEN req[r].other ELSE req[r].current
     IN  IF ~ Decodes(At(n)) THEN Finish(r, "contract", Unset, {})
         ELSE /\ rpc' = [rpc EXCEPT ![r] = IF @ = "detect" THEN "detect-second" ELSE "other"]
              /\ UNCHANGED answer
  /\ UNCHANGED <<disk, writers, power, req, toRead, rows, chosen, seen, before>>

\* The receipt given on the command line cannot be read or decoded.
CurrentUnreadable(r) ==
  /\ rpc[r] = "current"
  /\ ~ Decodes(At(req[r].current))
  /\ Finish(r, "error", Unset, {})
  /\ UNCHANGED <<disk, writers, power, req, toRead, rows, chosen, seen, before>>

\* handoff without --store and read answer from this receipt alone; the two
\* diffs read it last and compare.
ReadCurrent(r) ==
  /\ rpc[r] = "current"
  /\ LET x == At(req[r].current)
     IN  /\ Decodes(x)
         /\ seen' = [seen EXCEPT ![r].current = x]
         /\ CASE req[r].command = "handoff" /\ req[r].store ->
                   rpc' = [rpc EXCEPT ![r] = "list"] /\ UNCHANGED answer
              [] req[r].command \in {"diff", "pair", "vs-last-ok"} ->
                   Finish(r, IF Drift(seen[r].other, x) THEN "drift" ELSE "match",
                          chosen[r], DiffCodes(seen[r].other, x))
              [] OTHER -> Finish(r, "ok", Unset, {})
  /\ UNCHANGED <<disk, writers, power, req, toRead, rows, chosen, before>>

\* The directory is missing or cannot be read.
DirUnreadable(r) ==
  /\ rpc[r] = "list"
  /\ Finish(r, "error", Unset, {})
  /\ UNCHANGED <<disk, writers, power, req, toRead, rows, chosen, seen, before>>

ReadDir(r) ==
  /\ rpc[r] = "list"
  /\ toRead' = [toRead EXCEPT ![r] = {n \in Path : files[n] # NoFile}]
  /\ before' = [before EXCEPT ![r] = files]
  /\ rpc' = [rpc EXCEPT ![r] = "open"]
  /\ UNCHANGED <<disk, writers, power, req, rows, chosen, seen, answer>>

First(S) == CHOOSE n \in S : \A m \in S : n <= m

\* The next directory entry: what cannot be read or decoded is skipped.
ReadEntry(r) ==
  /\ rpc[r] = "open"
  /\ toRead[r] # {}
  /\ LET n == First(toRead[r])
     IN  /\ toRead' = [toRead EXCEPT ![r] = @ \ {n}]
         /\ rows' = IF Decodes(At(n)) THEN [rows EXCEPT ![r] = @ \cup {<<n, At(n)>>}] ELSE rows
  /\ UNCHANGED <<disk, writers, power, rpc, req, chosen, seen, answer, before>>

\* Mutant: the clock's seconds decide, names come in string order.
NewerByPath(x, y) == x[1] >= y[1]

\* ListDir's order: by time, then by path, newest first.
Newer(x, y) == x[2].time > y[2].time \/ (x[2].time = y[2].time /\ x[1] >= y[1])

Filtered(r, filter) == {x \in rows[r] : MatchStatus(x[2].status, filter)}

Newest(S) == CHOOSE x \in S : \A y \in S : Newer(x, y)

ListDone(r) ==
  /\ rpc[r] = "open" /\ toRead[r] = {}
  /\ req[r].command = "list"
  /\ Finish(r, "ok", {x[1] : x \in Filtered(r, req[r].status)}, {})
  /\ UNCHANGED <<disk, writers, power, req, toRead, rows, chosen, seen, before>>

\* receipt_no_last_ok; a handoff goes on without a comparison.
NoLastOk(r) ==
  /\ rpc[r] = "open" /\ toRead[r] = {}
  /\ req[r].command # "list"
  /\ Filtered(r, "ok") = {}
  /\ Finish(r, "no_last_ok", Unset, {})
  /\ UNCHANGED <<disk, writers, power, req, toRead, rows, chosen, seen, before>>

LastOk(r) ==
  /\ rpc[r] = "open" /\ toRead[r] = {}
  /\ req[r].command # "list"
  /\ Filtered(r, "ok") # {}
  /\ LET p == Newest(Filtered(r, "ok"))[1]
     IN  /\ chosen' = [chosen EXCEPT ![r] = p]
         /\ IF req[r].command = "last-ok" THEN Finish(r, "ok", p, {})
            ELSE rpc' = [rpc EXCEPT ![r] = "other"] /\ UNCHANGED answer
  /\ UNCHANGED <<disk, writers, power, req, toRead, rows, seen, before>>

\* The receipt to compare with is read (once more) by its path.
OtherUnreadable(r) ==
  /\ rpc[r] = "other"
  /\ ~ Decodes(At(chosen[r]))
  /\ Finish(r, "error", chosen[r], {})
  /\ UNCHANGED <<disk, writers, power, req, toRead, rows, chosen, seen, before>>

ReadOther(r) ==
  /\ rpc[r] = "other"
  /\ LET x == At(chosen[r])
     IN  /\ Decodes(x)
         /\ seen' = [seen EXCEPT ![r].other = x]
         /\ IF req[r].command = "handoff"
            THEN Finish(r, IF Drift(x, seen[r].current) THEN "drift" ELSE "match",
                        chosen[r], DiffCodes(x, seen[r].current))
            ELSE rpc' = [rpc EXCEPT ![r] = "current"] /\ UNCHANGED answer
  /\ UNCHANGED <<disk, writers, power, req, toRead, rows, chosen, before>>

-----------------------------------------------------------------------------
\* The system under it.

\* The disk catches up; what it holds is always a moment of the directory.
Writeback ==
  /\ onDisk # files
  /\ onDisk' = files
  /\ UNCHANGED <<files, contents, synced, writers, readers, power>>

\* Somebody deletes a receipt.
Delete(p) ==
  /\ files[p] # NoFile
  /\ files' = [files EXCEPT ![p] = NoFile]
  /\ UNCHANGED <<onDisk, contents, synced, writers, readers, power>>

\* Running processes are gone; a body that was not synced may be lost.
PowerLoss ==
  /\ power
  /\ power' = FALSE
  /\ files' = onDisk
  /\ \E lost \in SUBSET (Writer \ synced) :
       contents' = [i \in File |-> IF i \in lost THEN Blank ELSE contents[i]]
  /\ wpc' = [w \in Writer |-> IF wpc[w] \in {"idle", "done", "failed"} THEN wpc[w] ELSE "killed"]
  /\ rpc' = [r \in Reader |-> IF rpc[r] \in {"idle", "done"} THEN rpc[r] ELSE "killed"]
  /\ UNCHANGED <<onDisk, synced, out, flushed, req, toRead, rows, chosen, seen, answer, before>>

Write(w) ==
  \/ Refuse(w) \/ CreateTemp(w) \/ WriteBody(w) \/ SyncBody(w)
  \/ Rename(w) \/ SyncDir(w)

\* What may go wrong with it.
Fault ==
  \/ \E w \in Writer : WriteFails(w) \/ KillWriter(w)
  \/ Writeback \/ PowerLoss

Read(r) ==
  \/ Ask(r) \/ Detect(r) \/ CurrentUnreadable(r) \/ ReadCurrent(r)
  \/ DirUnreadable(r) \/ ReadDir(r) \/ ReadEntry(r)
  \/ ListDone(r) \/ NoLastOk(r) \/ LastOk(r)
  \/ OtherUnreadable(r) \/ ReadOther(r)

StoreNext ==
  \/ \E w \in Writer : Write(w)
  \/ \E r \in Reader : Read(r)
  \/ \E p \in Deleted : Delete(p)
  \/ Fault

StoreSpec == StoreInit /\ [][StoreNext]_vars

-----------------------------------------------------------------------------
AllReceipts == UNION {Receipts[w] : w \in Writer}
FoundContent == UNION {{f[n].content : n \in DOMAIN f} : f \in Found}
Content == AllReceipts \cup FoundContent \cup {Blank}

\* The variables keep their types: only receipts built by a deploy or found at
\* the start are ever read, listed or written, whole.
StoreTypeOK ==
  /\ files \in [FileName -> File \cup {NoFile}] /\ onDisk \in [FileName -> File \cup {NoFile}]
  /\ contents \in [File -> Content] /\ synced \subseteq File
  /\ wpc \in [Writer -> {"idle", "write", "sync", "rename", "flush", "done", "failed", "killed"}]
  /\ \A w \in Writer :
       out[w].receipt \in AllReceipts \cup {Unset} /\ out[w].path \in Path \cup {Unset}
  /\ flushed \subseteq {w \in Writer : wpc[w] = "done"}
  /\ rpc \in [Reader -> {"idle", "detect", "detect-second", "current", "list", "open", "other", "done", "killed"}]
  /\ \A r \in Reader :
       /\ req[r] \in Requests \cup {Unset}
       /\ toRead[r] \subseteq Path
       /\ \A x \in rows[r] : x[1] \in Path /\ x[2] \in Content
       /\ \A role \in {"current", "other"} : seen[r][role] \in Content \cup {Unset}
       /\ answer[r].verdict \in {Unset, "ok", "error", "contract", "no_last_ok", "match", "drift"}
  /\ power \in BOOLEAN

\* WriteAtomic: "no partial file on failure", and with the two syncs none after
\* a crash: whatever is killed or loses power when, a receipt path holds a
\* whole receipt or none, now and after a power loss.
Whole(dir) ==
  [p \in Path |->
     IF dir[p] = NoFile THEN NoFile
     ELSE IF dir[p] \in synced THEN contents[dir[p]] ELSE Blank]

Atomic == INSTANCE AtomicStore WITH
  Absent <- NoFile,
  visible <- [p \in Path |-> At(p)], stable <- Whole(onDisk),
  Receipt <- AllReceipts \cup FoundContent

StoreIsAtomic == Atomic!StoreSpec

\* A deploy that went through WriteAtomic with both syncs has its receipt for
\* good: a power loss takes it from its path only if something else is there.
AckedSurvives ==
  [][power # power' =>
       \A w \in flushed : files[out[w].path] = w =>
         files'[out[w].path] = w /\ contents'[w] = out[w].receipt]_vars

\* Receipts that were there all through a listing and pass the filter.
Lasting(r, filter) ==
  {p \in Path : /\ before[r][p] = files[p]
                /\ Decodes(At(p)) /\ MatchStatus(At(p).status, filter)}

\* A list misses no receipt that was there all the time, and last-ok (and
\* the handoffs and diffs that start with it) takes one at least as new as each
\* of those, never a file that is not a receipt path, and has no answer only if
\* there is none.
InventoryIsHonest ==
  [][\A r \in Reader : rpc[r] = "open" /\ rpc'[r] \in {"other", "done"} =>
       IF req[r].command = "list"
       THEN Lasting(r, req[r].status) \subseteq answer'[r].path
       ELSE IF answer'[r].verdict = "no_last_ok" THEN Lasting(r, "ok") = {}
       ELSE \E x \in rows[r] :
              /\ x[1] = chosen'[r] /\ x[2].status # "failed"
              /\ \A p \in Lasting(r, "ok") : At(p).time <= x[2].time]_vars

\* Two receipts tell of the same deployment if what one of them omits can be
\* taken from the other and nothing is left to tell them apart.
Or(x, y) == IF x = Unset THEN y ELSE x
Filled(x, y) == IF Or(x, y) = Unset THEN Unset ELSE ToBag(Or(x, y))
Told(r, s, other) ==
  LET x == LastRecord(r, s)
      y == IF s \in Names(other) THEN LastRecord(other, s) ELSE x
  IN  [x EXCEPT !.env = Filled(x.env, y.env), !.mounts = Filled(x.mounts, y.mounts)]
Story(r, other) ==
  [project |-> r.project, path |-> r.path, profiles |-> ToBag(r.profiles),
   digest |-> Or(r.digest, other.digest),
   services |-> [s \in Names(r) |-> Told(r, s, other)]]

\* A comparison says drift exactly when the two receipts it read cannot tell of
\* the same deployment; compared with the last ok one it never is compared with
\* a failed one, unless that path is one that deploys write again (file mode).
ComparisonIsHonest ==
  \A r \in Reader : answer[r].verdict \in {"match", "drift"} =>
    LET a == seen[r].other
        b == seen[r].current
    IN  /\ (answer[r].verdict = "match") = (Story(a, b) = Story(b, a))
        /\ answer[r].codes = {} => answer[r].verdict = "match"
        /\ req[r].command \in {"handoff", "vs-last-ok"} /\ chosen[r] \in {OwnPath[w] : w \in Writer} =>
             a.status # "failed"
=============================================================================

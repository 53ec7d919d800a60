------------------------ MODULE ReceiptStoreProofs -------------------------
(***************************************************************************)
(* Theorems about ReceiptStore, for any number of deploys and readers, any *)
(* receipts and any directory: WriteAtomic implements AtomicStore, a       *)
(* receipt that was synced survives a power loss, and what list, last-ok,  *)
(* handoff and diff tell of the receipts is right.                         *)
(***************************************************************************)
EXTENDS ReceiptStore, FiniteSetTheorems, TLAPS

Stage == {"idle", "write", "sync", "rename", "flush", "done", "failed", "killed"}

\* What may be at a receipt path.
Stored == AllReceipts \cup FoundContent

Types ==
  /\ files \in [FileName -> File \cup {NoFile}]
  /\ onDisk \in [FileName -> File \cup {NoFile}]
  /\ contents \in [File -> Stored \cup {Blank}]
  /\ synced \subseteq File
  /\ wpc \in [Writer -> Stage]
  /\ out \in [Writer -> [receipt : AllReceipts \cup {Unset}, path : Path \cup {Unset}]]
  /\ flushed \subseteq Writer

\* A directory whose receipt paths lead to complete files only.
Complete(dir) ==
  \A p \in Path : dir[p] # NoFile => dir[p] \in synced /\ contents[dir[p]] \in Stored

\* How far WriteAtomic has got with the file of w.
Progress(w) ==
  /\ wpc[w] \in {"idle", "write", "sync"} => w \notin synced
  /\ wpc[w] \in {"write", "sync", "rename"} =>
       out[w].receipt \in AllReceipts /\ out[w].path \in Path
  /\ wpc[w] = "sync" => contents[w] = out[w].receipt
  /\ wpc[w] \in {"rename", "flush"} => w \in synced /\ contents[w] = out[w].receipt
  /\ wpc[w] = "flush" => out[w].path \in Path

\* An acknowledged receipt that is still in its place is there on the disk too.
Acked(w) ==
  /\ wpc[w] = "done" /\ w \in synced /\ contents[w] = out[w].receipt
  /\ out[w].path \in Path
  /\ files[out[w].path] = w => onDisk[out[w].path] = w

IInv ==
  /\ Types
  /\ Complete(files) /\ Complete(onDisk)
  /\ \A w \in Writer : Progress(w)
  /\ \A w \in flushed : Acked(w)

-----------------------------------------------------------------------------
LEMMA NameFacts ==
  /\ NoFile \notin File
  /\ \A w \in Writer : w \notin Path /\ w \in File /\ w \in FileName /\ OwnPath[w] \in Path
  /\ \A p \in Path : p \in FileName
  /\ FilePath \in Path
  /\ \A w \in Writer : Receipts[w] \subseteq AllReceipts
BY StoreAssumption DEF File, FileName, AllReceipts

\* Nothing at a receipt path has been touched: readers read.
Quiet == UNCHANGED <<files, onDisk, contents, synced, wpc, out, flushed>>

LEMMA ReadersOnlyRead == ASSUME NEW r \in Reader, Read(r) PROVE Quiet /\ power' = power
BY DEF Read, Quiet, disk, writers, Ask, Detect, CurrentUnreadable, ReadCurrent, DirUnreadable,
       ReadDir, ReadEntry, ListDone, NoLastOk, LastOk, OtherUnreadable, ReadOther

LEMMA Initially == StoreInit => IInv
<1> SUFFICES ASSUME StoreInit PROVE IInv
  OBVIOUS
<1>0. PICK f \in Found :
      /\ files = [n \in FileName |-> IF n \in DOMAIN f THEN f[n].file ELSE NoFile]
      /\ contents = [i \in File |->
                       IF \E n \in DOMAIN f : f[n].file = i
                       THEN f[CHOOSE n \in DOMAIN f : f[n].file = i].content ELSE Blank]
  BY DEF StoreInit
<1>1. /\ DOMAIN f \subseteq Path
      /\ \A n \in DOMAIN f : f[n].file \in Prior /\ f[n].content \in FoundContent
  BY StoreAssumption DEF FoundContent
<1>2. Prior \subseteq File /\ Path \subseteq FileName
  BY DEF File, FileName
<1>3. ASSUME NEW i \in File PROVE contents[i] \in FoundContent \cup {Blank}
  BY <1>0, <1>1, <1>3
<1>4. ASSUME NEW n \in DOMAIN f PROVE contents[f[n].file] \in FoundContent
  BY <1>0, <1>1, <1>2, <1>4
<1>5. Types
  <2>1. files \in [FileName -> File \cup {NoFile}]
    BY <1>0, <1>1, <1>2
  <2>2. contents \in [File -> Stored \cup {Blank}]
    BY <1>0, <1>3 DEF Stored
  <2> QED
    <3>1. /\ synced = Prior /\ onDisk = files /\ flushed = {}
          /\ wpc = [w \in Writer |-> "idle"]
          /\ out = [w \in Writer |-> [receipt |-> Unset, path |-> Unset]]
      BY DEF StoreInit
    <3> QED
      BY <1>2, <2>1, <2>2, <3>1 DEF Types, Stage
<1>6. ASSUME NEW p \in Path, files[p] # NoFile
      PROVE  files[p] \in synced /\ contents[files[p]] \in Stored
  <2>1. p \in DOMAIN f /\ files[p] = f[p].file
    BY <1>0, <1>2, <1>6
  <2> QED
    <3>1. contents[f[p].file] \in FoundContent /\ f[p].file \in Prior
      BY <2>1, <1>1, <1>4
    <3>2. synced = Prior
      BY DEF StoreInit
    <3> QED
      BY <2>1, <3>1, <3>2 DEF Stored
<1>7. ASSUME NEW w \in Writer PROVE w \notin synced /\ wpc[w] = "idle"
  BY StoreAssumption DEF StoreInit
<1>8. flushed = {} /\ onDisk = files
  BY DEF StoreInit
<1> QED
  BY <1>5, <1>6, <1>7, <1>8 DEF IInv, Complete, Progress

-----------------------------------------------------------------------------
\* One lemma per action that touches the directory or the writers.

LEMMA QuietStep == IInv /\ Quiet => IInv'
BY DEF IInv, Quiet, Types, Complete, Progress, Acked

LEMMA RefuseStep == ASSUME IInv, NEW w \in Writer, Refuse(w) PROVE IInv'
<1>0. Types /\ Complete(files) /\ Complete(onDisk) /\ Progress(w)
  BY DEF IInv
<1>1. Types'
  BY <1>0, NameFacts DEF Types, Progress, Stage, Stored, Refuse, disk
<1>2. Complete(files)' /\ Complete(onDisk)'
  BY <1>0, NameFacts DEF Types, Complete, Progress, Refuse, disk
<1>3. ASSUME NEW x \in Writer PROVE Progress(x)'
  <2>1. Progress(x)
    BY DEF IInv
  <2> QED
    BY <1>0, <2>1, NameFacts DEF Types, Progress, Refuse, disk
<1>4. ASSUME NEW x \in flushed' PROVE Acked(x)'
  <2>1. x \in flushed => Acked(x)
    BY DEF IInv
  <2> QED
    BY <1>0, <2>1, NameFacts DEF Types, Progress, Acked, Refuse, disk
<1> QED
  BY <1>1, <1>2, <1>3, <1>4 DEF IInv

LEMMA CreateTempStep == ASSUME IInv, NEW w \in Writer, CreateTemp(w) PROVE IInv'
<1>0. Types /\ Complete(files) /\ Complete(onDisk) /\ Progress(w)
  BY DEF IInv
<1>a. PICK r \in Receipts[w], p \in {OwnPath[w], FilePath} :
        out' = [out EXCEPT ![w] = [receipt |-> r, path |-> p]]
  BY DEF CreateTemp
<1>b. r \in AllReceipts /\ p \in Path
  BY <1>a, NameFacts
<1>c. /\ out' \in [Writer -> [receipt : AllReceipts \cup {Unset}, path : Path \cup {Unset}]]
      /\ out'[w].receipt = r /\ out'[w].path = p
      /\ \A x \in Writer \ {w} : out'[x] = out[x]
  <2>1. out \in [Writer -> [receipt : AllReceipts \cup {Unset}, path : Path \cup {Unset}]]
    BY <1>0 DEF Types
  <2> QED
    BY <2>1, <1>a, <1>b
<1>1. Types'
  <2>1. files' \in [FileName -> File \cup {NoFile}]
    BY <1>0, NameFacts DEF Types, CreateTemp
  <2>2. contents' \in [File -> Stored \cup {Blank}]
    BY <1>0, NameFacts DEF Types, CreateTemp
  <2>3. wpc' \in [Writer -> Stage]
    BY <1>0 DEF Types, Stage, CreateTemp
  <2> QED
    BY <1>0, <1>c, <2>1, <2>2, <2>3 DEF Types, CreateTemp
<1>2. Complete(files)' /\ Complete(onDisk)'
  BY <1>0, NameFacts DEF Types, Complete, Progress, CreateTemp, disk
<1>3. ASSUME NEW x \in Writer PROVE Progress(x)'
  <2>1. Progress(x)
    BY DEF IInv
  <2> QED
    BY <1>0, <2>1, <1>b, <1>c, NameFacts DEF Types, Progress, CreateTemp
<1>4. ASSUME NEW x \in flushed' PROVE Acked(x)'
  <2>1. x \in flushed => Acked(x)
    BY DEF IInv
  <2> QED
    BY <1>0, <2>1, <1>c, NameFacts DEF Types, Acked, CreateTemp
<1> QED
  BY <1>1, <1>2, <1>3, <1>4 DEF IInv

LEMMA WriteBodyStep == ASSUME IInv, NEW w \in Writer, WriteBody(w) PROVE IInv'
<1>0. Types /\ Complete(files) /\ Complete(onDisk) /\ Progress(w)
  BY DEF IInv
<1>1. Types'
  BY <1>0, NameFacts DEF Types, Progress, Stage, Stored, WriteBody, disk
<1>2. Complete(files)' /\ Complete(onDisk)'
  BY <1>0, NameFacts DEF Types, Complete, Progress, WriteBody, disk
<1>3. ASSUME NEW x \in Writer PROVE Progress(x)'
  <2>1. Progress(x)
    BY DEF IInv
  <2> QED
    BY <1>0, <2>1, NameFacts DEF Types, Progress, WriteBody, disk
<1>4. ASSUME NEW x \in flushed' PROVE Acked(x)'
  <2>1. x \in flushed => Acked(x)
    BY DEF IInv
  <2> QED
    BY <1>0, <2>1, NameFacts DEF Types, Progress, Acked, WriteBody, disk
<1> QED
  BY <1>1, <1>2, <1>3, <1>4 DEF IInv

LEMMA SyncBodyStep == ASSUME IInv, NEW w \in Writer, SyncBody(w) PROVE IInv'
<1>0. Types /\ Complete(files) /\ Complete(onDisk) /\ Progress(w)
  BY DEF IInv
<1>1. Types'
  BY <1>0, NameFacts DEF Types, Progress, Stage, Stored, SyncBody, disk
<1>2. Complete(files)' /\ Complete(onDisk)'
  BY <1>0, NameFacts DEF Types, Complete, Progress, SyncBody, disk
<1>3. ASSUME NEW x \in Writer PROVE Progress(x)'
  <2>1. Progress(x)
    BY DEF IInv
  <2> QED
    BY <1>0, <2>1, NameFacts DEF Types, Progress, SyncBody, disk
<1>4. ASSUME NEW x \in flushed' PROVE Acked(x)'
  <2>1. x \in flushed => Acked(x)
    BY DEF IInv
  <2> QED
    BY <1>0, <2>1, NameFacts DEF Types, Progress, Acked, SyncBody, disk
<1> QED
  BY <1>1, <1>2, <1>3, <1>4 DEF IInv

LEMMA RenameStep == ASSUME IInv, NEW w \in Writer, Rename(w) PROVE IInv'
<1>0. Types /\ Complete(files) /\ Complete(onDisk) /\ Progress(w)
  BY DEF IInv
<1>1. Types'
  <2>1. out[w].path \in FileName
    BY <1>0, NameFacts DEF Progress, Rename
  <2>2. files' \in [FileName -> File \cup {NoFile}]
    BY <1>0, <2>1, NameFacts DEF Types, Rename
  <2> QED
    BY <1>0, <2>2 DEF Types, Stage, Rename
<1>2. Complete(files)' /\ Complete(onDisk)'
  BY <1>0, NameFacts DEF Types, Complete, Progress, Stored, Rename
<1>3. ASSUME NEW x \in Writer PROVE Progress(x)'
  <2>1. Progress(x)
    BY DEF IInv
  <2> QED
    BY <1>0, <2>1, NameFacts DEF Types, Progress, Rename, disk
<1>4. ASSUME NEW x \in flushed' PROVE Acked(x)'
  <2>1. x \in flushed => Acked(x)
    BY DEF IInv
  <2> QED
    BY <1>0, <2>1, NameFacts DEF Types, Progress, Acked, Rename, disk
<1> QED
  BY <1>1, <1>2, <1>3, <1>4 DEF IInv

LEMMA SyncDirStep == ASSUME IInv, NEW w \in Writer, SyncDir(w) PROVE IInv'
<1>0. Types /\ Complete(files) /\ Complete(onDisk) /\ Progress(w)
  BY DEF IInv
<1>1. Types'
  BY <1>0, NameFacts DEF Types, Progress, Stage, Stored, SyncDir, disk
<1>2. Complete(files)' /\ Complete(onDisk)'
  BY <1>0, NameFacts DEF Types, Complete, Progress, SyncDir, disk
<1>3. ASSUME NEW x \in Writer PROVE Progress(x)'
  <2>1. Progress(x)
    BY DEF IInv
  <2> QED
    BY <1>0, <2>1, NameFacts DEF Types, Progress, SyncDir, disk
<1>4. ASSUME NEW x \in flushed' PROVE Acked(x)'
  <2>1. x \in flushed => Acked(x)
    BY DEF IInv
  <2> QED
    BY <1>0, <2>1, NameFacts DEF Types, Progress, Acked, SyncDir, disk
<1> QED
  BY <1>1, <1>2, <1>3, <1>4 DEF IInv

LEMMA WriteFailsStep == ASSUME IInv, NEW w \in Writer, WriteFails(w) PROVE IInv'
<1>0. Types /\ Complete(files) /\ Complete(onDisk) /\ Progress(w)
  BY DEF IInv
<1>1. Types'
  BY <1>0, NameFacts DEF Types, Progress, Stage, Stored, WriteFails, disk
<1>2. Complete(files)' /\ Complete(onDisk)'
  BY <1>0, NameFacts DEF Types, Complete, Progress, WriteFails, disk
<1>3. ASSUME NEW x \in Writer PROVE Progress(x)'
  <2>1. Progress(x)
    BY DEF IInv
  <2> QED
    BY <1>0, <2>1, NameFacts DEF Types, Progress, WriteFails, disk
<1>4. ASSUME NEW x \in flushed' PROVE Acked(x)'
  <2>1. x \in flushed => Acked(x)
    BY DEF IInv
  <2> QED
    BY <1>0, <2>1, NameFacts DEF Types, Progress, Acked, WriteFails, disk
<1> QED
  BY <1>1, <1>2, <1>3, <1>4 DEF IInv

LEMMA KillWriterStep == ASSUME IInv, NEW w \in Writer, KillWriter(w) PROVE IInv'
<1>0. Types /\ Complete(files) /\ Complete(onDisk) /\ Progress(w)
  BY DEF IInv
<1>1. Types'
  BY <1>0, NameFacts DEF Types, Progress, Stage, Stored, KillWriter, disk
<1>2. Complete(files)' /\ Complete(onDisk)'
  BY <1>0, NameFacts DEF Types, Complete, Progress, KillWriter, disk
<1>3. ASSUME NEW x \in Writer PROVE Progress(x)'
  <2>1. Progress(x)
    BY DEF IInv
  <2> QED
    BY <1>0, <2>1, NameFacts DEF Types, Progress, KillWriter, disk
<1>4. ASSUME NEW x \in flushed' PROVE Acked(x)'
  <2>1. x \in flushed => Acked(x)
    BY DEF IInv
  <2> QED
    BY <1>0, <2>1, NameFacts DEF Types, Progress, Acked, KillWriter, disk
<1> QED
  BY <1>1, <1>2, <1>3, <1>4 DEF IInv


LEMMA DeleteStep == ASSUME IInv, NEW p \in Deleted, Delete(p) PROVE IInv'
<1>0. Types /\ Complete(files) /\ Complete(onDisk)
  BY DEF IInv
<1>1. p \in Path /\ p \in FileName
  BY StoreAssumption, NameFacts
<1>2. Types'
  BY <1>0, <1>1 DEF Types, Delete, writers
<1>3. Complete(files)' /\ Complete(onDisk)'
  BY <1>0, <1>1 DEF Types, Complete, Delete
<1>4. ASSUME NEW x \in Writer PROVE Progress(x)'
  BY <1>4 DEF IInv, Progress, Delete, writers
<1>5. ASSUME NEW x \in flushed' PROVE Acked(x)'
  <2>1. Acked(x)
    BY DEF IInv, Delete, writers
  <2>2. x \in Writer /\ files' = [files EXCEPT ![p] = NoFile] /\ out' = out
        /\ wpc' = wpc /\ synced' = synced /\ contents' = contents /\ onDisk' = onDisk
    BY <1>0 DEF Types, Delete, writers
  <2>3. out[x].path \in FileName /\ x # NoFile
    BY <2>1, <2>2, NameFacts DEF Acked
  <2> QED
    BY <1>0, <1>1, <2>1, <2>2, <2>3 DEF Types, Acked
<1> QED
  BY <1>2, <1>3, <1>4, <1>5 DEF IInv

LEMMA WritebackStep == IInv /\ Writeback => IInv'
BY DEF IInv, Types, Complete, Progress, Acked, Writeback, writers

\* Running processes are gone, and nothing that was synced.
LEMMA PowerLossStep == ASSUME IInv, PowerLoss PROVE IInv'
<1>0. Types /\ Complete(files) /\ Complete(onDisk)
  BY DEF IInv
<1>1. PICK lost \in SUBSET (Writer \ synced) :
        contents' = [i \in File |-> IF i \in lost THEN Blank ELSE contents[i]]
  BY DEF PowerLoss
<1>2. contents' \in [File -> Stored \cup {Blank}]
      /\ \A i \in synced : contents'[i] = contents[i]
  BY <1>0, <1>1 DEF Types
<1>3. wpc' \in [Writer -> Stage]
      /\ \A w \in Writer :
           \/ wpc'[w] = wpc[w] /\ wpc[w] \in {"idle", "done", "failed"}
           \/ wpc'[w] = "killed" /\ wpc[w] \notin {"idle", "done", "failed"}
  <2>1. wpc' = [w \in Writer |-> IF wpc[w] \in {"idle", "done", "failed"} THEN wpc[w] ELSE "killed"]
    BY DEF PowerLoss
  <2>2. wpc \in [Writer -> Stage]
    BY <1>0 DEF Types
  <2>3. wpc' \in [Writer -> Stage]
    BY <2>1, <2>2 DEF Stage
  <2>4. ASSUME NEW w \in Writer
        PROVE  \/ wpc'[w] = wpc[w] /\ wpc[w] \in {"idle", "done", "failed"}
               \/ wpc'[w] = "killed" /\ wpc[w] \notin {"idle", "done", "failed"}
    BY <2>1
  <2> QED
    BY <2>3, <2>4
<1>4. files' = onDisk /\ UNCHANGED <<onDisk, synced, out, flushed>>
  BY DEF PowerLoss
<1>5. Types'
  BY <1>0, <1>2, <1>3, <1>4 DEF Types
<1>6. Complete(files)' /\ Complete(onDisk)'
  BY <1>0, <1>2, <1>4 DEF Complete
<1>7. ASSUME NEW w \in Writer PROVE Progress(w)'
  <2>1. Progress(w)
    BY DEF IInv
  <2> QED
    BY <2>1, <1>3, <1>4 DEF Progress
<1>8. ASSUME NEW w \in flushed' PROVE Acked(w)'
  <2>1. Acked(w) /\ w \in Writer
    BY <1>0, <1>4 DEF IInv, Types
  <2> QED
    BY <2>1, <1>2, <1>3, <1>4 DEF Acked
<1> QED
  BY <1>5, <1>6, <1>7, <1>8 DEF IInv

LEMMA Inductive == IInv /\ [StoreNext]_vars => IInv'
<1> SUFFICES ASSUME IInv, [StoreNext]_vars PROVE IInv'
  OBVIOUS
<1>1. ASSUME NEW w \in Writer, Write(w) PROVE IInv'
  BY <1>1, RefuseStep, CreateTempStep, WriteBodyStep, SyncBodyStep, RenameStep, SyncDirStep
     DEF Write
<1>2. ASSUME NEW r \in Reader, Read(r) PROVE IInv'
  BY <1>2, ReadersOnlyRead, QuietStep
<1>3. ASSUME NEW p \in Deleted, Delete(p) PROVE IInv'
  BY <1>3, DeleteStep
<1>4. CASE Fault
  BY <1>4, WriteFailsStep, KillWriterStep, WritebackStep, PowerLossStep DEF Fault
<1>5. CASE UNCHANGED vars
  BY <1>5, QuietStep DEF vars, disk, writers, Quiet
<1> QED
  BY <1>1, <1>2, <1>3, <1>4, <1>5 DEF StoreNext

\* The invariant of the store: a receipt path leads to a file whose content has
\* reached the disk, on the disk as well, however many deploys write, fail, are
\* killed or lose power in WriteAtomic.
THEOREM Invariance == StoreSpec => []IInv
BY Initially, Inductive, PTL DEF StoreSpec

-----------------------------------------------------------------------------
\* A receipt whose directory sync worked is still in its place after a power
\* loss, whole, unless another had replaced it or somebody deleted it.
THEOREM AckedReceiptsSurvive == StoreSpec => AckedSurvives
<1>1. ASSUME IInv, [StoreNext]_vars, power # power', NEW w \in flushed, files[out[w].path] = w
      PROVE  files'[out[w].path] = w /\ contents'[w] = out[w].receipt
  <2>1. PowerLoss
    <3>1. \A r \in Reader : Read(r) => power' = power
      BY ReadersOnlyRead
    <3>2. \A x \in Writer : Write(x) \/ WriteFails(x) \/ KillWriter(x) => power' = power
      BY DEF Write, Refuse, CreateTemp, WriteBody, SyncBody, Rename, SyncDir, WriteFails, KillWriter
    <3> QED
      BY <1>1, <3>1, <3>2 DEF StoreNext, Fault, Delete, Writeback, vars
  <2>2. Acked(w) /\ w \in Writer /\ w \in File
    BY <1>1, NameFacts DEF IInv, Types
  <2>3. contents'[w] = contents[w]
    BY <2>1, <2>2 DEF PowerLoss, Acked
  <2> QED
    BY <1>1, <2>1, <2>2, <2>3 DEF PowerLoss, Acked
<1>2. IInv /\ [StoreNext]_vars =>
        [power # power' =>
           \A w \in flushed : files[out[w].path] = w =>
             files'[out[w].path] = w /\ contents'[w] = out[w].receipt]_vars
  BY <1>1
<1> QED
  BY <1>2, Invariance, PTL DEF StoreSpec, AckedSurvives

-----------------------------------------------------------------------------
\* The refinement: what processes find at the receipt paths, now and after a
\* power loss, changes as AtomicStore says.

Visible == [p \in Path |-> At(p)]
Stable == Whole(onDisk)

LEMMA Seen ==
  ASSUME IInv
  PROVE  /\ Visible = Whole(files)
         /\ Visible \in [Path -> Stored \cup {NoFile}]
         /\ Stable \in [Path -> Stored \cup {NoFile}]
<1>1. Complete(files) /\ Complete(onDisk)
  BY DEF IInv
<1>2. \A p \in Path : /\ At(p) = IF files[p] = NoFile THEN NoFile
                                ELSE IF files[p] \in synced THEN contents[files[p]] ELSE Blank
                     /\ At(p) \in Stored \cup {NoFile}
  BY <1>1 DEF At, Complete
<1> QED
  BY <1>1, <1>2 DEF Visible, Stable, Whole, Complete

\* What an action leaves alone at the receipt paths.
LEMMA Undisturbed ==
  ASSUME IInv, synced \subseteq synced', \A i \in synced : contents'[i] = contents[i]
  PROVE  /\ (\A p \in Path : files'[p] = files[p]) => Visible' = Visible
         /\ onDisk' = onDisk => Stable' = Stable
BY DEF IInv, Complete, Visible, Stable, At, Whole

AbstractNext == Atomic!Put \/ Atomic!Take \/ Atomic!Settle \/ Atomic!PowerLoss

LEMMA WriterRefines ==
  ASSUME IInv, NEW w \in Writer, Write(w) \/ WriteFails(w) \/ KillWriter(w)
  PROVE  AbstractNext \/ (Visible' = Visible /\ Stable' = Stable)
<1>0. Types /\ Progress(w) /\ Complete(files) /\ Complete(onDisk)
  BY DEF IInv
<1>1. CASE Refuse(w) \/ KillWriter(w)
  BY <1>1, Undisturbed DEF Refuse, KillWriter, disk
<1>2. CASE CreateTemp(w)
  <2>1. /\ \A p \in Path : files'[p] = files[p]
        /\ \A i \in synced : contents'[i] = contents[i]
        /\ synced' = synced /\ onDisk' = onDisk
    BY <1>0, <1>2, NameFacts DEF Types, Progress, CreateTemp
  <2> QED
    BY <2>1, Undisturbed
<1>3. CASE WriteBody(w)
  <2>1. /\ files' = files /\ synced' = synced /\ onDisk' = onDisk
        /\ \A i \in synced : contents'[i] = contents[i]
    BY <1>0, <1>3 DEF Types, Progress, WriteBody
  <2> QED
    BY <2>1, Undisturbed
<1>4. CASE SyncBody(w)
  <2>1. /\ files' = files /\ synced \subseteq synced' /\ onDisk' = onDisk /\ contents' = contents
    BY <1>4 DEF SyncBody
  <2> QED
    BY <2>1, Undisturbed
<1>5. CASE Rename(w)
  <2>1. /\ out[w].path \in Path /\ out[w].receipt \in Stored
        /\ w \in File /\ w # NoFile /\ contents[w] = out[w].receipt
    BY <1>0, <1>5, NameFacts DEF Progress, Stored, Rename
  <2>2. \A p \in Path : files'[p] = IF p = out[w].path THEN w ELSE files[p]
    BY <1>0, <1>5, <2>1, NameFacts DEF Types, Rename
  <2>3. contents' = contents /\ synced' = synced /\ onDisk' = onDisk
    BY <1>5 DEF Rename
  <2>4. Visible' = [Visible EXCEPT ![out[w].path] = out[w].receipt]
    BY <2>1, <2>2, <2>3 DEF Visible, At
  <2>5. Stable' = Stable
    BY <2>3, Undisturbed
  <2> QED
    BY <2>1, <2>4, <2>5 DEF AbstractNext, Atomic!Put, Visible, Stable, Stored
<1>6. CASE SyncDir(w)
  <2>1. files' = files /\ contents' = contents /\ synced' = synced
        /\ (onDisk' = onDisk \/ onDisk' = files)
    BY <1>6 DEF SyncDir
  <2>2. Visible' = Visible
    BY <2>1, Undisturbed
  <2>3. onDisk' = files => Stable' = Visible
    BY <2>1, Seen DEF Stable, Whole
  <2> QED
    BY <2>1, <2>2, <2>3, Undisturbed DEF AbstractNext, Atomic!Settle, Visible, Stable
<1>7. CASE WriteFails(w)
  <2>1. /\ \A p \in Path : files'[p] = files[p]
        /\ contents' = contents /\ synced' = synced /\ onDisk' = onDisk
    BY <1>0, <1>7, NameFacts DEF Types, WriteFails
  <2> QED
    BY <2>1, Undisturbed
<1> QED
  BY <1>1, <1>2, <1>3, <1>4, <1>5, <1>6, <1>7 DEF Write

LEMMA StepRefines ==
  ASSUME IInv, [StoreNext]_vars
  PROVE  AbstractNext \/ (Visible' = Visible /\ Stable' = Stable)
<1>0. Types /\ Complete(files) /\ Complete(onDisk)
  BY DEF IInv
<1>1. ASSUME NEW w \in Writer, Write(w) \/ WriteFails(w) \/ KillWriter(w)
      PROVE  AbstractNext \/ (Visible' = Visible /\ Stable' = Stable)
  BY <1>1, WriterRefines
<1>2. CASE Quiet
  BY <1>2, Undisturbed DEF Quiet
<1>3. ASSUME NEW p \in Deleted, Delete(p) PROVE AbstractNext
  <2>1. p \in Path /\ contents' = contents /\ synced' = synced /\ onDisk' = onDisk
    BY <1>3, StoreAssumption DEF Delete
  <2>2. \A n \in Path : files'[n] = IF n = p THEN NoFile ELSE files[n]
    BY <1>0, <1>3, <2>1, NameFacts DEF Types, Delete
  <2>3. Visible' = [Visible EXCEPT ![p] = NoFile]
    BY <2>1, <2>2 DEF Visible, At
  <2>4. Stable' = Stable
    BY <2>1, Undisturbed
  <2> QED
    BY <2>1, <2>3, <2>4 DEF AbstractNext, Atomic!Take, Visible, Stable
<1>4. CASE Writeback
  <2>1. onDisk' = files /\ UNCHANGED <<files, contents, synced>>
    BY <1>4 DEF Writeback
  <2>2. Visible' = Visible /\ Stable' = Visible
    BY <2>1, Seen DEF Visible, Stable, Whole, At
  <2> QED
    BY <2>2 DEF AbstractNext, Atomic!Settle, Visible, Stable
<1>5. CASE PowerLoss
  <2>1. files' = onDisk /\ UNCHANGED <<onDisk, synced>>
    BY <1>5 DEF PowerLoss
  <2>2. \A i \in synced : contents'[i] = contents[i]
    BY <1>0, <1>5 DEF Types, PowerLoss
  <2>3. Stable' = Stable
    BY <2>1, <2>2, Undisturbed
  <2>4. Visible' = Stable
    BY <1>0, <2>1, <2>2 DEF Complete, Visible, Stable, At, Whole
  <2> QED
    BY <2>3, <2>4 DEF AbstractNext, Atomic!PowerLoss, Visible, Stable
<1>6. ASSUME NEW r \in Reader, Read(r) PROVE Quiet
  BY <1>6, ReadersOnlyRead
<1>7. CASE UNCHANGED vars
  BY <1>7, <1>2 DEF vars, disk, writers, Quiet
<1> QED
  BY <1>1, <1>2, <1>3, <1>4, <1>5, <1>6, <1>7 DEF StoreNext, Fault

\* WriteAtomic, whatever fails, is killed or loses power in whatever order:
\* receipts come and go as a whole, and a power loss only takes back.
THEOREM Refinement == StoreSpec => StoreIsAtomic
<1>1. StoreInit => Atomic!StoreInit
  <2> SUFFICES ASSUME StoreInit PROVE Atomic!StoreInit
    OBVIOUS
  <2>1. IInv /\ onDisk = files
    BY Initially DEF StoreInit
  <2>2. Visible \in [Path -> Stored \cup {NoFile}] /\ Stable = Visible
    BY <2>1, Seen DEF Stable
  <2> QED
    BY <2>2 DEF Atomic!StoreInit, Atomic!Place, Visible, Stable, Stored
<1>2. IInv /\ [StoreNext]_vars =>
        [Atomic!Put \/ Atomic!Take \/ Atomic!Settle \/ Atomic!PowerLoss]_<<[p \in Path |-> At(p)], Whole(onDisk)>>
  BY StepRefines DEF AbstractNext, Visible, Stable
<1> QED
  BY <1>1, <1>2, Invariance, PTL DEF StoreSpec, StoreIsAtomic, Atomic!StoreSpec

-----------------------------------------------------------------------------
\* The readers.  Each takes several steps, between which receipts are written,
\* replaced and deleted.

Placed == {"flush", "done", "killed"}

\* A deploy has its own file in place: its content is the receipt it built, for good.
OwnInPlace(dir) ==
  /\ \A p \in Path, w \in Writer : dir[p] = w => wpc[w] \in Placed /\ contents[w] = out[w].receipt
  /\ \A w \in Writer : dir[OwnPath[w]] \in {NoFile, w}

Steady ==
  /\ OwnInPlace(files) /\ OwnInPlace(onDisk)
  /\ \A w \in Writer :
       wpc[w] \in {"write", "sync", "rename"} => out[w].path \in {OwnPath[w], FilePath}

Legible(x) == x \in Stored /\ Decodes(x)

\* The stages of a command, and what it has read by then.
Course(r) ==
  LET cmd == req[r].command
  IN  /\ rpc[r] = "idle" => req[r] = Unset /\ chosen[r] = Unset
      /\ rpc[r] # "idle" => req[r] \in Requests
      /\ rpc[r] \in {"detect", "detect-second"} => cmd = "diff" /\ chosen[r] = req[r].other
      /\ rpc[r] \in {"list", "open"} => cmd \in {"list", "last-ok", "handoff", "vs-last-ok"}
      /\ rpc[r] \in {"list", "open", "other"} /\ cmd = "handoff" => Legible(seen[r].current)
      /\ rpc[r] = "other" => cmd \in {"handoff", "vs-last-ok", "diff", "pair"} /\ chosen[r] \in Path
      /\ rpc[r] = "current" => cmd \notin {"list", "last-ok"}
      /\ rpc[r] = "current" /\ cmd \in {"vs-last-ok", "diff", "pair"} => Legible(seen[r].other)
      /\ rpc[r] \in {"idle", "detect", "detect-second", "list", "open", "other"} => seen[r].other = Unset
      /\ rpc[r] = "current" /\ cmd \in {"handoff", "read"} => seen[r].other = Unset
      /\ rpc[r] # "done" => answer[r] = NoAnswer

ReaderTypes(r) ==
  /\ IsFiniteSet(rows[r])
  /\ rpc[r] \in {"idle", "detect", "detect-second", "current", "list", "open", "other", "done", "killed"}
  /\ toRead[r] \subseteq Path
  /\ \A x \in rows[r] : x = <<x[1], x[2]>> /\ x[1] \in Path /\ Legible(x[2])
  /\ \A role \in {"current", "other"} : seen[r][role] = Unset \/ Legible(seen[r][role])
  /\ answer[r].verdict \in {Unset, "ok", "error", "contract", "no_last_ok", "match", "drift"}

\* What has been listed so far, of what is still as it was.
Inventory(r) ==
  rpc[r] = "open" =>
    /\ \A p \in Path, w \in Writer : before[r][p] = w => wpc[w] \in Placed
    /\ \A p \in Path \ toRead[r] : before[r][p] = files[p] /\ Decodes(At(p)) => <<p, At(p)>> \in rows[r]

\* A listed receipt of a deploy is the one it built.
Genuine(r) ==
  \A w \in Writer :
    /\ \A x \in rows[r] : x[1] = OwnPath[w] => wpc[w] \in Placed /\ x[2] = out[w].receipt
    /\ req[r] # Unset /\ req[r].command \in {"handoff", "vs-last-ok"} /\ chosen[r] = OwnPath[w] =>
         /\ wpc[w] \in Placed /\ out[w].receipt.status # "failed"
         /\ seen[r].other # Unset => seen[r].other.status # "failed"

Honest(r) ==
  answer[r].verdict \in {"match", "drift"} =>
    /\ Legible(seen[r].other) /\ Legible(seen[r].current)
    /\ answer[r].verdict = "drift" <=> Drift(seen[r].other, seen[r].current)
    /\ answer[r].codes = DiffCodes(seen[r].other, seen[r].current)

ReaderInv(r) == ReaderTypes(r) /\ Course(r) /\ Inventory(r) /\ Genuine(r) /\ Honest(r)

\* A reader's variables are those of all readers.
ReaderFns ==
  /\ rpc = [r \in Reader |-> rpc[r]]
  /\ DOMAIN req = Reader /\ DOMAIN toRead = Reader /\ DOMAIN rows = Reader
  /\ DOMAIN chosen = Reader /\ DOMAIN answer = Reader /\ DOMAIN before = Reader
  /\ seen \in [Reader -> [current : Stored \cup {Unset}, other : Stored \cup {Unset}]]

Inv == IInv /\ Steady /\ ReaderFns /\ \A r \in Reader : ReaderInv(r)

-----------------------------------------------------------------------------
LEMMA SteadyAtFirst == StoreInit => Steady
<1> SUFFICES ASSUME StoreInit PROVE Steady
  OBVIOUS
<1>1. PICK f \in Found : files = [n \in FileName |-> IF n \in DOMAIN f THEN f[n].file ELSE NoFile]
  BY DEF StoreInit
<1>2. ASSUME NEW p \in Path
      PROVE  /\ files[p] \notin Writer
             /\ \A w \in Writer : p = OwnPath[w] => files[p] = NoFile
  <2>1. files[p] = IF p \in DOMAIN f THEN f[p].file ELSE NoFile
    BY <1>1, NameFacts
  <2> QED BY <2>1, StoreAssumption
<1>3. onDisk = files /\ \A w \in Writer : wpc[w] = "idle"
  BY DEF StoreInit
<1> QED BY <1>2, <1>3, NameFacts DEF Steady, OwnInPlace

\* Nothing of a deploy that is in its place ever changes, and no file comes back
\* to where it was.
Forward ==
  /\ \A w \in Writer : wpc[w] \in Placed => wpc'[w] \in Placed /\ out'[w] = out[w]
  /\ \A p \in Path :
       \/ files'[p] = files[p] /\ (files[p] # NoFile => contents'[files[p]] = contents[files[p]])
       \/ files'[p] = NoFile
       \/ files'[p] \in Writer /\ wpc[files'[p]] = "rename"

LEMMA WriterSteady ==
  ASSUME IInv, Steady, NEW w \in Writer, Write(w) \/ WriteFails(w) \/ KillWriter(w)
  PROVE  Steady' /\ Forward
<1> USE NameFacts DEF Steady, OwnInPlace, Forward, Placed
<1>0. Types /\ Progress(w) /\ Complete(files) /\ Complete(onDisk)
  BY DEF IInv
<1>1. CASE Refuse(w)
  BY <1>0, <1>1 DEF Refuse, disk, Types
<1>2. CASE CreateTemp(w)
  <2>1. PICK r \in Receipts[w], at \in {OwnPath[w], FilePath} :
          out' = [out EXCEPT ![w] = [receipt |-> r, path |-> at]]
    BY <1>2 DEF CreateTemp
  <2>2. out'[w].path \in {OwnPath[w], FilePath} /\ \A x \in Writer \ {w} : out'[x] = out[x]
    BY <1>0, <2>1 DEF Types
  <2>3. /\ \A p \in Path : files'[p] = files[p] /\ files[p] # w
        /\ onDisk' = onDisk /\ \A p \in Path : onDisk[p] # w
        /\ \A i \in File \ {w} : contents'[i] = contents[i]
        /\ wpc[w] = "idle" /\ wpc' = [wpc EXCEPT ![w] = "write"]
    <3>1. /\ onDisk' = onDisk /\ wpc[w] = "idle" /\ wpc' = [wpc EXCEPT ![w] = "write"]
          /\ files' = [files EXCEPT ![w] = w] /\ contents' = [contents EXCEPT ![w] = Blank]
      BY <1>2 DEF CreateTemp
    <3>2. \A p \in Path : files'[p] = files[p]
      BY <3>1, <1>0 DEF Types
    <3>3. \A i \in File \ {w} : contents'[i] = contents[i]
      BY <3>1, <1>0 DEF Types
    <3>4. \A p \in Path : files[p] # w /\ onDisk[p] # w
      BY <3>1
    <3> QED BY <3>1, <3>2, <3>3, <3>4
  <2> QED BY <1>0, <2>2, <2>3 DEF Types
<1>3. CASE WriteBody(w)
  BY <1>0, <1>3 DEF WriteBody, Types
<1>4. CASE SyncBody(w)
  BY <1>0, <1>4 DEF SyncBody, Types
<1>5. CASE Rename(w)
  <2>1. /\ out[w].path \in {OwnPath[w], FilePath} /\ contents[w] = out[w].receipt
        /\ wpc[w] = "rename" /\ wpc' = [wpc EXCEPT ![w] = "flush"]
        /\ UNCHANGED <<onDisk, contents, out>>
    BY <1>0, <1>5 DEF Rename, Progress
  <2>2. \A p \in Path : files'[p] = IF p = out[w].path THEN w ELSE files[p]
    BY <1>0, <1>5 DEF Rename, Types
  <2>3. \A x \in Writer : files'[OwnPath[x]] \in {NoFile, x}
    BY <2>1, <2>2, StoreAssumption
  <2> QED BY <1>0, <2>1, <2>2, <2>3 DEF Types
<1>6. CASE SyncDir(w)
  BY <1>0, <1>6 DEF SyncDir, Types
<1>7. CASE WriteFails(w)
  BY <1>0, <1>7 DEF WriteFails, Types
<1>8. CASE KillWriter(w)
  BY <1>0, <1>8 DEF KillWriter, disk, Types
<1> QED BY <1>1, <1>2, <1>3, <1>4, <1>5, <1>6, <1>7, <1>8 DEF Write

LEMMA OthersSteady ==
  ASSUME IInv, Steady, (\E p \in Deleted : Delete(p)) \/ Writeback \/ Quiet
  PROVE  Steady' /\ Forward
<1> USE NameFacts DEF Steady, OwnInPlace, Forward, Placed
<1>0. Types /\ Complete(files)
  BY DEF IInv
<1>1. ASSUME NEW p \in Deleted, Delete(p) PROVE Steady' /\ Forward
  <2>1. \A n \in Path : files'[n] = IF n = p THEN NoFile ELSE files[n]
    BY <1>0, <1>1, StoreAssumption DEF Delete, Types
  <2>2. UNCHANGED <<onDisk, contents, wpc, out>>
    BY <1>1 DEF Delete, writers
  <2> QED BY <2>1, <2>2
<1>2. CASE Writeback
  BY <1>2 DEF Writeback, writers
<1>3. CASE Quiet
  BY <1>3 DEF Quiet
<1> QED BY <1>1, <1>2, <1>3

\* A power loss takes back what was in place, as it was.
LEMMA PowerLossSteady ==
  ASSUME IInv, Steady, PowerLoss
  PROVE  /\ Steady'
         /\ \A w \in Writer : wpc[w] \in Placed => wpc'[w] \in Placed /\ out'[w] = out[w]
<1> USE NameFacts DEF Steady, OwnInPlace, Placed
<1>1. /\ files' = onDisk /\ UNCHANGED <<onDisk, synced, out>>
      /\ wpc' = [w \in Writer |-> IF wpc[w] \in {"idle", "done", "failed"} THEN wpc[w] ELSE "killed"]
  BY DEF PowerLoss
<1>2. \A i \in synced : contents'[i] = contents[i]
  BY DEF PowerLoss, IInv, Types
<1>3. \A p \in Path, w \in Writer : onDisk[p] = w =>
        wpc[w] \in Placed /\ contents'[w] = out[w].receipt
  BY <1>2 DEF IInv, Complete
<1>4. \A w \in Writer : wpc[w] \in Placed => wpc'[w] \in Placed
  BY <1>1
<1>5. \A w \in Writer : wpc'[w] \notin {"write", "sync", "rename"}
  BY <1>1
<1> QED BY <1>1, <1>3, <1>4, <1>5

-----------------------------------------------------------------------------
\* What the readers have learned stays true whatever the writers do.

ReaderSame(z) ==
  /\ rpc'[z] = rpc[z] /\ req'[z] = req[z] /\ toRead'[z] = toRead[z] /\ rows'[z] = rows[z]
  /\ chosen'[z] = chosen[z] /\ seen'[z] = seen[z] /\ answer'[z] = answer[z]
  /\ before'[z] = before[z]

LEMMA InventoryForward ==
  ASSUME Steady, Forward, NEW z \in Reader, Inventory(z), toRead'[z] = toRead[z],
         rows'[z] = rows[z], before'[z] = before[z], rpc'[z] = rpc[z]
  PROVE  Inventory(z)'
<1> SUFFICES ASSUME rpc[z] = "open"
             PROVE  /\ \A p \in Path, w \in Writer : before[z][p] = w => wpc'[w] \in Placed
                    /\ \A p \in Path \ toRead[z] :
                         before[z][p] = files'[p] /\ Decodes(At(p)') => <<p, At(p)'>> \in rows[z]
  BY DEF Inventory
<1>1. \A p \in Path, w \in Writer : before[z][p] = w => wpc[w] \in Placed
  BY DEF Inventory
<1>2. ASSUME NEW p \in Path \ toRead[z], before[z][p] = files'[p], Decodes(At(p)')
      PROVE  <<p, At(p)'>> \in rows[z]
  <2>1. files'[p] # NoFile
    BY <1>2 DEF At, Decodes
  <2>2. ~ (files'[p] \in Writer /\ wpc[files'[p]] = "rename")
    BY <1>1, <1>2 DEF Placed
  <2>3. files'[p] = files[p] /\ contents'[files[p]] = contents[files[p]]
    BY <2>1, <2>2 DEF Forward
  <2>4. At(p)' = At(p)
    BY <2>3 DEF At
  <2> QED BY <1>2, <2>3, <2>4 DEF Inventory
<1> QED BY <1>1, <1>2 DEF Forward

LEMMA GenuineForward ==
  ASSUME NEW z \in Reader, Genuine(z), rows'[z] = rows[z], req'[z] = req[z],
         chosen'[z] = chosen[z], seen'[z] = seen[z],
         \A w \in Writer : wpc[w] \in Placed => wpc'[w] \in Placed /\ out'[w] = out[w]
  PROVE  Genuine(z)'
BY DEF Genuine

LEMMA ReaderSteady ==
  ASSUME Steady, Forward, NEW z \in Reader, ReaderInv(z), ReaderSame(z)
  PROVE  ReaderInv(z)'
<1>1. Inventory(z)' /\ Genuine(z)'
  BY InventoryForward, GenuineForward DEF ReaderInv, ReaderSame, Forward
<1>2. ReaderTypes(z)' /\ Course(z)' /\ Honest(z)'
  BY DEF ReaderInv, ReaderSame, ReaderTypes, Course, Honest
<1> QED BY <1>1, <1>2 DEF ReaderInv

LEMMA ReaderPowerLoss ==
  ASSUME IInv, Steady, PowerLoss, ReaderFns, NEW z \in Reader, ReaderInv(z)
  PROVE  ReaderInv(z)'
<1>1. /\ rpc'[z] = IF rpc[z] \in {"idle", "done"} THEN rpc[z] ELSE "killed"
      /\ UNCHANGED <<req, toRead, rows, chosen, seen, answer, before>>
  BY DEF PowerLoss
<1>2. Genuine(z)'
  BY <1>1, GenuineForward, PowerLossSteady DEF ReaderInv
<1>3. ReaderTypes(z)' /\ Course(z)' /\ Honest(z)' /\ Inventory(z)'
  BY <1>1 DEF ReaderInv, ReaderTypes, Course, Honest, Inventory
<1> QED BY <1>2, <1>3 DEF ReaderInv

-----------------------------------------------------------------------------
\* The readers' own steps.

\* A reader disturbs no other.
LEMMA ReaderAlone ==
  ASSUME ReaderFns, NEW r \in Reader, Read(r)
  PROVE  /\ \A z \in Reader \ {r} : ReaderSame(z)
         /\ rpc' = [z \in Reader |-> rpc'[z]]
         /\ DOMAIN req' = Reader /\ DOMAIN toRead' = Reader /\ DOMAIN rows' = Reader
         /\ DOMAIN chosen' = Reader /\ DOMAIN answer' = Reader /\ DOMAIN before' = Reader
BY DEF ReaderFns, ReaderSame, Read, Finish, Ask, Detect, CurrentUnreadable, ReadCurrent,
       DirUnreadable, ReadDir, ReadEntry, ListDone, NoLastOk, LastOk, OtherUnreadable, ReadOther

\* What can be read and decoded is a receipt of a deploy or was there before.
LEMMA LegibleAt ==
  ASSUME IInv, NEW n \in Path, Decodes(At(n))
  PROVE  Legible(At(n))
BY DEF IInv, Complete, At, Decodes, Legible

LEMMA SeenType ==
  ASSUME IInv, ReaderFns, NEW r \in Reader, ReaderInv(r), Read(r)
  PROVE  seen' \in [Reader -> [current : Stored \cup {Unset}, other : Stored \cup {Unset}]]
<1>1. CASE ReadCurrent(r)
  <2>1. rpc[r] = "current" /\ req[r] \in Requests
    BY <1>1 DEF ReadCurrent, ReaderInv, Course
  <2>2. req[r].current \in Path
    BY <2>1, StoreAssumption DEF ReaderInv, Course
  <2>3. At(req[r].current) \in Stored
    BY <1>1, <2>2, LegibleAt DEF ReadCurrent, Legible
  <2> QED BY <1>1, <2>3 DEF ReadCurrent, ReaderFns
<1>2. CASE ReadOther(r)
  <2>1. chosen[r] \in Path
    BY <1>2 DEF ReadOther, ReaderInv, Course
  <2>2. At(chosen[r]) \in Stored
    BY <1>2, <2>1, LegibleAt DEF ReadOther, Legible
  <2> QED BY <1>2, <2>2 DEF ReadOther, ReaderFns
<1>3. CASE ~ ReadCurrent(r) /\ ~ ReadOther(r)
  <2>1. seen' = seen
    BY <1>3 DEF Read, Ask, Detect, CurrentUnreadable, DirUnreadable, ReadDir, ReadEntry,
       ListDone, NoLastOk, LastOk, OtherUnreadable
  <2> QED BY <2>1 DEF ReaderFns
<1> QED BY <1>1, <1>2, <1>3

LEMMA AskReads ==
  ASSUME ReaderFns, NEW r \in Reader, ReaderInv(r), Ask(r) PROVE ReaderInv(r)'
<1> USE DEF ReaderInv, ReaderFns
<1>1. PICK q \in Requests :
        /\ req'[r] = q /\ rpc'[r] = FirstStage(q)
        /\ chosen'[r] = IF q.command \in {"diff", "pair"} THEN q.other ELSE Unset
  BY DEF Ask
<1>2. /\ UNCHANGED <<files, contents, wpc, out, toRead, rows, seen, answer, before>>
      /\ rpc[r] = "idle"
  BY DEF Ask, disk, writers
<1>3. /\ q.command \in {"list", "last-ok", "handoff", "read", "diff", "pair", "vs-last-ok"}
      /\ q.command \in {"diff", "pair"} => q.other \in Path
      /\ Unset # q /\ \A w \in Writer : OwnPath[w] # Unset
  BY StoreAssumption
<1>4. /\ q.command \in {"list", "last-ok", "vs-last-ok"} => rpc'[r] = "list"
      /\ q.command \in {"handoff", "read"} => rpc'[r] = "current"
      /\ q.command = "diff" => rpc'[r] = "detect"
      /\ q.command = "pair" => rpc'[r] = "other"
  BY <1>1, <1>3 DEF FirstStage
<1>5. ReaderTypes(r)'
  BY <1>2, <1>3, <1>4 DEF ReaderTypes
<1>6. Course(r)'
  BY <1>1, <1>2, <1>3, <1>4 DEF Course
<1>7. Inventory(r)'
  BY <1>3, <1>4 DEF Inventory
<1>8. Genuine(r)'
  BY <1>1, <1>2, <1>3 DEF Genuine
<1>9. Honest(r)'
  BY <1>2 DEF Honest
<1> QED BY <1>5, <1>6, <1>7, <1>8, <1>9

\* A command ends: what it has learned it keeps.
LEMMA FinishReads ==
  ASSUME ReaderFns, NEW r \in Reader, ReaderInv(r), NEW v, NEW p, NEW c, Finish(r, v, p, c),
         UNCHANGED <<files, contents, wpc, out, req, rows, chosen, seen, before>>,
         toRead'[r] = toRead[r], rpc[r] # "idle",
         v \in {"ok", "error", "contract", "no_last_ok"}
  PROVE  ReaderInv(r)'
<1> USE DEF ReaderInv, ReaderFns
<1>1. rpc'[r] = "done" /\ answer'[r].verdict = v
  BY DEF Finish
<1>2. ReaderTypes(r)' /\ Course(r)' /\ Inventory(r)' /\ Genuine(r)'
  BY <1>1 DEF ReaderTypes, Course, Inventory, Genuine
<1>3. Honest(r)'
  BY <1>1 DEF Honest
<1> QED BY <1>2, <1>3

LEMMA EndsReads ==
  ASSUME ReaderFns, NEW r \in Reader, ReaderInv(r),
         CurrentUnreadable(r) \/ DirUnreadable(r) \/ ListDone(r) \/ NoLastOk(r) \/ OtherUnreadable(r)
  PROVE  ReaderInv(r)'
<1>1. CASE CurrentUnreadable(r)
  BY <1>1, FinishReads DEF CurrentUnreadable, disk, writers
<1>2. CASE DirUnreadable(r)
  BY <1>2, FinishReads DEF DirUnreadable, disk, writers
<1>3. CASE ListDone(r)
  BY <1>3, FinishReads DEF ListDone, disk, writers
<1>4. CASE NoLastOk(r)
  BY <1>4, FinishReads DEF NoLastOk, disk, writers
<1>5. CASE OtherUnreadable(r)
  BY <1>5, FinishReads DEF OtherUnreadable, disk, writers
<1> QED BY <1>1, <1>2, <1>3, <1>4, <1>5

LEMMA DetectReads ==
  ASSUME ReaderFns, NEW r \in Reader, ReaderInv(r), Detect(r) PROVE ReaderInv(r)'
<1> USE DEF ReaderInv, ReaderFns
<1>1. /\ UNCHANGED <<files, contents, wpc, out, req, toRead, rows, chosen, seen, before>>
      /\ rpc[r] \in {"detect", "detect-second"}
  BY DEF Detect, disk, writers
<1>2. CASE Finish(r, "contract", Unset, {})
  BY <1>1, <1>2, FinishReads
<1>3. CASE rpc'[r] \in {"detect-second", "other"} /\ UNCHANGED answer
  <2>1. req[r] \in Requests /\ req[r].command = "diff" /\ chosen[r] = req[r].other
        /\ chosen[r] \in Path
    BY <1>1, StoreAssumption DEF Course
  <2>2. ReaderTypes(r)' /\ Inventory(r)' /\ Genuine(r)' /\ Honest(r)'
    BY <1>1, <1>3 DEF ReaderTypes, Inventory, Genuine, Honest
  <2>3. Course(r)'
    BY <1>1, <1>3, <2>1 DEF Course
  <2> QED BY <2>2, <2>3
<1> QED BY <1>2, <1>3 DEF Detect

LEMMA ReadDirReads ==
  ASSUME Steady, ReaderFns, NEW r \in Reader, ReaderInv(r), ReadDir(r) PROVE ReaderInv(r)'
<1> USE DEF ReaderInv, ReaderFns
<1>1. /\ UNCHANGED <<files, contents, wpc, out, req, rows, chosen, seen, answer>>
      /\ rpc[r] = "list" /\ rpc'[r] = "open" /\ before'[r] = files
      /\ toRead'[r] = {n \in Path : files[n] # NoFile}
  BY DEF ReadDir, disk, writers
<1>2. ReaderTypes(r)' /\ Course(r)' /\ Genuine(r)' /\ Honest(r)'
  BY <1>1 DEF ReaderTypes, Course, Genuine, Honest
<1>3. Inventory(r)'
  BY <1>1 DEF Inventory, Steady, OwnInPlace, At, Decodes
<1> QED BY <1>2, <1>3

\* Among finitely many numbers there is a least and a greatest one.
LEMMA Extremes ==
  ASSUME NEW S \in SUBSET Nat, IsFiniteSet(S), S # {}
  PROVE  /\ \E n \in S : \A m \in S : n <= m
         /\ \E n \in S : \A m \in S : m <= n
<1>1. IsWellFoundedOn(StrictSubsetOrdering(S), FiniteSubsetsOf(S))
  BY FS_StrictSubsetOrderingWellFounded
<1>2. ASSUME NEW T, T \subseteq SUBSET S, T # {}
      PROVE  \E A \in T : \A B \in T : ~ (<<B, A>> \in StrictSubsetOrdering(S))
  <2>1. T \subseteq FiniteSubsetsOf(S)
    BY <1>2, FS_Subset DEF FiniteSubsetsOf
  <2> QED BY <1>1, <1>2, <2>1, WFMin
<1>3. \E n \in S : \A m \in S : n <= m
  <2> DEFINE upto(n) == {m \in S : m <= n}
             all == {upto(n) : n \in S}
  <2>1. PICK A \in all : \A B \in all : ~ (<<B, A>> \in StrictSubsetOrdering(S))
    <3>1. all \subseteq SUBSET S /\ all # {}
      OBVIOUS
    <3> HIDE DEF all
    <3> QED BY <1>2, <3>1
  <2>2. PICK n \in S : A = upto(n)
    OBVIOUS
  <2>3. ASSUME NEW m \in S, ~ (n <= m) PROVE FALSE
    <3>1. \A k \in S : k \in Nat
      OBVIOUS
    <3>2. n \in Nat /\ m \in Nat
      BY <3>1
    <3>3. \A k \in S : k <= m => k <= n
      <4> SUFFICES ASSUME NEW k \in S PROVE k <= m => k <= n
        OBVIOUS
      <4>1. k \in Nat
        BY <3>1
      <4> QED BY <2>3, <3>2, <4>1
    <3>4. n <= n
      BY <3>2
    <3>5. upto(m) \subseteq A /\ n \in A /\ n \notin upto(m)
      BY <2>2, <2>3, <3>3, <3>4
    <3>6. upto(m) \in all
      OBVIOUS
    <3> QED BY <2>1, <2>2, <3>5, <3>6 DEF StrictSubsetOrdering
  <2> QED BY <2>3
<1>4. \E n \in S : \A m \in S : m <= n
  <2> DEFINE over(n) == {m \in S : n <= m}
             all == {over(n) : n \in S}
  <2>1. PICK A \in all : \A B \in all : ~ (<<B, A>> \in StrictSubsetOrdering(S))
    <3>1. all \subseteq SUBSET S /\ all # {}
      OBVIOUS
    <3> HIDE DEF all
    <3> QED BY <1>2, <3>1
  <2>2. PICK n \in S : A = over(n)
    OBVIOUS
  <2>3. ASSUME NEW m \in S, ~ (m <= n) PROVE FALSE
    <3>1. \A k \in S : k \in Nat
      OBVIOUS
    <3>2. n \in Nat /\ m \in Nat
      BY <3>1
    <3>3. \A k \in S : m <= k => n <= k
      <4> SUFFICES ASSUME NEW k \in S PROVE m <= k => n <= k
        OBVIOUS
      <4>1. k \in Nat
        BY <3>1
      <4> QED BY <2>3, <3>2, <4>1
    <3>4. n <= n
      BY <3>2
    <3>5. over(m) \subseteq A /\ n \in A /\ n \notin over(m)
      BY <2>2, <2>3, <3>3, <3>4
    <3>6. over(m) \in all
      OBVIOUS
    <3> QED BY <2>1, <2>2, <3>5, <3>6 DEF StrictSubsetOrdering
  <2> QED BY <2>3
<1> QED BY <1>3, <1>4

LEMMA ReadEntryReads ==
  ASSUME IInv, Steady, ReaderFns, NEW r \in Reader, ReaderInv(r), ReadEntry(r)
  PROVE  ReaderInv(r)'
<1> USE DEF ReaderInv, ReaderFns
<1> DEFINE n == First(toRead[r])
<1>1. /\ UNCHANGED <<files, contents, wpc, out, rpc, req, chosen, seen, answer, before>>
      /\ rpc[r] = "open" /\ toRead[r] # {} /\ toRead'[r] = toRead[r] \ {n}
      /\ \/ Decodes(At(n)) /\ rows'[r] = rows[r] \cup {<<n, At(n)>>}
         \/ ~ Decodes(At(n)) /\ rows'[r] = rows[r]
  BY DEF ReadEntry, disk, writers
<1>2. n \in Path
  <2>1. toRead[r] \in SUBSET Nat /\ IsFiniteSet(toRead[r]) /\ toRead[r] \subseteq Path
    BY StoreAssumption, FS_Subset DEF ReaderTypes
  <2>2. \E x \in toRead[r] : \A m \in toRead[r] : x <= m
    BY <1>1, <2>1, Extremes
  <2> QED BY <2>1, <2>2 DEF First
<1> HIDE DEF n
<1>3. Decodes(At(n)) => Legible(At(n))
  BY <1>2, LegibleAt
<1>4. ReaderTypes(r)'
  <2>1. IsFiniteSet(rows'[r])
    <3>1. IsFiniteSet(rows[r] \cup {<<n, At(n)>>})
      BY FS_AddElement DEF ReaderTypes
    <3> QED BY <1>1, <3>1 DEF ReaderTypes
  <2> QED BY <1>1, <1>2, <1>3, <2>1 DEF ReaderTypes, Legible
<1>5. Course(r)' /\ Honest(r)'
  BY <1>1 DEF Course, Honest, Legible
<1>6. Inventory(r)'
  BY <1>1, <1>2 DEF Inventory, At, Decodes
<1>7. Genuine(r)'
  <2>1. ASSUME NEW w \in Writer, Decodes(At(n)), n = OwnPath[w]
        PROVE  wpc[w] \in Placed /\ At(n) = out[w].receipt
    <3>1. files[n] = w
      BY <1>2, <2>1 DEF Steady, OwnInPlace, At, Decodes
    <3> QED BY <1>2, <3>1, NameFacts DEF Steady, OwnInPlace, At
  <2> QED BY <1>1, <2>1 DEF Genuine
<1> QED BY <1>4, <1>5, <1>6, <1>7

LEMMA ReceiptFacts ==
  ASSUME NEW x, Legible(x)
  PROVE  IsReceipt(x) /\ x.status \in {Unset, "ok", "failed"}
BY StoreAssumption
   DEF Legible, Decodes, Valid, Stored, AllReceipts, FoundContent

\* ListDir's order has a first row.
LEMMA NewestRow ==
  ASSUME NEW r \in Reader, ReaderTypes(r), NEW S \in SUBSET rows[r], S # {}
  PROVE  Newest(S) \in S /\ \A y \in S : Newer(Newest(S), y)
<1>1. \A x \in S : x[1] \in Nat /\ x[2].time \in Nat
  BY StoreAssumption, ReceiptFacts DEF ReaderTypes, IsReceipt
<1>2. IsFiniteSet(S)
  BY FS_Subset DEF ReaderTypes
<1>3. PICK t \in {x[2].time : x \in S} : \A u \in {x[2].time : x \in S} : u <= t
  <2>1. IsFiniteSet({x[2].time : x \in S})
    <3> DEFINE f == [x \in S |-> x[2].time]
    <3>1. f \in Surjection(S, {x[2].time : x \in S})
      BY DEF Surjection
    <3> QED BY <1>2, <3>1, FS_Surjection
  <2>2. {x[2].time : x \in S} \in SUBSET Nat /\ {x[2].time : x \in S} # {}
    BY <1>1
  <2> QED BY <2>1, <2>2, Extremes
<1> DEFINE latest == {x \in S : x[2].time = t}
<1>4. PICK p \in {x[1] : x \in latest} : \A u \in {x[1] : x \in latest} : u <= p
  <2>1. IsFiniteSet(latest) /\ latest # {} /\ latest \subseteq S
    BY <1>2, <1>3, FS_Subset
  <2> HIDE DEF latest
  <2>2. IsFiniteSet({x[1] : x \in latest})
    <3> DEFINE f == [x \in latest |-> x[1]]
    <3>1. f \in Surjection(latest, {x[1] : x \in latest})
      BY DEF Surjection
    <3> QED BY <2>1, <3>1, FS_Surjection
  <2>3. {x[1] : x \in latest} \in SUBSET Nat /\ {x[1] : x \in latest} # {}
    BY <1>1, <2>1
  <2> QED BY <2>2, <2>3, Extremes
<1>5. PICK x \in latest : x[1] = p
  OBVIOUS
<1>6. ASSUME NEW y \in S PROVE Newer(x, y)
  <2>1. y[2].time <= t /\ x[2].time = t /\ x[1] = p
    BY <1>3, <1>5
  <2>2. y[2].time = t => y[1] <= p
    BY <1>4
  <2>3. y[1] \in Nat /\ y[2].time \in Nat /\ t \in Nat /\ p \in Nat
    BY <1>1, <2>1, <1>5
  <2> QED BY <2>1, <2>2, <2>3 DEF Newer
<1> QED BY <1>5, <1>6 DEF Newest

LEMMA LastOkReads ==
  ASSUME ReaderFns, NEW r \in Reader, ReaderInv(r), LastOk(r)
  PROVE  /\ ReaderInv(r)'
         /\ \E x \in Filtered(r, "ok") :
              x[1] = chosen'[r] /\ \A y \in Filtered(r, "ok") : Newer(x, y)
<1> USE DEF ReaderInv, ReaderFns
<1> DEFINE x == Newest(Filtered(r, "ok"))
<1>1. /\ UNCHANGED <<files, contents, wpc, out, req, toRead, rows, seen, before>>
      /\ rpc[r] = "open" /\ req[r].command # "list" /\ chosen'[r] = x[1]
      /\ \/ req[r].command = "last-ok" /\ rpc'[r] = "done" /\ answer'[r].verdict = "ok"
         \/ req[r].command # "last-ok" /\ rpc'[r] = "other" /\ UNCHANGED answer
  BY DEF LastOk, Finish, disk, writers
<1>2. x \in Filtered(r, "ok") /\ \A y \in Filtered(r, "ok") : Newer(x, y)
  <2>1. Filtered(r, "ok") \subseteq rows[r] /\ Filtered(r, "ok") # {}
    BY DEF Filtered, LastOk
  <2> QED BY <2>1, NewestRow
<1> HIDE DEF x
<1>3. x \in rows[r] /\ x[2].status # "failed" /\ x[1] \in Path
  BY <1>2, StoreAssumption DEF Filtered, MatchStatus, ReaderTypes
<1>4. req[r] \in Requests /\ req[r].command \in {"last-ok", "handoff", "vs-last-ok"}
  BY <1>1 DEF Course
<1>5. ReaderTypes(r)' /\ Inventory(r)' /\ Honest(r)'
  BY <1>1 DEF ReaderTypes, Inventory, Honest
<1>6. Course(r)'
  BY <1>1, <1>3, <1>4 DEF Course
<1>7. Genuine(r)'
  BY <1>1, <1>3 DEF Genuine, Course
<1> QED BY <1>1, <1>2, <1>5, <1>6, <1>7

LEMMA ReadCurrentReads ==
  ASSUME IInv, ReaderFns, NEW r \in Reader, ReaderInv(r), ReadCurrent(r) PROVE ReaderInv(r)'
<1> USE DEF ReaderInv, ReaderFns
<1> DEFINE x == At(req[r].current)
           cmd == req[r].command
<1>1. /\ UNCHANGED <<files, contents, wpc, out, req, toRead, rows, chosen, before>>
      /\ rpc[r] = "current" /\ req[r] \in Requests /\ cmd \notin {"list", "last-ok"}
  BY DEF ReadCurrent, Course, disk, writers
<1>2. Legible(x)
  <2>1. req[r].current \in Path
    BY <1>1, StoreAssumption
  <2> QED BY <2>1, LegibleAt DEF ReadCurrent
<1>3. seen'[r].current = x /\ seen'[r].other = seen[r].other
  BY DEF ReadCurrent
<1>4. \/ cmd = "handoff" /\ rpc'[r] = "list" /\ UNCHANGED answer
      \/ /\ cmd \in {"diff", "pair", "vs-last-ok"} /\ rpc'[r] = "done"
         /\ answer'[r].verdict = IF Drift(seen[r].other, x) THEN "drift" ELSE "match"
         /\ answer'[r].codes = DiffCodes(seen[r].other, x)
      \/ rpc'[r] = "done" /\ answer'[r].verdict = "ok"
  BY DEF ReadCurrent, Finish
<1> HIDE DEF x
<1>5. ReaderTypes(r)'
  BY <1>1, <1>2, <1>3, <1>4 DEF ReaderTypes, Legible
<1>6. Course(r)'
  BY <1>1, <1>2, <1>3, <1>4 DEF Course, Legible
<1>7. Inventory(r)' /\ Genuine(r)'
  BY <1>1, <1>3, <1>4 DEF Inventory, Genuine
<1>8. Honest(r)'
  <2>1. CASE UNCHANGED answer \/ answer'[r].verdict = "ok"
    <3>1. answer'[r].verdict \notin {"match", "drift"}
      BY <1>1, <2>1, StoreAssumption DEF Course, NoAnswer
    <3> QED BY <3>1 DEF Honest
  <2>2. CASE cmd \in {"diff", "pair", "vs-last-ok"} /\ answer'[r].verdict # "ok"
    <3>1. Legible(seen[r].other)
      BY <1>1, <2>2 DEF Course
    <3>2. /\ answer'[r].verdict = "drift" <=> Drift(seen[r].other, x)
          /\ answer'[r].codes = DiffCodes(seen[r].other, x)
      BY <1>1, <1>4, <2>2
    <3> QED BY <1>2, <1>3, <3>1, <3>2 DEF Honest
  <2> QED BY <1>4, <2>1, <2>2
<1> QED BY <1>5, <1>6, <1>7, <1>8

LEMMA ReadOtherReads ==
  ASSUME IInv, Steady, ReaderFns, NEW r \in Reader, ReaderInv(r), ReadOther(r)
  PROVE  ReaderInv(r)'
<1> USE DEF ReaderInv, ReaderFns
<1> DEFINE x == At(chosen[r])
           cmd == req[r].command
<1>1. /\ UNCHANGED <<files, contents, wpc, out, req, toRead, rows, chosen, before>>
      /\ rpc[r] = "other" /\ req[r] \in Requests /\ chosen[r] \in Path
      /\ cmd \in {"handoff", "vs-last-ok", "diff", "pair"}
  BY DEF ReadOther, Course, disk, writers
<1>2. Legible(x)
  BY <1>1, LegibleAt DEF ReadOther
<1>3. seen'[r].other = x /\ seen'[r].current = seen[r].current
  BY DEF ReadOther
<1>4. \/ cmd # "handoff" /\ rpc'[r] = "current" /\ UNCHANGED answer
      \/ /\ cmd = "handoff" /\ rpc'[r] = "done"
         /\ answer'[r].verdict = IF Drift(x, seen[r].current) THEN "drift" ELSE "match"
         /\ answer'[r].codes = DiffCodes(x, seen[r].current)
  BY DEF ReadOther, Finish
<1>5. \A w \in Writer : chosen[r] = OwnPath[w] => x = out[w].receipt
  BY <1>1, NameFacts DEF Steady, OwnInPlace, ReadOther, At, Decodes
<1> HIDE DEF x
<1>6. ReaderTypes(r)'
  BY <1>1, <1>2, <1>3, <1>4 DEF ReaderTypes, Legible
<1>7. Course(r)'
  BY <1>1, <1>2, <1>3, <1>4 DEF Course, Legible
<1>8. Inventory(r)'
  BY <1>1, <1>4 DEF Inventory
<1>9. Genuine(r)'
  BY <1>1, <1>3, <1>5 DEF Genuine
<1>10. Honest(r)'
  <2>1. CASE UNCHANGED answer \/ answer'[r].verdict = "ok"
    <3>1. answer'[r].verdict \notin {"match", "drift"}
      BY <1>1, <2>1, StoreAssumption DEF Course, NoAnswer
    <3> QED BY <3>1 DEF Honest
  <2>2. CASE cmd = "handoff"
    <3>1. Legible(seen[r].current)
      BY <1>1, <2>2 DEF Course
    <3>2. /\ answer'[r].verdict = "drift" <=> Drift(x, seen[r].current)
          /\ answer'[r].codes = DiffCodes(x, seen[r].current)
      BY <1>1, <1>4, <2>2
    <3> QED BY <1>2, <1>3, <3>1, <3>2 DEF Honest
  <2> QED BY <1>4, <2>1, <2>2
<1> QED BY <1>6, <1>7, <1>8, <1>9, <1>10

LEMMA ReaderStep ==
  ASSUME Inv, NEW r \in Reader, Read(r) PROVE ReaderFns' /\ \A z \in Reader : ReaderInv(z)'
<1> USE DEF Inv
<1>1. ReaderFns'
  BY ReaderAlone, SeenType DEF ReaderFns
<1>2. ReaderInv(r)'
  BY AskReads, EndsReads, DetectReads, ReadDirReads, ReadEntryReads, LastOkReads,
     ReadCurrentReads, ReadOtherReads DEF Read
<1>3. Steady' /\ Forward
  BY ReadersOnlyRead, OthersSteady
<1>4. ASSUME NEW z \in Reader \ {r} PROVE ReaderInv(z)'
  BY <1>3, ReaderAlone, ReaderSteady
<1> QED BY <1>1, <1>2, <1>4

LEMMA InvAtFirst == StoreInit => Inv
<1> SUFFICES ASSUME StoreInit PROVE Inv
  OBVIOUS
<1>1. IInv /\ Steady
  BY Initially, SteadyAtFirst
<1>2. /\ rpc = [r \in Reader |-> "idle"] /\ req = [r \in Reader |-> Unset]
      /\ toRead = [r \in Reader |-> {}] /\ rows = [r \in Reader |-> {}]
      /\ chosen = [r \in Reader |-> Unset]
      /\ seen = [r \in Reader |-> [current |-> Unset, other |-> Unset]]
      /\ answer = [r \in Reader |-> NoAnswer] /\ before = [r \in Reader |-> files]
  BY DEF StoreInit
<1>3. ReaderFns
  BY <1>2 DEF ReaderFns
<1>4. ASSUME NEW r \in Reader PROVE ReaderInv(r)
  <2>1. ReaderTypes(r) /\ Course(r) /\ Inventory(r)
    BY <1>2, FS_EmptySet DEF ReaderTypes, Course, Inventory, NoAnswer
  <2>2. Genuine(r) /\ Honest(r)
    BY <1>2, StoreAssumption DEF Genuine, Honest, NoAnswer
  <2> QED BY <2>1, <2>2 DEF ReaderInv
<1> QED BY <1>1, <1>3, <1>4 DEF Inv

LEMMA InvStep == ASSUME Inv, [StoreNext]_vars PROVE Inv'
<1> USE DEF Inv
<1>1. IInv'
  BY Inductive
<1>2. ASSUME NEW w \in Writer, Write(w) \/ WriteFails(w) \/ KillWriter(w) PROVE Inv'
  <2>1. Steady' /\ Forward
    BY <1>2, WriterSteady
  <2>2. UNCHANGED readers
    BY <1>2 DEF Write, Refuse, CreateTemp, WriteBody, SyncBody, Rename, SyncDir, WriteFails,
       KillWriter
  <2> QED BY <1>1, <2>1, <2>2, ReaderSteady DEF readers, ReaderFns, ReaderSame
<1>3. ASSUME NEW r \in Reader, Read(r) PROVE Inv'
  <2>1. Steady'
    BY <1>3, ReadersOnlyRead, OthersSteady
  <2> QED BY <1>1, <1>3, <2>1, ReaderStep
<1>4. CASE (\E p \in Deleted : Delete(p)) \/ Writeback
  <2>1. UNCHANGED readers
    BY <1>4 DEF Delete, Writeback
  <2> QED BY <1>1, <1>4, <2>1, OthersSteady, ReaderSteady DEF readers, ReaderFns, ReaderSame
<1>5. CASE PowerLoss
  <2>1. ReaderFns'
    BY <1>5 DEF PowerLoss, ReaderFns
  <2> QED BY <1>1, <1>5, <2>1, PowerLossSteady, ReaderPowerLoss
<1>6. CASE UNCHANGED vars
  <2>1. Quiet /\ UNCHANGED readers
    BY <1>6 DEF vars, disk, writers, Quiet
  <2> QED BY <1>1, <2>1, OthersSteady, ReaderSteady DEF readers, ReaderFns, ReaderSame
<1> QED BY <1>2, <1>3, <1>4, <1>5, <1>6 DEF StoreNext, Fault

\* The invariant of the store and its readers: what a reader has listed and chosen stays
\* true of the directory while deploys, deletions and power losses go on (ListDir,
\* readReceipts).
THEOREM ReadersInvariance == StoreSpec => []Inv
BY InvAtFirst, InvStep, PTL DEF StoreSpec

\* The store keeps its types: whatever is read, listed or written is a whole receipt
\* that a deploy built or that was there before (WriteAtomic, Decode).
THEOREM StoreTypeCorrect == StoreSpec => []StoreTypeOK
<1>1. StoreInit => power \in BOOLEAN
  BY DEF StoreInit
<1>2. power \in BOOLEAN /\ [StoreNext]_vars => (power \in BOOLEAN)'
  BY ReadersOnlyRead
     DEF StoreNext, Fault, Write, Refuse, CreateTemp, WriteBody, SyncBody, Rename, SyncDir,
         WriteFails, KillWriter, Delete, Writeback, PowerLoss, vars
<1>3. ASSUME Inv, power \in BOOLEAN PROVE StoreTypeOK
  <2>1. /\ files \in [FileName -> File \cup {NoFile}] /\ onDisk \in [FileName -> File \cup {NoFile}]
        /\ contents \in [File -> Content] /\ synced \subseteq File
        /\ wpc \in [Writer -> Stage]
        /\ out \in [Writer -> [receipt : AllReceipts \cup {Unset}, path : Path \cup {Unset}]]
        /\ flushed \subseteq {w \in Writer : wpc[w] = "done"}
    BY <1>3 DEF Inv, IInv, Types, Acked, Content, Stored
  <2>2. rpc = [r \in Reader |-> rpc[r]]
    BY <1>3 DEF Inv, ReaderFns
  <2>3. ASSUME NEW r \in Reader
        PROVE  /\ rpc[r] \in {"idle", "detect", "detect-second", "current", "list", "open", "other",
                              "done", "killed"}
               /\ req[r] \in Requests \cup {Unset} /\ toRead[r] \subseteq Path
               /\ \A x \in rows[r] : x[1] \in Path /\ x[2] \in Content
               /\ \A role \in {"current", "other"} : seen[r][role] \in Content \cup {Unset}
               /\ answer[r].verdict \in {Unset, "ok", "error", "contract", "no_last_ok", "match", "drift"}
    BY <1>3 DEF Inv, ReaderInv, ReaderTypes, Course, Legible, Content, Stored
  <2> QED BY <1>3, <2>1, <2>2, <2>3 DEF StoreTypeOK, Stage
<1>4. Inv /\ power \in BOOLEAN => StoreTypeOK
  BY <1>3
<1> QED BY <1>1, <1>2, <1>4, ReadersInvariance, PTL DEF StoreSpec

-----------------------------------------------------------------------------
\* A receipt that was there all through the listing is in the list.
LEMMA LastingListed ==
  ASSUME Inv, NEW r \in Reader, rpc[r] = "open", toRead[r] = {}, NEW filter,
         NEW p \in Lasting(r, filter)
  PROVE  <<p, At(p)>> \in Filtered(r, filter)
BY DEF Inv, ReaderInv, Inventory, Lasting, Filtered

\* list misses no receipt that was there all the time; last-ok, the handoffs and
\* the diffs that start with it take one at least as new as each of those, never a
\* failed one, and give up only if there is none (ListDir, LastOK), whatever deploys
\* write and replace meanwhile.
THEOREM HonestInventory == StoreSpec => InventoryIsHonest
<1>1. ASSUME Inv, [StoreNext]_vars, NEW r \in Reader, rpc[r] = "open", rpc'[r] \in {"other", "done"}
      PROVE  IF req[r].command = "list"
             THEN Lasting(r, req[r].status) \subseteq answer'[r].path
             ELSE IF answer'[r].verdict = "no_last_ok" THEN Lasting(r, "ok") = {}
             ELSE \E x \in rows[r] :
                    /\ x[1] = chosen'[r] /\ x[2].status # "failed"
                    /\ \A p \in Lasting(r, "ok") : At(p).time <= x[2].time
  <2> USE <1>1
  <2>1. ReaderFns /\ ReaderInv(r)
    BY DEF Inv
  <2>2. ListDone(r) \/ NoLastOk(r) \/ LastOk(r)
    <3>1. ASSUME NEW z \in Reader, Read(z) PROVE z = r
      BY <2>1, <3>1, ReaderAlone DEF ReaderSame
    <3>2. ~ UNCHANGED rpc /\ ~ PowerLoss
      BY DEF PowerLoss
    <3>3. Read(r)
      BY <3>1, <3>2 DEF StoreNext, Fault, Write, Refuse, CreateTemp, WriteBody, SyncBody, Rename,
         SyncDir, WriteFails, KillWriter, Delete, Writeback, vars, readers
    <3> QED BY <3>3 DEF Read, Ask, Detect, CurrentUnreadable, ReadCurrent, DirUnreadable, ReadDir,
         ReadEntry, OtherUnreadable, ReadOther
  <2>3. CASE ListDone(r)
    <3>1. answer'[r].path = {x[1] : x \in Filtered(r, req[r].status)}
      BY <2>1, <2>3 DEF ListDone, Finish, ReaderFns
    <3>2. ASSUME NEW p \in Lasting(r, req[r].status) PROVE p \in answer'[r].path
      <4>1. <<p, At(p)>> \in Filtered(r, req[r].status)
        BY <2>3, LastingListed DEF ListDone
      <4>2. <<p, At(p)>>[1] \in {x[1] : x \in Filtered(r, req[r].status)}
        BY <4>1
      <4> QED BY <3>1, <4>2
    <3> QED BY <2>3, <3>2 DEF ListDone
  <2>4. CASE NoLastOk(r)
    <3>1. answer'[r].verdict = "no_last_ok"
      BY <2>1, <2>4 DEF NoLastOk, Finish, ReaderFns
    <3> QED BY <2>4, <3>1, LastingListed DEF NoLastOk
  <2>5. CASE LastOk(r)
    <3>1. answer'[r].verdict # "no_last_ok" /\ req[r].command # "list"
      BY <2>1, <2>5, StoreAssumption DEF LastOk, Finish, ReaderFns, ReaderInv, Course, NoAnswer
    <3>2. PICK x \in Filtered(r, "ok") :
            x[1] = chosen'[r] /\ \A y \in Filtered(r, "ok") : Newer(x, y)
      BY <2>1, <2>5, LastOkReads
    <3>3. x \in rows[r] /\ x[2].status # "failed"
      BY <3>2, StoreAssumption DEF Filtered, MatchStatus
    <3>4. ASSUME NEW p \in Lasting(r, "ok") PROVE At(p).time <= x[2].time
      <4>1. <<p, At(p)>> \in Filtered(r, "ok")
        BY <2>5, LastingListed DEF LastOk
      <4>2. Newer(x, <<p, At(p)>>)
        BY <3>2, <4>1
      <4>3. At(p).time \in Nat /\ x[2].time \in Nat
        BY <2>1, <3>3, <4>1, ReceiptFacts DEF ReaderInv, ReaderTypes, IsReceipt, Filtered
      <4> QED BY <4>2, <4>3 DEF Newer
    <3> QED BY <3>1, <3>2, <3>3, <3>4
  <2> QED BY <2>2, <2>3, <2>4, <2>5
<1>2. Inv /\ [StoreNext]_vars =>
        [\A r \in Reader : rpc[r] = "open" /\ rpc'[r] \in {"other", "done"} =>
           IF req[r].command = "list"
           THEN Lasting(r, req[r].status) \subseteq answer'[r].path
           ELSE IF answer'[r].verdict = "no_last_ok" THEN Lasting(r, "ok") = {}
           ELSE \E x \in rows[r] :
                  /\ x[1] = chosen'[r] /\ x[2].status # "failed"
                  /\ \A p \in Lasting(r, "ok") : At(p).time <= x[2].time]_vars
  BY <1>1
<1> QED BY <1>2, ReadersInvariance, PTL DEF StoreSpec, InventoryIsHonest

-----------------------------------------------------------------------------
\* Two receipts side by side.

\* Codes that count.
Grave(codes) == codes \ WarnOnly

LEMMA CodeCounts ==
  ASSUME NEW c, NEW code, code \notin WarnOnly
  PROVE  Grave(Code(c, code)) = {} <=> ~ c
BY DEF Grave, Code

LEMMA ListsAgree ==
  ASSUME NEW x, NEW y, NEW rare \in WarnOnly, NEW code, code \notin WarnOnly
  PROVE  Grave(ListCodes(x, y, rare, code)) = {} <=> Filled(x, y) = Filled(y, x)
<1>1. CASE x = Unset \/ y = Unset
  BY <1>1 DEF ListCodes, Filled, Or, Grave, Code
<1>2. CASE x # Unset /\ y # Unset
  BY <1>2 DEF ListCodes, Filled, Or, Grave, Code, SameItems
<1> QED BY <1>1, <1>2

ToldBy(x, y) == [x EXCEPT !.env = Filled(x.env, y.env), !.mounts = Filled(x.mounts, y.mounts)]

LEMMA RecordsAgree ==
  ASSUME NEW x, NEW y, IsRecord(x), IsRecord(y), x.service = y.service
  PROVE  Grave(RecordCodes(x, y)) = {} <=> ToldBy(x, y) = ToldBy(y, x)
<1>1. ASSUME NEW u, NEW v, IsRecord(u)
      PROVE  ToldBy(u, v) =
               [service |-> u.service, name |-> u.name, image |-> u.image, container |-> u.container,
                env |-> Filled(u.env, v.env), mounts |-> Filled(u.mounts, v.mounts)]
  <2>1. ASSUME NEW w, NEW s, NEW n, NEW i, NEW c, NEW e, NEW m, NEW ee, NEW mm,
               w = [service |-> s, name |-> n, image |-> i, container |-> c, env |-> e, mounts |-> m]
        PROVE  /\ [w EXCEPT !.env = ee] =
                    [service |-> w.service, name |-> w.name, image |-> w.image,
                     container |-> w.container, env |-> ee, mounts |-> w.mounts]
               /\ [w EXCEPT !.mounts = mm] =
                    [service |-> w.service, name |-> w.name, image |-> w.image,
                     container |-> w.container, env |-> w.env, mounts |-> mm]
    BY <2>1
  <2> DEFINE half == [u EXCEPT !.env = Filled(u.env, v.env)]
  <2>2. half = [service |-> u.service, name |-> u.name, image |-> u.image,
                container |-> u.container, env |-> Filled(u.env, v.env), mounts |-> u.mounts]
    BY <1>1, <2>1 DEF IsRecord
  <2>3. ToldBy(u, v) = [half EXCEPT !.mounts = Filled(u.mounts, v.mounts)]
    BY DEF ToldBy
  <2> HIDE DEF half
  <2> QED BY <2>1, <2>2, <2>3
<1>2. ToldBy(x, y) = ToldBy(y, x) <=>
        /\ x.name = y.name /\ x.image = y.image /\ x.container = y.container
        /\ Filled(x.env, y.env) = Filled(y.env, x.env)
        /\ Filled(x.mounts, y.mounts) = Filled(y.mounts, x.mounts)
  BY <1>1
<1>3. /\ Grave(ListCodes(x.env, y.env, "env_incomparable", "env_changed")) = {}
           <=> Filled(x.env, y.env) = Filled(y.env, x.env)
      /\ Grave(ListCodes(x.mounts, y.mounts, "mounts_incomparable", "mounts_changed")) = {}
           <=> Filled(x.mounts, y.mounts) = Filled(y.mounts, x.mounts)
  BY ListsAgree DEF WarnOnly
<1>4. /\ Grave(Code(x.image # y.image, "image_changed")) = {} <=> x.image = y.image
      /\ Grave(Code(x.name # y.name, "container_name_changed")) = {} <=> x.name = y.name
      /\ Grave(Code(x.container # y.container, "container_id_changed")) = {}
           <=> x.container = y.container
  BY CodeCounts DEF WarnOnly
<1>5. Grave(RecordCodes(x, y)) = {} <=>
        /\ Grave(Code(x.image # y.image, "image_changed")) = {}
        /\ Grave(Code(x.name # y.name, "container_name_changed")) = {}
        /\ Grave(Code(x.container # y.container, "container_id_changed")) = {}
        /\ Grave(ListCodes(x.env, y.env, "env_incomparable", "env_changed")) = {}
        /\ Grave(ListCodes(x.mounts, y.mounts, "mounts_incomparable", "mounts_changed")) = {}
  BY DEF RecordCodes, Grave
<1> QED BY <1>2, <1>3, <1>4, <1>5

LEMMA LastRecordIs ==
  ASSUME NEW r, IsReceipt(r), NEW s \in Names(r)
  PROVE  IsRecord(LastRecord(r, s)) /\ LastRecord(r, s).service = s
<1> DEFINE at == {i \in DOMAIN r.services : r.services[i].service = s}
<1>1. r.services \in Seq(Range(r.services))
  BY DEF IsReceipt
<1>2. DOMAIN r.services = 1 .. Len(r.services) /\ Len(r.services) \in Nat
  BY <1>1
<1>3. at \in SUBSET Nat /\ at # {} /\ IsFiniteSet(at)
  <2>1. IsFiniteSet(1 .. Len(r.services)) /\ at \subseteq 1 .. Len(r.services)
    BY <1>2, FS_Interval
  <2>2. IsFiniteSet(at)
    BY <2>1, FS_Subset
  <2>3. at # {}
    BY DEF Names
  <2> QED BY <1>2, <2>1, <2>2, <2>3
<1>4. \E i \in at : \A j \in at : j <= i
  <2> HIDE DEF at
  <2> QED BY <1>3, Extremes
<1>5. PICK i \in at : LastRecord(r, s) = r.services[i]
  BY <1>4 DEF LastRecord
<1> QED BY <1>5 DEF IsReceipt, Range

LEMMA ServicesAgree ==
  ASSUME NEW a, NEW b, IsReceipt(a), IsReceipt(b)
  PROVE  (\A s \in Names(a) \cup Names(b) : Grave(ServiceCodes(a, b, s)) = {}) <=>
         Story(a, b).services = Story(b, a).services
<1>1. ASSUME NEW s \in Names(a) \cap Names(b)
      PROVE  Grave(ServiceCodes(a, b, s)) = {} <=> Told(a, s, b) = Told(b, s, a)
  <2>1. /\ IsRecord(LastRecord(a, s)) /\ IsRecord(LastRecord(b, s))
        /\ LastRecord(a, s).service = LastRecord(b, s).service
    BY LastRecordIs
  <2>2. /\ ServiceCodes(a, b, s) = RecordCodes(LastRecord(a, s), LastRecord(b, s))
        /\ Told(a, s, b) = ToldBy(LastRecord(a, s), LastRecord(b, s))
        /\ Told(b, s, a) = ToldBy(LastRecord(b, s), LastRecord(a, s))
    BY DEF ServiceCodes, Told, ToldBy
  <2> QED BY <2>1, <2>2, RecordsAgree
<1>2. ASSUME NEW s \in (Names(a) \cup Names(b)) \ (Names(a) \cap Names(b))
      PROVE  Grave(ServiceCodes(a, b, s)) # {}
  BY DEF ServiceCodes, Grave, WarnOnly
<1>3. /\ Story(a, b).services = [s \in Names(a) |-> Told(a, s, b)]
      /\ Story(b, a).services = [s \in Names(b) |-> Told(b, s, a)]
  BY DEF Story
<1>4. Story(a, b).services = Story(b, a).services <=>
        Names(a) = Names(b) /\ \A s \in Names(a) : Told(a, s, b) = Told(b, s, a)
  <2>1. DOMAIN Story(a, b).services = Names(a) /\ DOMAIN Story(b, a).services = Names(b)
    BY <1>3
  <2>2. ASSUME Names(a) = Names(b)
        PROVE  Story(a, b).services = Story(b, a).services <=>
                 \A s \in Names(a) : Told(a, s, b) = Told(b, s, a)
    BY <1>3, <2>2
  <2> QED BY <2>1, <2>2
<1> QED BY <1>1, <1>2, <1>4

\* CompareReceipts finds drift exactly if the receipts cannot tell of the same
\* deployment.
LEMMA Comparison ==
  ASSUME NEW a, NEW b, IsReceipt(a), IsReceipt(b)
  PROVE  Drift(a, b) <=> Story(a, b) # Story(b, a)
<1> DEFINE services == UNION {ServiceCodes(a, b, s) : s \in Names(a) \cup Names(b)}
<1>1. /\ Grave(Code(a.project # b.project, "project_mismatch")) = {} <=> a.project = b.project
      /\ Grave(Code(a.path # b.path, "contract_path_mismatch")) = {} <=> a.path = b.path
      /\ Grave(Code(~ SameItems(a.profiles, b.profiles), "profiles_mismatch")) = {}
           <=> ToBag(a.profiles) = ToBag(b.profiles)
  <2>1. \A c : /\ Grave(Code(c, "project_mismatch")) = {} <=> ~ c
               /\ Grave(Code(c, "contract_path_mismatch")) = {} <=> ~ c
               /\ Grave(Code(c, "profiles_mismatch")) = {} <=> ~ c
    BY DEF Grave, Code, WarnOnly
  <2>2. Grave(Code(a.project # b.project, "project_mismatch")) = {} <=> a.project = b.project
    BY <2>1, Zenon
  <2>3. Grave(Code(a.path # b.path, "contract_path_mismatch")) = {} <=> a.path = b.path
    BY <2>1, Zenon
  <2>4. Grave(Code(~ SameItems(a.profiles, b.profiles), "profiles_mismatch")) = {}
           <=> ToBag(a.profiles) = ToBag(b.profiles)
    BY <2>1, Zenon DEF SameItems
  <2> QED BY <2>2, <2>3, <2>4
<1>2. Grave(DigestCodes(a, b)) = {} <=> Or(a.digest, b.digest) = Or(b.digest, a.digest)
  BY DEF Grave, DigestCodes, Or, WarnOnly, Code
<1>3. Grave(services) = {} <=> Story(a, b).services = Story(b, a).services
  <2>1. Grave(services) = {} <=> \A s \in Names(a) \cup Names(b) : Grave(ServiceCodes(a, b, s)) = {}
    BY DEF Grave
  <2> QED BY <2>1, ServicesAgree
<1>4. ~ Drift(a, b) <=>
        /\ Grave(Code(a.project # b.project, "project_mismatch")) = {}
        /\ Grave(Code(a.path # b.path, "contract_path_mismatch")) = {}
        /\ Grave(DigestCodes(a, b)) = {}
        /\ Grave(Code(~ SameItems(a.profiles, b.profiles), "profiles_mismatch")) = {}
        /\ Grave(services) = {}
  BY DEF Drift, DiffCodes, Grave
<1>5. Story(a, b) = Story(b, a) <=>
        /\ a.project = b.project /\ a.path = b.path
        /\ ToBag(a.profiles) = ToBag(b.profiles)
        /\ Or(a.digest, b.digest) = Or(b.digest, a.digest)
        /\ Story(a, b).services = Story(b, a).services
  BY DEF Story
<1> QED BY <1>1, <1>2, <1>3, <1>4, <1>5

\* A comparison (CompareReceipts, handoff, diff --vs-last-ok) says drift exactly when the
\* two receipts it read cannot tell of the same deployment, and what the last ok
\* comparison read under a deploy's own name is never a failed receipt, whatever was
\* written between its listing and its reading.
THEOREM HonestComparison == StoreSpec => []ComparisonIsHonest
<1>1. ASSUME Inv, NEW r \in Reader, answer[r].verdict \in {"match", "drift"}
      PROVE  LET a == seen[r].other
                 b == seen[r].current
             IN  /\ (answer[r].verdict = "match") = (Story(a, b) = Story(b, a))
                 /\ answer[r].codes = {} => answer[r].verdict = "match"
                 /\ req[r].command \in {"handoff", "vs-last-ok"} /\ chosen[r] \in {OwnPath[w] : w \in Writer} =>
                      a.status # "failed"
  <2> DEFINE a == seen[r].other
             b == seen[r].current
  <2>1. /\ Legible(a) /\ Legible(b)
        /\ answer[r].verdict = "drift" <=> Drift(a, b)
        /\ answer[r].codes = DiffCodes(a, b)
    BY <1>1 DEF Inv, ReaderInv, Honest
  <2>2. Drift(a, b) <=> Story(a, b) # Story(b, a)
    BY <2>1, ReceiptFacts, Comparison
  <2>3. (answer[r].verdict = "match") = (Story(a, b) = Story(b, a))
    BY <1>1, <2>1, <2>2
  <2>4. answer[r].codes = {} => answer[r].verdict = "match"
    BY <1>1, <2>1 DEF Drift
  <2>5. ASSUME req[r].command \in {"handoff", "vs-last-ok"}, NEW w \in Writer, chosen[r] = OwnPath[w]
        PROVE  a.status # "failed"
    <3>1. a # Unset
      BY <2>1, ReceiptFacts DEF IsReceipt
    <3>2. req[r] # Unset
      BY <1>1, StoreAssumption DEF Inv, ReaderInv, Course, NoAnswer
    <3> QED BY <1>1, <2>5, <3>1, <3>2 DEF Inv, ReaderInv, Genuine
  <2> QED BY <2>3, <2>4, <2>5
<1>2. Inv => ComparisonIsHonest
  BY <1>1 DEF ComparisonIsHonest
<1> QED BY <1>2, ReadersInvariance, PTL DEF StoreSpec
=============================================================================

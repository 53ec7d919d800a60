------------------------------ MODULE Inputs --------------------------------
(***************************************************************************)
(* What one deploy reads before and while it works: the contract, through  *)
(* the load memo (spec/load_cache.go), and the env files for substitution, *)
(* through a memo of their own (expand/env_file_cache.go); and what it     *)
(* makes of them, phase by phase (expand.ExpandService), for one service   *)
(* with an environment value and a health URL.  Somebody may edit the      *)
(* files between any two steps.                                            *)
(*                                                                         *)
(* A contract file has services, the names in it; envFiles, Nothing or the *)
(* paths of host_env_files; env and url, the texts of the service.  An env *)
(* file has vars, what it sets, and stamp, its size and modification time. *)
(* A memoised contract is an object: loaded is what it was parsed from,    *)
(* url what its health URL points to now, because ExpandService writes     *)
(* through the pointer.                                                    *)
(***************************************************************************)
EXTENDS Expansion, FiniteSetsExt, Maps

CONSTANTS
  EnvPath,      \* env files
  DefaultFiles, \* .env.example and .env, in this order
  OSEnv,        \* the environment of the process
  ContractTexts,\* what the contract file may hold
  EnvTexts,     \* what an env file may hold
  Named,        \* positional arguments that are not paths: Nothing or a service
  MaxEdits,     \* how often somebody edits a file (bound)
  Nothing,      \* no such file, no such entry, not given
  Garbled       \* bytes that do not parse, or cannot be read

\* A map from variables to texts.
IsMap(m) == m \in [DOMAIN m -> Texts]

ASSUME InputsAssumption ==
  /\ Garbled # Nothing /\ Nothing \notin Texts \cup [loaded : ContractTexts, url : Texts]
  /\ DefaultFiles \in Seq(EnvPath)
  /\ \A c \in ContractTexts \ {Garbled, Nothing} :
       c.env \in Texts /\ c.url \in Texts /\ c.envFiles \in Seq(EnvPath) \cup {Nothing}
  /\ IsMap(OSEnv)
  /\ \A text \in EnvTexts \ {Garbled, Nothing} : IsMap(text.vars)
  /\ MaxEdits \in Nat

VARIABLES
  contractFile, \* the contract on disk
  envDisk,      \* the env files on disk
  contractMemo, \* Nothing, or the object of the last load
  envMemo,      \* path -> Nothing or the text last parsed
  phase,        \* what the command does next
  arg,          \* its positional argument
  subst,        \* the map LoadHostSubst is putting together, then its result
  looked,       \* how many of the env files it has looked for
  present,      \* which of them (their places in the list) it is going to read
  read,         \* how many it is through with
  held,         \* history: path -> the texts it has had since the first look
  given,        \* the environment value podman run was given
  probed,       \* the URL its gate asks
  edits

loading == <<subst, looked, present, read, held>>
inputVars == <<contractFile, envDisk, contractMemo, envMemo, phase, arg, loading,
               given, probed, edits>>

InputsInit ==
  /\ contractFile \in ContractTexts
  /\ envDisk \in [EnvPath -> EnvTexts \cup {Nothing}]
  /\ contractMemo = Nothing
  /\ envMemo = [p \in EnvPath |-> Nothing]
  /\ phase = "resolve"
  /\ arg \in Named
  /\ subst = <<>> /\ looked = 0 /\ present = {} /\ read = 0
  /\ held = [p \in EnvPath |-> {}]
  /\ given = Nothing /\ probed = Nothing
  /\ edits = 0

-----------------------------------------------------------------------------
Parsed(text) == [loaded |-> text, url |-> text.url]

\* The file is read whatever the memo says; bytes that were parsed before
\* lead to the same object.
LoadMemoized(now) ==
  IF contractMemo # Nothing /\ contractMemo.loaded = now THEN contractMemo ELSE Parsed(now)

Gone == phase' = "refused" /\ UNCHANGED <<contractMemo, envMemo, loading, given, probed>>

\* LoadHostSubst begins, for the contract of object.  Files the contract lists
\* are read without looking for them first.
BeginLoad(object) ==
  LET listed == object.loaded.envFiles
  IN  /\ subst' = OSEnv
      /\ looked' = IF listed = Nothing THEN 0 ELSE Len(listed)
      /\ present' = IF listed = Nothing THEN {} ELSE DOMAIN listed
      /\ read' = 0
      /\ held' = [p \in EnvPath |-> {envDisk[p]}]

\* One argument that is no path may be a service of the default contract: that
\* is looked up first, and a contract that does not parse is an error.
ResolveArgs ==
  /\ phase = "resolve"
  /\ \/ arg = Nothing /\ phase' = "load" /\ UNCHANGED <<contractMemo, envMemo, loading, given, probed>>
     \/ /\ arg # Nothing /\ contractFile \notin {Garbled, Nothing}
        /\ contractMemo' = LoadMemoized(contractFile)
        /\ phase' = IF arg \in contractFile.services THEN "load" ELSE "refused"
        /\ UNCHANGED <<envMemo, loading, given, probed>>
     \/ arg # Nothing /\ contractFile \in {Garbled, Nothing} /\ Gone
  /\ UNCHANGED <<contractFile, envDisk, arg, edits>>

LoadContract ==
  /\ phase = "load"
  /\ \/ /\ contractFile \notin {Garbled, Nothing}
        /\ contractMemo' = LoadMemoized(contractFile)
        /\ phase' = "preflight"
        /\ BeginLoad(contractMemo')
        /\ UNCHANGED <<envMemo, given, probed>>
     \/ contractFile \in {Garbled, Nothing} /\ Gone
  /\ UNCHANGED <<contractFile, envDisk, arg, edits>>

-----------------------------------------------------------------------------
\* LoadHostSubst, once in validate.Run ("preflight") and once more in the deploy
\* itself ("prepare"): one file after another, and somebody may save one of them
\* in between.

Loading == phase \in {"preflight", "prepare"}

\* The env files in the order they are read: those the contract lists, or both
\* well-known ones.
EnvFilesRead ==
  LET listed == contractMemo.loaded.envFiles
  IN  IF listed # Nothing THEN listed ELSE DefaultFiles

\* Which well-known files exist is clear before the first one is read.
LookForEnvFile ==
  /\ Loading /\ looked < Len(EnvFilesRead)
  /\ looked' = looked + 1
  /\ present' = IF envDisk[EnvFilesRead[looked']] = Nothing THEN present ELSE present \cup {looked'}
  /\ UNCHANGED <<contractFile, envDisk, contractMemo, envMemo, phase, arg, subst, read, held,
                 given, probed, edits>>

\* Mutant: a file of the size and time it had when it was parsed is not read again.
EnvTextByStamp(p) ==
  IF envMemo[p] # Nothing /\ envMemo[p] # Garbled /\ envDisk[p] \notin {Nothing, Garbled}
     /\ envMemo[p].stamp = envDisk[p].stamp
  THEN envMemo[p] ELSE envDisk[p]

\* The text one env file contributes: read every time, parsed only when its
\* digest is new.
EnvText(p) == IF envMemo[p] = envDisk[p] THEN envMemo[p] ELSE envDisk[p]

VarsOf(text) == IF text = Nothing THEN <<>> ELSE text.vars

\* loadHostEnvFile: its Stat and its ReadFile see what one ReadFile sees, since a
\* file that is missing for either sets nothing.  Later files override earlier
\* ones, and all of them the process's own environment.
ReadEnvFile ==
  /\ Loading /\ looked = Len(EnvFilesRead) /\ read < Len(EnvFilesRead)
  /\ LET p == EnvFilesRead[read + 1]
     IN  IF read + 1 \notin present THEN UNCHANGED <<subst, envMemo>>
         ELSE /\ envDisk[p] # Garbled
              /\ subst' = Override(subst, VarsOf(EnvText(p)))
              /\ envMemo' = IF envDisk[p] = Nothing THEN envMemo
                            ELSE [envMemo EXCEPT ![p] = EnvText(p)]
  /\ read' = read + 1
  /\ UNCHANGED <<contractFile, envDisk, contractMemo, phase, arg, looked, present, held,
                 given, probed, edits>>

HostUnreadable ==
  /\ Loading /\ looked = Len(EnvFilesRead) /\ read < Len(EnvFilesRead)
  /\ read + 1 \in present /\ envDisk[EnvFilesRead[read + 1]] = Garbled
  /\ Gone
  /\ UNCHANGED <<contractFile, envDisk, arg, edits>>

\* The map is complete.
Loaded == Loading /\ looked = Len(EnvFilesRead) /\ read = Len(EnvFilesRead)

\* What n calls of ExpandService do to the health URL: each expands what the
\* one before left.
InPlace(object, m, n) ==
  LET url[i \in 0 .. n] == IF i = 0 THEN object.url ELSE Substitute(url[i - 1], m)
  IN  [object EXCEPT !.url = url[n]]

\* Preflight expands every service twice, and refuses an empty health URL
\* after the first time.
Preflight ==
  /\ phase = "preflight" /\ Loaded
  /\ contractMemo' = InPlace(contractMemo, subst, 2)
  /\ \/ InPlace(contractMemo, subst, 1).url # <<>> /\ phase' = "prepare" /\ BeginLoad(contractMemo)
     \/ InPlace(contractMemo, subst, 1).url = <<>> /\ phase' = "refused" /\ UNCHANGED loading
  /\ UNCHANGED <<contractFile, envDisk, envMemo, arg, given, probed, edits>>

\* The deploy expands every service to see which volumes it mounts.
Prepare ==
  /\ phase = "prepare" /\ Loaded
  /\ contractMemo' = InPlace(contractMemo, subst, 1)
  /\ phase' = "start"
  /\ UNCHANGED <<contractFile, envDisk, envMemo, arg, loading, given, probed, edits>>

\* containerEnv expands values that ExpandService has expanded.
ContainerEnv(text, m) == Substitute(Substitute(text, m), m)

StartContainer ==
  /\ phase = "start"
  /\ contractMemo' = InPlace(contractMemo, subst, 1)
  /\ given' = ContainerEnv(contractMemo.loaded.env, subst)
  /\ probed' = contractMemo'.url
  /\ phase' = "record"
  /\ UNCHANGED <<contractFile, envDisk, envMemo, arg, loading, edits>>

\* The receipt expands every service once more.
RecordServices ==
  /\ phase = "record"
  /\ contractMemo' = InPlace(contractMemo, subst, 1)
  /\ phase' = "done"
  /\ UNCHANGED <<contractFile, envDisk, envMemo, arg, loading, given, probed, edits>>

\* Nothing of this load has been looked at.
NotBegun == read = 0 /\ (looked = 0 \/ contractMemo.loaded.envFiles # Nothing)

\* Somebody saves another text, or removes an env file.
Edit ==
  /\ phase \notin {"done", "refused"}
  /\ edits < MaxEdits
  /\ edits' = edits + 1
  /\ \/ contractFile' \in ContractTexts \ {contractFile} /\ UNCHANGED <<envDisk, held>>
     \/ /\ \E p \in EnvPath, text \in EnvTexts \cup {Nothing} :
             /\ text # envDisk[p]
             /\ envDisk' = [envDisk EXCEPT ![p] = text]
             /\ held' = IF ~ Loading THEN held
                        ELSE [held EXCEPT ![p] = IF NotBegun THEN {text} ELSE @ \cup {text}]
        /\ UNCHANGED contractFile
  /\ UNCHANGED <<contractMemo, envMemo, phase, arg, subst, looked, present, read, given, probed>>

InputsNext ==
  \/ ResolveArgs \/ LoadContract
  \/ LookForEnvFile \/ ReadEnvFile \/ HostUnreadable
  \/ Preflight \/ Prepare
  \/ StartContainer \/ RecordServices
  \/ Edit

InputsSpec == InputsInit /\ [][InputsNext]_inputVars

-----------------------------------------------------------------------------
InputsTypeOK ==
  /\ contractFile \in ContractTexts /\ envDisk \in [EnvPath -> EnvTexts \cup {Nothing}]
  /\ contractMemo # Nothing => contractMemo.loaded \in ContractTexts \ {Garbled}
  /\ envMemo \in [EnvPath -> (EnvTexts \ {Garbled}) \cup {Nothing}]
  /\ phase \in {"resolve", "load", "preflight", "prepare", "start", "record", "done", "refused"}
  /\ phase \in {"preflight", "prepare", "start", "record", "done"} => contractMemo # Nothing
  /\ arg \in Named /\ edits \in 0 .. MaxEdits
  /\ given = Nothing <=> probed = Nothing
  /\ Loading => /\ looked \in 0 .. Len(EnvFilesRead) /\ read \in 0 .. looked
                /\ present \subseteq 1 .. looked
  /\ held \in [EnvPath -> SUBSET (EnvTexts \cup {Nothing})]

\* m is the process's environment with texts[1], texts[2], ... on top.
IsOverlay(m, texts) ==
  LET Setting(v) == {i \in DOMAIN texts : v \in DOMAIN VarsOf(texts[i])}
  IN  /\ DOMAIN m = DOMAIN OSEnv \cup UNION {DOMAIN VarsOf(texts[i]) : i \in DOMAIN texts}
      /\ \A v \in DOMAIN m :
           IF Setting(v) = {} THEN m[v] = OSEnv[v]
           ELSE \E i \in Setting(v) :
                  /\ \A j \in Setting(v) : j <= i
                  /\ m[v] = VarsOf(texts[i])[v]

\* What the first n env files may contribute: nothing one of them did not hold.
HeldTexts(n) ==
  {texts \in [1 .. n -> EnvTexts \cup {Nothing}] :
     \A i \in 1 .. n : texts[i] \in held[EnvFilesRead[i]] \ {Garbled}}

\* Neither memo is ever stale.  The files cannot be read all at once, but every
\* text of a map that is complete is one its file held at some moment since this
\* load first looked at one, whatever this process has read before; a file that
\* contributes nothing was missing, or set nothing, at such a moment.  And the
\* contract a load returns was parsed from the bytes now in its file.
LoadsAreFresh ==
  [][/\ Loaded => \E texts \in HeldTexts(Len(EnvFilesRead)) : IsOverlay(subst, texts)
     /\ phase = "load" /\ phase' = "preflight" => contractMemo'.loaded = contractFile
    ]_inputVars

\* The container and its health gate get the texts of the contract, expanded as
\* the list of forms above Substitute says: "$$" is a dollar sign.
EscapesSurvive ==
  /\ given # Nothing => given = AsDocumented(contractMemo.loaded.env, subst)
  /\ probed # Nothing => probed = AsDocumented(contractMemo.loaded.url, subst)
=============================================================================

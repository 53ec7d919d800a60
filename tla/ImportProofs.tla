---------------------------- MODULE ImportProofs ----------------------------
(***************************************************************************)
(* Theorems about ComposeImport, for any Compose files, commands and limit *)
(* on chains: what becomes of the target, where reading a project may      *)
(* lead, what a service is that extends others, which imports are refused, *)
(* that what has been read at the end is what the line of definitions each *)
(* service descends from says of it, that the edges of the contract made   *)
(* of it are those of these lines, and what the variables range over.      *)
(***************************************************************************)
EXTENDS ImportReference, FiniteSetTheorems, SequenceTheorems, WellFoundedInduction, TLAPS

\* A command that has not ended has no outcome; init does not get anywhere
\* when it found a contract; and the target is not ours before it is opened.
TargetInv ==
  /\ stage # "end" => outcome = None
  /\ order.command = "init" /\ found = Theirs => stage \in {"begin", "end"} /\ target = Theirs
  /\ stage \notin {"fill", "end"} => target \in {None, Theirs}
  /\ TargetIsSafe

\* What happens before the contract is written.
Prepares ==
  \/ TargetExists \/ UseTemplate \/ UseDockerfile \/ OpenPrimary
  \/ Include \/ Extend \/ TranslateRefused \/ Translate

\* It leaves the command and its target alone, ends only with a refusal, and
\* does not come from init before it has looked.
LEMMA PreparesNothingElse ==
  ASSUME Prepares
  PROVE  /\ UNCHANGED <<order, target, found>>
         /\ stage \notin {"fill", "end"}
         /\ \/ stage' \notin {"fill", "end"} /\ outcome' = outcome
            \/ stage' = "end" /\ outcome' \notin {"ok", "write"}
         /\ stage = "begin" /\ stage' # "end" => (order.command = "init" => target = None)
         /\ stage # "begin" => stage' # "begin"
<1> USE DEF Reject, Produce, Open
<1>1. CASE TargetExists
  BY <1>1 DEF TargetExists
<1>2. CASE UseTemplate \/ UseDockerfile
  BY <1>2 DEF UseTemplate, UseDockerfile, MayBegin
<1>3. CASE OpenPrimary
  BY <1>3 DEF OpenPrimary, MayBegin, Opened
<1>4. CASE Include
  BY <1>4 DEF Include, IncludeUnsupported, IncludeEscapes, IncludeCycle, IncludeTooDeep,
              IncludeOpens, OwnPartWins, Local, Inside, Including, Opened
<1>5. CASE ExtendsRefused
  BY <1>5 DEF ExtendsRefused, Following, Resolving, ParentRefused, Uncoded
<1>7. CASE TakeService \/ StandsAlone \/ Inherit \/ Follow \/ FileDone \/ LoadDone
  BY <1>7 DEF TakeService, StandsAlone, Inherit, Follow, FileDone, LoadDone, Following, Resolving
<1>6. CASE TranslateRefused \/ Translate
  BY <1>6 DEF TranslateRefused, Translate, Uncoded
<1> QED
  BY <1>1, <1>2, <1>3, <1>4, <1>5, <1>6, <1>7 DEF Prepares, Extend

LEMMA TargetStarts == ImportInit => TargetInv
BY ImportAssumption DEF ImportInit, TargetInv, TargetIsSafe

LEMMA TargetInductive == TargetInv /\ [ImportNext]_importVars => TargetInv'
<1> SUFFICES ASSUME TargetInv, [ImportNext]_importVars PROVE TargetInv'
  OBVIOUS
<1> USE ImportAssumption DEF TargetInv, TargetIsSafe
<1>1. CASE Prepares
  BY <1>1, PreparesNothingElse
<1>2. CASE ToStdout
  BY <1>2 DEF ToStdout
<1>3. CASE OpenTarget
  BY <1>3 DEF OpenTarget
<1>4. CASE FillTarget
  BY <1>4 DEF FillTarget
<1>5. CASE TargetWriteFails
  BY <1>5 DEF TargetWriteFails, Reject
<1>6. CASE SomebodyWrites
  BY <1>6 DEF SomebodyWrites
<1>7. CASE UNCHANGED importVars
  BY <1>7 DEF importVars
<1> QED
  BY <1>1, <1>2, <1>3, <1>4, <1>5, <1>6, <1>7 DEF ImportNext, Prepares

\* init leaves alone what it found, a refused command has written nothing, and a
\* command that reports success has its contract at the target.
THEOREM TargetSafety == ImportSpec => []TargetIsSafe
<1>1. TargetInv => TargetIsSafe
  BY DEF TargetInv
<1> QED
  BY <1>1, TargetStarts, TargetInductive, PTL DEF ImportSpec

\* A command keeps to the project and the order it began with, and makes a contract of
\* what it has read in one step only.
LEMMA NothingElseRead == [ImportNext]_importVars => UNCHANGED <<project, order>>
<1> USE DEF Reject, Produce, Open, reading
<1>1. CASE Include \/ OpenPrimary
  BY <1>1 DEF OpenPrimary, Include, IncludeUnsupported, IncludeEscapes, IncludeCycle, IncludeTooDeep,
     IncludeOpens, OwnPartWins
<1>2. CASE Extend
  BY <1>2 DEF Extend, TakeService, StandsAlone, Inherit, ExtendsRefused, Follow, FileDone, LoadDone
<1>3. CASE TargetExists \/ UseTemplate \/ UseDockerfile \/ TranslateRefused \/ Translate
  BY <1>3 DEF TargetExists, UseTemplate, UseDockerfile, TranslateRefused, Translate
<1>4. CASE \/ ToStdout \/ OpenTarget \/ FillTarget \/ TargetWriteFails \/ SomebodyWrites
           \/ UNCHANGED importVars
  BY <1>4 DEF ToStdout, OpenTarget, FillTarget, TargetWriteFails, SomebodyWrites, importVars
<1> QED
  BY <1>1, <1>2, <1>3, <1>4 DEF ImportNext

LEMMA OnlyTranslates ==
  [ImportNext]_importVars /\ ~ Translate => product' = product \/ product' \in {Template, Stub}
<1> USE DEF Reject, Produce, Open, reading
<1>1. CASE Include \/ OpenPrimary
  BY <1>1 DEF OpenPrimary, Include, IncludeUnsupported, IncludeEscapes, IncludeCycle, IncludeTooDeep,
     IncludeOpens, OwnPartWins
<1>2. CASE Extend
  BY <1>2 DEF Extend, TakeService, StandsAlone, Inherit, ExtendsRefused, Follow, FileDone, LoadDone
<1>3. CASE TargetExists \/ UseTemplate \/ UseDockerfile \/ TranslateRefused
  BY <1>3 DEF TargetExists, UseTemplate, UseDockerfile, TranslateRefused
<1>4. CASE \/ ToStdout \/ OpenTarget \/ FillTarget \/ TargetWriteFails \/ SomebodyWrites
           \/ UNCHANGED importVars
  BY <1>4 DEF ToStdout, OpenTarget, FillTarget, TargetWriteFails, SomebodyWrites, importVars
<1> QED
  BY <1>1, <1>2, <1>3, <1>4 DEF ImportNext

-----------------------------------------------------------------------------
\* Which files are read.

IsSeq(s) == s \in Seq(Range(s))

LEMMA AnySeq ==
  ASSUME NEW S, NEW s \in Seq(S)
  PROVE  IsSeq(s) /\ Len(s) \in Nat /\ DOMAIN s = 1 .. Len(s)
<1>1. Len(s) \in Nat /\ DOMAIN s = 1 .. Len(s) /\ s \in [1 .. Len(s) -> S]
  OBVIOUS
<1>2. s \in [1 .. Len(s) -> Range(s)]
  BY <1>1 DEF Range
<1> QED
  BY <1>1, <1>2 DEF IsSeq

LEMMA Appended ==
  ASSUME NEW s, IsSeq(s), NEW e
  PROVE  /\ IsSeq(Append(s, e)) /\ Len(Append(s, e)) = Len(s) + 1 /\ Len(s) \in Nat
         /\ \A i \in 1 .. Len(s) : Append(s, e)[i] = s[i]
         /\ Append(s, e)[Len(s) + 1] = e
<1>1. s \in Seq(Range(s) \cup {e}) /\ Len(s) \in Nat
  <2>1. s \in Seq(Range(s))
    BY DEF IsSeq
  <2>2. Len(s) \in Nat /\ s \in [1 .. Len(s) -> Range(s)]
    BY <2>1
  <2> QED
    BY <2>2
<1>2. /\ Append(s, e) \in Seq(Range(s) \cup {e}) /\ Len(Append(s, e)) = Len(s) + 1
      /\ \A i \in 1 .. Len(s) : Append(s, e)[i] = s[i]
      /\ Append(s, e)[Len(s) + 1] = e
  BY <1>1
<1> QED
  BY <1>1, <1>2, AnySeq

\* A finite non-empty set of numbers has a least element.
LEMMA MinIsMember ==
  ASSUME NEW S, S \subseteq Int, IsFiniteSet(S), S # {}
  PROVE  Min(S) \in S
<1> DEFINE below(x) == {y \in S : y <= x}
           T == {below(x) : x \in S}
<1>1. T \subseteq FiniteSubsetsOf(S)
  BY FS_Subset DEF FiniteSubsetsOf
<1>6. T # {}
  OBVIOUS
<1>2. IsWellFoundedOn(StrictSubsetOrdering(S), FiniteSubsetsOf(S))
  BY FS_StrictSubsetOrderingWellFounded
<1> HIDE DEF T
<1>3. PICK t \in T : \A u \in T : <<u, t>> \notin StrictSubsetOrdering(S)
  BY <1>1, <1>2, <1>6, WFMin
<1>4. PICK x \in S : t = below(x)
  BY DEF T
<1>5. \A y \in S : x <= y
  <2> SUFFICES ASSUME NEW y \in S, y < x PROVE FALSE
    OBVIOUS
  <2>1. below(y) \in T /\ below(y) \in SUBSET S /\ below(x) \in SUBSET S
    BY DEF T
  <2>2. x \in below(x) /\ x \notin below(y)
    OBVIOUS
  <2>3. \A z \in S : z <= y => z <= x
    OBVIOUS
  <2>4. <<below(y), below(x)>> \in StrictSubsetOrdering(S)
    BY <2>1, <2>2, <2>3 DEF StrictSubsetOrdering
  <2> QED
    BY <2>1, <2>4, <1>3, <1>4
<1> QED
  BY <1>5 DEF Min

\* If something fails for a natural number, there is a least one for which it does.
LEMMA LeastNumber ==
  ASSUME NEW S, S \subseteq Nat, S # {}
  PROVE  \E n \in S : \A m \in S : n <= m
<1> DEFINE R == {ss \in Nat \X Nat : ss[1] < ss[2]}
<1>1. IsWellFoundedOn(R, Nat)
  BY NatLessThanWellFounded DEF OpToRel
<1> HIDE DEF R
<1>2. PICK n \in S : \A m \in S : ~ (<<m, n>> \in R)
  BY <1>1, WFMin
<1>3. ASSUME NEW m \in S PROVE n <= m
  <2>1. m < n => <<m, n>> \in R
    BY DEF R
  <2> QED BY <2>1, <1>2
<1> QED
  BY <1>3

LEMMA PrimaryIsFile ==
  ASSUME order \in Orders, Primary # None
  PROVE  Primary \in ComposeFile
<1>1. CASE order.source = "codebase"
  <2> DEFINE there == {i \in DOMAIN WellKnown : project.files[WellKnown[i]] # None}
  <2>1. Primary = Discovered
    BY <1>1 DEF Primary
  <2>2. there # {} /\ Primary = WellKnown[Min(there)]
    BY <2>1 DEF Discovered
  <2>3. DOMAIN WellKnown = 1 .. Len(WellKnown) /\ Len(WellKnown) \in Nat
    BY ImportAssumption
  <2>4. IsFiniteSet(1 .. Len(WellKnown)) /\ there \in SUBSET (1 .. Len(WellKnown)) /\ there \subseteq Int
    BY <2>3, FS_Interval
  <2> HIDE DEF there
  <2>5. Min(there) \in there
    BY <2>2, <2>4, FS_Subset, MinIsMember
  <2>6. Min(there) \in 1 .. Len(WellKnown)
    BY <2>4, <2>5
  <2> QED
    BY <2>2, <2>6, ImportAssumption
<1>2. CASE order.source # "codebase"
  BY <1>2, ImportAssumption DEF Primary
<1> QED
  BY <1>1, <1>2

\* Under a directory of files under a directory.
LEMMA PrefixOfPrefix ==
  ASSUME NEW f \in ComposeFile, NEW g \in ComposeFile, NEW k \in ComposeFile,
         IsPrefix(DirOf[f], DirOf[g]), IsPrefix(DirOf[g], DirOf[k])
  PROVE  IsPrefix(DirOf[f], DirOf[k])
<1>1. /\ Len(DirOf[f]) \in Nat /\ Len(DirOf[g]) \in Nat /\ Len(DirOf[k]) \in Nat
      /\ DirOf[f] \in Seq(Range(DirOf[f]))
      /\ DirOf[g] \in Seq(Range(DirOf[g]))
      /\ DirOf[k] \in Seq(Range(DirOf[k]))
  BY ImportAssumption
<1>2. Len(DirOf[f]) <= Len(DirOf[g]) /\ Len(DirOf[g]) <= Len(DirOf[k])
  BY DEF IsPrefix
<1>3. \A i \in 1 .. Len(DirOf[f]) : DirOf[f][i] = DirOf[g][i]
  <2>1. SubSeq(DirOf[f], 1, Len(DirOf[f])) = SubSeq(DirOf[g], 1, Len(DirOf[f]))
    BY DEF IsPrefix
  <2>2. \A i \in 1 .. Len(DirOf[f]) :
          /\ SubSeq(DirOf[f], 1, Len(DirOf[f]))[i] = DirOf[f][i]
          /\ SubSeq(DirOf[g], 1, Len(DirOf[f]))[i] = DirOf[g][i]
    BY <1>1, <1>2
  <2> QED
    BY <2>1, <2>2
<1>4. \A i \in 1 .. Len(DirOf[g]) : DirOf[g][i] = DirOf[k][i]
  <2>1. SubSeq(DirOf[g], 1, Len(DirOf[g])) = SubSeq(DirOf[k], 1, Len(DirOf[g]))
    BY DEF IsPrefix
  <2>2. \A i \in 1 .. Len(DirOf[g]) :
          /\ SubSeq(DirOf[g], 1, Len(DirOf[g]))[i] = DirOf[g][i]
          /\ SubSeq(DirOf[k], 1, Len(DirOf[g]))[i] = DirOf[k][i]
    BY <1>1, <1>2
  <2> QED
    BY <2>1, <2>2
<1>5. \A i \in 1 .. Len(DirOf[f]) : DirOf[f][i] = DirOf[k][i]
  BY <1>1, <1>2, <1>3, <1>4
<1>6. SubSeq(DirOf[f], 1, Len(DirOf[f])) = SubSeq(DirOf[k], 1, Len(DirOf[f]))
  BY <1>1, <1>2, <1>5
<1> QED
  BY <1>1, <1>2, <1>6 DEF IsPrefix

LEMMA PrefixOfItself ==
  ASSUME NEW f \in ComposeFile
  PROVE  IsPrefix(DirOf[f], DirOf[f])
BY ImportAssumption DEF IsPrefix

\* Includes go no deeper than the limit, never back to a file on the way, and all
\* lie under the directory of the primary file, though the code only holds each
\* against the one that names it.
IncludesStayInside ==
  /\ Len(stack) <= MaxIncludeDepth
  /\ \A i, j \in 1 .. Len(stack) : stack[i].file = stack[j].file => i = j
  /\ \A i \in 1 .. Len(stack) : IsPrefix(DirOf[stack[1].file], DirOf[stack[i].file])

\* Neither does following extends, which stays under the directory of the top file.
ExtendsStayInside ==
  /\ Len(chain) <= MaxIncludeDepth
  /\ \A k, l \in 1 .. Len(chain) : chain[k] = chain[l] => k = l
  /\ \A k \in 1 .. Len(chain) : IsPrefix(DirOf[Top.file], DirOf[chain[k][1]])

\* A file that is being read is a readable one of the project.
IsFrame(x, p) ==
  /\ {"file", "own", "merged", "next"} \subseteq DOMAIN x
  /\ x.file \in ComposeFile /\ x.own = p.files[x.file]
  /\ Parses(x.own)
  /\ x.next \in Nat \ {0}

ReadingInv ==
  /\ project \in Projects /\ order \in Orders
  /\ stage = "begin" => stack = <<>>
  /\ stage \in {"include", "extend", "translate"} => stack # <<>>
  /\ stage \notin {"extend", "end"} => chain = <<>>
  /\ IsSeq(stack) /\ IsSeq(chain)
  /\ \A i \in 1 .. Len(stack) : IsFrame(stack[i], project)
  /\ IncludesStayInside /\ ExtendsStayInside

LEMMA NothingYet ==
  ASSUME NEW e, e = <<>>
  PROVE  IsSeq(e) /\ Len(e) = 0 /\ 1 .. Len(e) = {}
<1>1. e \in Seq(Nat) /\ Len(e) = 0
  BY EmptySeq
<1>2. IsSeq(e)
  BY <1>1, AnySeq
<1> QED
  BY <1>1, <1>2

LEMMA ReadingStarts == ImportInit => ReadingInv
<1> SUFFICES ASSUME ImportInit PROVE ReadingInv
  OBVIOUS
<1>1. /\ stack = <<>> /\ chain = <<>> /\ stage = "begin"
      /\ project \in Projects /\ order \in Orders
  BY DEF ImportInit
<1>2. /\ IsSeq(stack) /\ Len(stack) = 0 /\ 1 .. Len(stack) = {}
      /\ IsSeq(chain) /\ Len(chain) = 0 /\ 1 .. Len(chain) = {}
  BY <1>1, NothingYet
<1>3. IncludesStayInside /\ ExtendsStayInside
  BY <1>2, ImportAssumption DEF IncludesStayInside, ExtendsStayInside
<1> QED
  BY <1>1, <1>2, <1>3 DEF ReadingInv

\* The top file is one of those on the stack.
LEMMA TopFrame ==
  ASSUME ReadingInv, stack # <<>>
  PROVE  /\ Len(stack) \in Nat \ {0} /\ DOMAIN stack = 1 .. Len(stack)
         /\ Top = stack[Len(stack)] /\ IsFrame(Top, project)
         /\ stack[1].file \in ComposeFile
         /\ IsPrefix(DirOf[stack[1].file], DirOf[Top.file])
<1>1. stack \in Seq(Range(stack))
  BY DEF ReadingInv, IsSeq
<1>2. Len(stack) \in Nat \ {0} /\ DOMAIN stack = 1 .. Len(stack)
  BY <1>1
<1>3. Top = stack[Len(stack)]
  BY DEF Top, Last
<1> QED
  BY <1>2, <1>3 DEF ReadingInv, IncludesStayInside, IsFrame

\* A step that reads nothing.
LEMMA NothingRead ==
  ASSUME ReadingInv, UNCHANGED <<project, order, stack, chain>>,
         stage' \in {stage, "end"} \/ (stage' \in {"write", "fill"} /\ chain = <<>>)
  PROVE  ReadingInv'
<1>1. IncludesStayInside' /\ ExtendsStayInside'
  BY DEF ReadingInv, IncludesStayInside, ExtendsStayInside, Top, Last
<1> QED
  BY <1>1 DEF ReadingInv

\* What is known of the chain when the top file stays the same one.
LEMMA ChainSame ==
  ASSUME ReadingInv, chain' = chain, chain = <<>> \/ Top'.file = Top.file
  PROVE  ExtendsStayInside' /\ IsSeq(chain')
<1>1. CASE chain = <<>>
  <2>1. Len(chain') = 0 /\ 1 .. Len(chain') = {}
    BY <1>1, NothingYet
  <2> QED
    BY <2>1, ImportAssumption DEF ExtendsStayInside, ReadingInv
<1>2. CASE Top'.file = Top.file
  BY <1>2 DEF ExtendsStayInside, ReadingInv
<1> QED
  BY <1>1, <1>2

\* A file is opened.
LEMMA OpenKeeps ==
  ASSUME ReadingInv, NEW f \in ComposeFile, Open(f), chain = <<>>,
         Len(stack) < MaxIncludeDepth, f \notin Ancestors,
         stack # <<>> => IsPrefix(DirOf[stack[1].file], DirOf[f])
  PROVE  ReadingInv'
<1>1. CASE Opened(f) # "ok"
  BY <1>1, NothingRead DEF Open, Reject, reading
<1>2. CASE Opened(f) = "ok"
  <2> DEFINE x == Frame(f, project.files[f])
  <2>1. /\ stack' = Append(stack, x) /\ stage' = "include" /\ chain' = chain
        /\ project' = project /\ order' = order
    BY <1>2 DEF Open
  <2>2. Parses(project.files[f])
    BY <1>2, ImportAssumption DEF Opened
  <2>3. IsFrame(x, project) /\ x.file = f
    BY <2>2 DEF IsFrame, Frame
  <2> HIDE DEF x
  <2>4. /\ IsSeq(stack') /\ Len(stack') = Len(stack) + 1 /\ Len(stack) \in Nat
        /\ \A i \in 1 .. Len(stack) : stack'[i] = stack[i]
        /\ stack'[Len(stack) + 1] = x
    BY <2>1, Appended DEF ReadingInv
  <2>5. DOMAIN stack = 1 .. Len(stack)
    BY AnySeq DEF ReadingInv, IsSeq
  <2>6. \A i \in 1 .. Len(stack') : i \in 1 .. Len(stack) \/ i = Len(stack) + 1
    BY <2>4
  <2>7. \A i \in 1 .. Len(stack') : IsFrame(stack'[i], project')
    BY <2>1, <2>3, <2>4, <2>6 DEF ReadingInv
  <2>8. IncludesStayInside'
    <3>1. Len(stack') <= MaxIncludeDepth
      BY <2>4, ImportAssumption
    <3>2. \A i \in 1 .. Len(stack) : stack[i].file # f
      BY <2>5 DEF Ancestors
    <3>3. \A i, j \in 1 .. Len(stack') : stack'[i].file = stack'[j].file => i = j
      BY <3>2, <2>3, <2>4, <2>6 DEF ReadingInv, IncludesStayInside
    <3>4. \A i \in 1 .. Len(stack') : IsPrefix(DirOf[stack'[1].file], DirOf[stack'[i].file])
      <4>1. CASE stack = <<>>
        <5>1. Len(stack) = 0
          BY <4>1
        <5>2. \A i \in 1 .. Len(stack') : stack'[i].file = f
          BY <5>1, <2>3, <2>4
        <5>3. 1 \in 1 .. Len(stack')
          BY <5>1, <2>4
        <5> QED
          BY <5>2, <5>3, PrefixOfItself
      <4>2. CASE stack # <<>>
        <5>1. Len(stack) \in Nat \ {0}
          BY <4>2, TopFrame
        <5>2. stack'[1] = stack[1]
          BY <5>1, <2>4
        <5> QED
          BY <4>2, <5>2, <2>3, <2>4, <2>6 DEF ReadingInv, IncludesStayInside
      <4> QED
        BY <4>1, <4>2
    <3> QED
      BY <3>1, <3>3, <3>4 DEF IncludesStayInside
  <2>9. ExtendsStayInside' /\ IsSeq(chain')
    BY <2>1, ChainSame
  <2>10. stack' # <<>>
    BY <2>4, NothingYet
  <2> QED
    BY <2>1, <2>4, <2>7, <2>8, <2>9, <2>10 DEF ReadingInv
<1> QED
  BY <1>1, <1>2

LEMMA PrimaryKeeps == ReadingInv /\ OpenPrimary => ReadingInv'
<1> SUFFICES ASSUME ReadingInv, OpenPrimary PROVE ReadingInv'
  OBVIOUS
<1>1. stage = "begin" /\ Primary # None /\ Open(Primary)
  BY DEF OpenPrimary, MayBegin
<1>2. stack = <<>> /\ chain = <<>> /\ order \in Orders
  BY <1>1 DEF ReadingInv
<1>3. Len(stack) = 0 /\ Ancestors = {}
  BY <1>2 DEF Ancestors
<1>4. Primary \in ComposeFile
  BY <1>1, <1>2, PrimaryIsFile
<1> QED
  BY <1>1, <1>2, <1>3, <1>4, OpenKeeps, ImportAssumption

\* An included file is held against the directory of the one that names it, which
\* is under that of the primary.
LEMMA IncludedKeeps == ReadingInv /\ IncludeOpens => ReadingInv'
<1> SUFFICES ASSUME ReadingInv, IncludeOpens PROVE ReadingInv'
  OBVIOUS
<1>1. /\ stage = "include" /\ Top.next <= Len(Top.own.include)
      /\ Included.kind = "path" /\ ~ Escapes(Included.file, Top.file)
      /\ Included.file \notin Ancestors /\ ~ TooDeep /\ Open(Included.file)
  BY DEF IncludeOpens, Inside, Local, Including
<1>2. stack # <<>> /\ chain = <<>> /\ project \in Projects
  BY <1>1 DEF ReadingInv
<1>3. /\ IsFrame(Top, project) /\ stack[1].file \in ComposeFile /\ Len(stack) \in Nat
      /\ IsPrefix(DirOf[stack[1].file], DirOf[Top.file])
  BY <1>2, TopFrame
<1>4. IncludesFiles(Top.own)
  BY <1>2, <1>3, ImportAssumption DEF IsFrame, Parses
<1>5. Included.file \in ComposeFile
  <2>1. Top.own.include \in Seq(Range(Top.own.include)) /\ Top.next \in Nat \ {0}
    BY <1>3, <1>4 DEF IncludesFiles, IsFrame
  <2>2. Top.next \in DOMAIN Top.own.include
    BY <1>1, <2>1
  <2> QED
    BY <1>1, <1>4, <2>2 DEF IncludesFiles, Included, Range
<1>6. IsPrefix(DirOf[stack[1].file], DirOf[Included.file])
  BY <1>1, <1>3, <1>5, PrefixOfPrefix DEF Escapes, IsFrame
<1>7. Len(stack) < MaxIncludeDepth
  BY <1>1, <1>3, ImportAssumption DEF TooDeep
<1> QED
  BY <1>1, <1>2, <1>5, <1>6, <1>7, OpenKeeps

\* Something is changed in the top frame, but not which file it is of.
LEMMA TopChanges ==
  ASSUME ReadingInv, stack # <<>>, NEW y, IsFrame(y, project), y.file = Top.file,
         stack' = [stack EXCEPT ![Len(stack)] = y], project' = project
  PROVE  /\ IsSeq(stack') /\ stack' # <<>> /\ Len(stack') = Len(stack)
         /\ \A i \in 1 .. Len(stack') : IsFrame(stack'[i], project')
         /\ IncludesStayInside' /\ Top' = y
<1>1. /\ Len(stack) \in Nat \ {0} /\ DOMAIN stack = 1 .. Len(stack)
      /\ Top = stack[Len(stack)]
  BY TopFrame
<1> DEFINE S == Range(stack) \cup {y}
<1>0. stack \in Seq(S) /\ y \in S
  <2>1. stack \in Seq(Range(stack))
    BY DEF ReadingInv, IsSeq
  <2> QED
    BY <2>1, <1>1
<1> HIDE DEF S
<1>2. stack' \in Seq(S) /\ Len(stack') = Len(stack)
  BY <1>0, <1>1, ExceptSeq
<1>3. IsSeq(stack') /\ stack' # <<>>
  BY <1>1, <1>2, AnySeq, EmptySeq
<1>4. /\ stack'[Len(stack)] = y
      /\ \A i \in 1 .. Len(stack) : i # Len(stack) => stack'[i] = stack[i]
  <2> DEFINE n == Len(stack)
  <2>1. n \in DOMAIN stack /\ stack' = [stack EXCEPT ![n] = y]
    BY <1>1
  <2> HIDE DEF n
  <2>2. stack'[n] = y /\ \A i \in DOMAIN stack : i # n => stack'[i] = stack[i]
    BY <2>1
  <2> QED
    BY <1>1, <2>2 DEF n
<1>5. \A i \in 1 .. Len(stack) : stack'[i].file = stack[i].file
  BY <1>1, <1>4
<1>6. Top' = y
  BY <1>2, <1>4 DEF Top, Last
<1>7. \A i \in 1 .. Len(stack') : IsFrame(stack'[i], project')
  BY <1>2, <1>4 DEF ReadingInv
<1>8. IncludesStayInside'
  <2>1. 1 \in 1 .. Len(stack) /\ Len(stack') <= MaxIncludeDepth
    BY <1>1, <1>2 DEF ReadingInv, IncludesStayInside
  <2>2. \A i, j \in 1 .. Len(stack') : stack'[i].file = stack'[j].file => i = j
    BY <1>2, <1>5 DEF ReadingInv, IncludesStayInside
  <2>3. \A i \in 1 .. Len(stack') : IsPrefix(DirOf[stack'[1].file], DirOf[stack'[i].file])
    BY <1>2, <1>5, <2>1 DEF ReadingInv, IncludesStayInside
  <2> QED
    BY <2>1, <2>2, <2>3 DEF IncludesStayInside
<1> QED
  BY <1>2, <1>3, <1>6, <1>7, <1>8

\* Whatever is merged into it, it is the frame of the same file.
LEMMA ChangedFrame ==
  ASSUME NEW x, NEW p, IsFrame(x, p), NEW m
  PROVE  /\ IsFrame([x EXCEPT !.merged = m], p)
         /\ [x EXCEPT !.merged = m].file = x.file
         /\ IsFrame([x EXCEPT !.merged = m, !.next = @ + 1], p)
         /\ [x EXCEPT !.merged = m, !.next = @ + 1].file = x.file
<1> DEFINE y == [x EXCEPT !.merged = m]
           z == [y EXCEPT !.next = x.next + 1]
<1>1. y.file = x.file /\ y.own = x.own /\ y.next = x.next /\ DOMAIN y = DOMAIN x
  OBVIOUS
<1>2. z.file = y.file /\ z.own = y.own /\ DOMAIN z = DOMAIN y
  OBVIOUS
<1>3. z.next \in Nat \ {0}
  BY <1>1 DEF IsFrame
<1>4. IsFrame(y, p) /\ y.file = x.file
  BY <1>1 DEF IsFrame
<1>5. IsFrame(z, p) /\ z.file = x.file
  BY <1>1, <1>2, <1>3 DEF IsFrame
<1> QED
  BY <1>4, <1>5

\* What a step that changes only what is merged in the top frame leaves of the stack.
LEMMA TopMerged ==
  ASSUME ReadingInv, stack # <<>>, NEW m,
         stack' = [stack EXCEPT ![Len(stack)] = [stack[Len(stack)] EXCEPT !.merged = m]]
  PROVE  /\ Len(stack') = Len(stack) /\ Len(stack) \in Nat \ {0}
         /\ \A i \in 1 .. Len(stack) : i # Len(stack) => stack'[i] = stack[i]
         /\ Top = stack[Len(stack)] /\ Top' = stack'[Len(stack)]
         /\ Top'.merged = m /\ Top'.file = Top.file /\ Top'.own = Top.own /\ Top'.next = Top.next
<1> DEFINE n == Len(stack)
           y == [stack[n] EXCEPT !.merged = m]
           S == Range(stack) \cup {y}
<1>1. /\ n \in Nat \ {0} /\ DOMAIN stack = 1 .. n /\ Top = stack[n] /\ IsFrame(stack[n], project)
  BY TopFrame
<1>2. y.merged = m /\ y.file = stack[n].file /\ y.own = stack[n].own /\ y.next = stack[n].next
  BY <1>1 DEF IsFrame
<1>3. n \in DOMAIN stack /\ stack' = [stack EXCEPT ![n] = y]
  BY <1>1
<1>4. stack \in Seq(S) /\ y \in S
  BY <1>1 DEF ReadingInv, IsSeq
<1> HIDE DEF n, y, S
<1>5. stack'[n] = y /\ \A i \in DOMAIN stack : i # n => stack'[i] = stack[i]
  BY <1>3
<1>6. Len(stack') = n
  BY <1>1, <1>3, <1>4, ExceptSeq DEF n
<1>7. Top' = y
  BY <1>5, <1>6 DEF Top, Last
<1> QED
  BY <1>1, <1>2, <1>5, <1>6, <1>7 DEF n

LEMMA OwnPartKeeps == ReadingInv /\ OwnPartWins => ReadingInv'
<1> SUFFICES ASSUME ReadingInv, OwnPartWins PROVE ReadingInv'
  OBVIOUS
<1>1. /\ stage = "include" /\ stage' = "extend" /\ chain' = chain
      /\ UNCHANGED <<project, order>>
  BY DEF OwnPartWins
<1>2. stack # <<>> /\ chain = <<>>
  BY <1>1 DEF ReadingInv
<1>3. IsFrame(Top, project) /\ Top = stack[Len(stack)]
  BY <1>2, TopFrame
<1>4. PICK y : stack' = [stack EXCEPT ![Len(stack)] = y] /\ IsFrame(y, project) /\ y.file = Top.file
  <2> DEFINE m == Overlay(stack[Len(stack)].merged, Top.own)
             y == [stack[Len(stack)] EXCEPT !.merged = m]
  <2>1. stack' = [stack EXCEPT ![Len(stack)] = y]
    BY DEF OwnPartWins
  <2>2. IsFrame(y, project) /\ y.file = Top.file
    BY <1>3, ChangedFrame
  <2> QED
    BY <2>1, <2>2
<1>5. /\ IsSeq(stack') /\ stack' # <<>> /\ IncludesStayInside'
      /\ \A i \in 1 .. Len(stack') : IsFrame(stack'[i], project')
  BY <1>1, <1>2, <1>4, TopChanges
<1>6. ExtendsStayInside' /\ IsSeq(chain')
  BY <1>1, <1>2, ChainSame
<1> QED
  BY <1>1, <1>5, <1>6 DEF ReadingInv

LEMMA TakeKeeps == ReadingInv /\ TakeService => ReadingInv'
<1> SUFFICES ASSUME ReadingInv, TakeService PROVE ReadingInv'
  OBVIOUS
<1>1. stage = "extend" /\ UNCHANGED <<project, order, stage, stack>>
  BY DEF TakeService
<1>2. PICK s : chain' = <<<<Top.file, s>>>>
  BY DEF TakeService
<1>3. stack # <<>>
  BY <1>1 DEF ReadingInv
<1>4. Top.file \in ComposeFile
  BY <1>3, TopFrame DEF IsFrame
<1>5. chain' \in Seq({<<Top.file, s>>}) /\ Len(chain') = 1 /\ chain'[1][1] = Top.file
  BY <1>2
<1>6. IsSeq(chain')
  BY <1>5, AnySeq
<1>7. Top' = Top
  BY <1>1 DEF Top
<1>8. ExtendsStayInside'
  BY <1>4, <1>5, <1>7, PrefixOfItself, ImportAssumption DEF ExtendsStayInside
<1>9. IncludesStayInside'
  BY <1>1 DEF ReadingInv, IncludesStayInside
<1> QED
  BY <1>1, <1>6, <1>8, <1>9 DEF ReadingInv

\* A service is resolved.
LEMMA FrontKeeps ==
  ASSUME ReadingInv, chain # <<>>, chain' = Front(chain), stage = "extend",
         UNCHANGED <<project, order, stage, stack>>
  PROVE  ReadingInv'
<1>1. Len(chain) \in Nat \ {0} /\ chain \in Seq(Range(chain))
  BY DEF ReadingInv, IsSeq
<1>2. /\ chain' \in Seq(Range(chain)) /\ Len(chain') = Len(chain) - 1
      /\ \A i \in 1 .. Len(chain') : chain'[i] = chain[i]
  <2> DEFINE S == Range(chain)
             n == Len(chain) - 1
  <2>1. n \in Nat /\ n <= Len(chain) /\ chain \in Seq(S) /\ chain' = SubSeq(chain, 1, n)
    BY <1>1 DEF Front
  <2> HIDE DEF S, n
  <2>2. chain' \in Seq(S) /\ Len(chain') = n /\ \A i \in 1 .. n : chain'[i] = chain[i]
    BY <2>1
  <2> QED
    BY <2>2 DEF S, n
<1>3. IsSeq(chain')
  BY <1>2, AnySeq
<1>4. Top' = Top
  BY DEF Top
<1>5. \A i \in 1 .. Len(chain') : i \in 1 .. Len(chain)
  BY <1>1, <1>2
<1>6. Len(chain') <= MaxIncludeDepth
  BY <1>1, <1>2, ImportAssumption DEF ReadingInv, ExtendsStayInside
<1>7. ExtendsStayInside'
  <2>1. \A k, l \in 1 .. Len(chain') : chain'[k] = chain'[l] => k = l
    BY <1>2, <1>5 DEF ReadingInv, ExtendsStayInside
  <2>2. \A k \in 1 .. Len(chain') : IsPrefix(DirOf[Top'.file], DirOf[chain'[k][1]])
    BY <1>2, <1>4, <1>5 DEF ReadingInv, ExtendsStayInside
  <2> QED
    BY <1>6, <2>1, <2>2 DEF ExtendsStayInside
<1>8. IncludesStayInside'
  BY DEF ReadingInv, IncludesStayInside
<1> QED
  BY <1>3, <1>7, <1>8 DEF ReadingInv

\* The parent of a service is looked for in the file it names, under the directory
\* of the top file, or in the one the service is from.
LEMMA FollowKeeps == ReadingInv /\ Follow => ReadingInv'
<1> SUFFICES ASSUME ReadingInv, Follow PROVE ReadingInv'
  OBVIOUS
<1>1. /\ stage = "extend" /\ chain # <<>> /\ ParentRefused = None
      /\ chain' = Append(chain, BaseKey) /\ UNCHANGED <<project, order, stage>>
  BY DEF Follow, Following, Resolving
<1>2. stack # <<>>
  BY <1>1 DEF ReadingInv
<1>3. IsFrame(Top, project) /\ Top = stack[Len(stack)] /\ Len(stack) \in Nat
  BY <1>2, TopFrame
<1>4. PICK y : stack' = [stack EXCEPT ![Len(stack)] = y] /\ IsFrame(y, project) /\ y.file = Top.file
  <2> DEFINE m == [stack[Len(stack)].merged EXCEPT !.networks = @ \cup Body(BaseKey[1]).networks]
             y == [stack[Len(stack)] EXCEPT !.merged = m]
  <2>1. stack' = [stack EXCEPT ![Len(stack)] = y]
    BY DEF Follow
  <2>2. IsFrame(y, project) /\ y.file = Top.file
    BY <1>3, ChangedFrame
  <2> QED
    BY <2>1, <2>2
<1>5. /\ IsSeq(stack') /\ stack' # <<>> /\ IncludesStayInside' /\ Top' = y
      /\ \A i \in 1 .. Len(stack') : IsFrame(stack'[i], project')
  BY <1>1, <1>2, <1>4, TopChanges
<1>6. Len(chain) \in Nat \ {0} /\ DOMAIN chain = 1 .. Len(chain) /\ Current = chain[Len(chain)]
  <2>1. chain \in Seq(Range(chain))
    BY DEF ReadingInv, IsSeq
  <2> QED
    BY <1>1, <2>1 DEF Current, Last
<1>7. /\ BaseKey \notin Range(chain) /\ ~ (Len(chain) >= MaxIncludeDepth)
      /\ Referred.file # None => ~ Escapes(BaseKey[1], Top.file)
  BY <1>1, ImportAssumption DEF ParentRefused, Uncoded
<1>8. IsPrefix(DirOf[Top.file], DirOf[BaseKey[1]])
  <2>1. CASE Referred.file = None
    <3>1. BaseKey[1] = Current[1]
      BY <2>1 DEF BaseKey, ParentOf, Referred, Definition
    <3> QED
      BY <3>1, <1>6 DEF ReadingInv, ExtendsStayInside
  <2>2. CASE Referred.file # None
    BY <2>2, <1>7 DEF Escapes
  <2> QED
    BY <2>1, <2>2
<1> DEFINE key == BaseKey
<1> HIDE DEF key
<1>9. /\ IsSeq(chain') /\ Len(chain') = Len(chain) + 1
      /\ \A i \in 1 .. Len(chain) : chain'[i] = chain[i]
      /\ chain'[Len(chain) + 1] = key
  <2>1. chain' = Append(chain, key)
    BY <1>1 DEF key
  <2> QED
    BY <2>1, Appended DEF ReadingInv
<1>10. \A i \in 1 .. Len(chain') : i \in 1 .. Len(chain) \/ i = Len(chain) + 1
  BY <1>6, <1>9
<1>11. Len(chain') <= MaxIncludeDepth
  BY <1>6, <1>7, <1>9, ImportAssumption
<1>12. \A i \in 1 .. Len(chain) : chain[i] # key
  BY <1>6, <1>7 DEF Range, key
<1>13. \A k, l \in 1 .. Len(chain') : chain'[k] = chain'[l] => k = l
  BY <1>9, <1>10, <1>12 DEF ReadingInv, ExtendsStayInside
<1>14. \A k \in 1 .. Len(chain') : IsPrefix(DirOf[Top'.file], DirOf[chain'[k][1]])
  <2>1. Top'.file = Top.file /\ IsPrefix(DirOf[Top.file], DirOf[key[1]])
    BY <1>4, <1>5, <1>8 DEF key
  <2> QED
    BY <2>1, <1>9, <1>10 DEF ReadingInv, ExtendsStayInside
<1>15. ExtendsStayInside'
  BY <1>11, <1>13, <1>14 DEF ExtendsStayInside
<1> QED
  BY <1>1, <1>5, <1>9, <1>15 DEF ReadingInv

\* The file on top is done with, or the only one.
LEMMA FileDoneKeeps == ReadingInv /\ FileDone => ReadingInv'
<1> SUFFICES ASSUME ReadingInv, FileDone PROVE ReadingInv'
  OBVIOUS
<1>1. /\ stage = "extend" /\ stage' = "include" /\ chain = <<>> /\ chain' = chain
      /\ Len(stack) > 1 /\ UNCHANGED <<project, order>>
  BY DEF FileDone
<1> DEFINE n == Len(stack) - 1
<1>2. stack # <<>>
  BY <1>1 DEF ReadingInv
<1>3. Len(stack) \in Nat /\ n \in Nat \ {0} /\ n < Len(stack) /\ DOMAIN stack = 1 .. Len(stack)
  BY <1>1, <1>2, TopFrame
<1>4. IsFrame(stack[n], project)
  BY <1>3 DEF ReadingInv
<1>5. PICK y : /\ stack' = [i \in 1 .. n |-> IF i < n THEN stack[i] ELSE y]
               /\ IsFrame(y, project) /\ y.file = stack[n].file
  <2> DEFINE z == [stack[n] EXCEPT !.merged = Overlay(@, Resolved), !.next = @ + 1]
  <2>1. IsFrame(z, project) /\ z.file = stack[n].file
    BY <1>4, ChangedFrame
  <2>2. stack' = [i \in 1 .. n |-> IF i < n THEN stack[i]
                    ELSE [stack[i] EXCEPT !.merged = Overlay(@, Resolved), !.next = @ + 1]]
    BY DEF FileDone
  <2>3. \A i \in 1 .. n : i < n \/ i = n
    <3>1. n \in Nat
      BY <1>3
    <3> HIDE DEF n
    <3> QED
      BY <3>1
  <2>4. \A i \in 1 .. n :
          (IF i < n THEN stack[i]
           ELSE [stack[i] EXCEPT !.merged = Overlay(@, Resolved), !.next = @ + 1])
          = IF i < n THEN stack[i] ELSE z
    BY <2>3
  <2> HIDE DEF z
  <2> QED
    BY <2>1, <2>2, <2>4
<1> HIDE DEF n
<1>6. /\ \A i \in 1 .. n : i # n => stack'[i] = stack[i]
      /\ stack'[n] = y
      /\ stack' \in [1 .. n -> Range(stack) \cup {y}]
  <2>1. \A i \in 1 .. n : i < n \/ i = n
    BY <1>3
  <2>2. \A i \in 1 .. n : i \in DOMAIN stack
    BY <1>3 DEF n
  <2> QED
    BY <1>3, <1>5, <2>1, <2>2 DEF Range
<1>7. IsSeq(stack') /\ Len(stack') = n
  <2> DEFINE S == Range(stack) \cup {y}
  <2>1. stack' \in Seq(S) /\ Len(stack') = n
    <3>1. stack' \in [1 .. n -> S] /\ n \in Nat
      BY <1>3, <1>6
    <3> HIDE DEF S
    <3> QED
      BY <3>1
  <2> HIDE DEF S
  <2> QED
    BY <2>1, AnySeq
<1>8. stack' # <<>>
  BY <1>3, <1>7, NothingYet
<1>9. \A i \in 1 .. n : i \in 1 .. Len(stack) /\ stack'[i].file = stack[i].file
  <2>1. \A i \in 1 .. n : stack'[i].file = stack[i].file
    BY <1>5, <1>6
  <2>2. \A i \in 1 .. n : i \in 1 .. Len(stack)
    BY <1>3
  <2> QED
    BY <2>1, <2>2
<1>10. \A i \in 1 .. Len(stack') : IsFrame(stack'[i], project')
  BY <1>1, <1>5, <1>6, <1>7, <1>9 DEF ReadingInv
<1>11. IncludesStayInside'
  <2>1. 1 \in 1 .. n /\ n <= MaxIncludeDepth
    BY <1>3, ImportAssumption DEF ReadingInv, IncludesStayInside
  <2> QED
    BY <1>7, <1>9, <2>1 DEF ReadingInv, IncludesStayInside
<1>12. ExtendsStayInside' /\ IsSeq(chain')
  BY <1>1, ChainSame
<1> QED
  BY <1>1, <1>7, <1>8, <1>10, <1>11, <1>12 DEF ReadingInv

LEMMA LoadDoneKeeps == ReadingInv /\ LoadDone => ReadingInv'
<1> SUFFICES ASSUME ReadingInv, LoadDone PROVE ReadingInv'
  OBVIOUS
<1>1. /\ stage = "extend" /\ stage' = "translate" /\ chain = <<>> /\ chain' = chain
      /\ Len(stack) = 1 /\ UNCHANGED <<project, order>>
  BY DEF LoadDone
<1>2. stack # <<>>
  BY <1>1 DEF ReadingInv
<1>3. IsFrame(Top, project) /\ DOMAIN stack = 1 .. Len(stack)
  BY <1>2, TopFrame
<1>4. PICK y : stack' = <<y>> /\ IsFrame(y, project) /\ y.file = Top.file
  BY <1>3, ChangedFrame DEF LoadDone
<1>5. stack' = [stack EXCEPT ![Len(stack)] = y]
  <2>1. stack \in Seq(Range(stack))
    BY DEF ReadingInv, IsSeq
  <2>2. stack = <<stack[1]>>
    BY <2>1, <1>1
  <2> QED
    BY <2>2, <1>1, <1>4
<1>6. /\ IsSeq(stack') /\ stack' # <<>> /\ IncludesStayInside'
      /\ \A i \in 1 .. Len(stack') : IsFrame(stack'[i], project')
  BY <1>1, <1>2, <1>4, <1>5, TopChanges
<1>7. ExtendsStayInside' /\ IsSeq(chain')
  BY <1>1, ChainSame
<1> QED
  BY <1>1, <1>6, <1>7 DEF ReadingInv

LEMMA ReadingInductive == ReadingInv /\ [ImportNext]_importVars => ReadingInv'
<1> SUFFICES ASSUME ReadingInv, [ImportNext]_importVars PROVE ReadingInv'
  OBVIOUS
<1>1. CASE TargetExists \/ TargetWriteFails \/ TranslateRefused
  BY <1>1, NothingRead DEF TargetExists, TargetWriteFails, TranslateRefused, Reject, reading
<1>2. CASE UseTemplate \/ UseDockerfile \/ Translate
  <2>1. stage \in {"begin", "translate"}
    BY <1>2 DEF UseTemplate, UseDockerfile, Translate, MayBegin
  <2>2. chain = <<>>
    BY <2>1 DEF ReadingInv
  <2> QED
    BY <1>2, <2>2, NothingRead DEF UseTemplate, UseDockerfile, Translate, Reject, Produce, reading
<1>3. CASE Include
  <2>1. CASE IncludeUnsupported \/ IncludeEscapes \/ IncludeCycle \/ IncludeTooDeep
    BY <2>1, NothingRead DEF IncludeUnsupported, IncludeEscapes, IncludeCycle, IncludeTooDeep,
       Reject, reading
  <2> QED
    BY <1>3, <2>1, IncludedKeeps, OwnPartKeeps DEF Include
<1>4. CASE Extend
  <2>1. CASE ExtendsRefused
    BY <2>1, NothingRead DEF ExtendsRefused, Reject, reading
  <2>2. CASE StandsAlone \/ Inherit
    BY <2>2, FrontKeeps DEF StandsAlone, Inherit, Resolving
  <2> QED
    BY <1>4, <2>1, <2>2, TakeKeeps, FollowKeeps, FileDoneKeeps, LoadDoneKeeps DEF Extend
<1>5. CASE ToStdout \/ OpenTarget \/ FillTarget \/ SomebodyWrites \/ UNCHANGED importVars
  <2>1. stage = "write" => chain = <<>>
    BY DEF ReadingInv
  <2> QED
    BY <1>5, <2>1, NothingRead DEF ToStdout, OpenTarget, FillTarget, SomebodyWrites, importVars, reading
<1> QED
  BY <1>1, <1>2, <1>3, <1>4, <1>5, PrimaryKeeps DEF ImportNext

\* Reading a project ends: includes and extends never come back to where they have
\* been and go no deeper than the limit; and it stays under the directory of the
\* primary file, though every check compares two neighbours only.
THEOREM ReadingStaysInside == ImportSpec => [](IncludesStayInside /\ ExtendsStayInside)
<1>1. ReadingInv => IncludesStayInside /\ ExtendsStayInside
  BY DEF ReadingInv
<1> QED
  BY <1>1, ReadingStarts, ReadingInductive, PTL DEF ImportSpec

-----------------------------------------------------------------------------
\* What extends makes of a service.

\* A service is what it says or, when it extends another, that one as resolved
\* with its own definition merged into it.
IsResolved(key) ==
  /\ key \in DOMAIN memo
  /\ IF DefinitionOf(key).extends = NoExtends
     THEN memo[key] = DefinitionOf(key)
     ELSE /\ ParentOf(key) \in DOMAIN memo
          /\ memo[key] = MergeServiceSpecs(memo[ParentOf(key)], DefinitionOf(key))

IsFile(c) == {"services", "networks"} \subseteq DOMAIN c

\* What is resolved stays so; what is on the chain is not yet.
MemoInv ==
  /\ ReadingInv
  /\ \A i \in 1 .. Len(stack) : IsFile(stack[i].merged)
  /\ stage = "extend" =>
       /\ \A key \in DOMAIN memo : IsResolved(key)
       /\ \A k \in 1 .. Len(chain) : chain[k] \notin DOMAIN memo

\* A file is done with when all its services are resolved.
FileIsResolved ==
  FileDone \/ LoadDone => \A n \in DOMAIN Top.merged.services : IsResolved(<<Top.file, n>>)

LEMMA DefinitionsSame ==
  ASSUME project' = project, Top'.file = Top.file, Top'.merged.services = Top.merged.services
  PROVE  \A key : DefinitionOf(key)' = DefinitionOf(key) /\ ParentOf(key)' = ParentOf(key)
<1>1. \A key : DefinitionOf(key)' = DefinitionOf(key)
  BY DEF DefinitionOf, Body
<1> QED
  BY <1>1 DEF ParentOf

\* What a file keeps when something is merged into it.
LEMMA OverlayIsFile ==
  ASSUME NEW x, NEW y, IsFile(x)
  PROVE  IsFile(Overlay(x, y))
BY DEF IsFile, Overlay

LEMMA MemoStarts == ImportInit => MemoInv
<1> SUFFICES ASSUME ImportInit PROVE MemoInv
  OBVIOUS
<1>1. stack = <<>> /\ stage = "begin"
  BY DEF ImportInit
<1>2. Len(stack) = 0
  BY <1>1
<1> QED
  BY <1>1, <1>2, ReadingStarts DEF MemoInv

\* A service has been resolved.
LEMMA KeepsMemo ==
  ASSUME MemoInv, StandsAlone \/ Inherit
  PROVE  MemoInv'
<1>1. /\ stage = "extend" /\ chain # <<>> /\ chain' = Front(chain)
      /\ UNCHANGED <<project, order, stage, stack>>
  BY DEF StandsAlone, Inherit, Resolving
<1>2. ReadingInv'
  BY <1>1, FrontKeeps DEF MemoInv
<1>3. Len(chain) \in Nat \ {0} /\ chain \in Seq(Range(chain)) /\ Current = chain[Len(chain)]
  <2>1. chain \in Seq(Range(chain))
    BY DEF MemoInv, ReadingInv, IsSeq
  <2> QED
    BY <1>1, <2>1 DEF Current, Last
<1>4. /\ Len(chain') = Len(chain) - 1
      /\ \A i \in 1 .. Len(chain') : chain'[i] = chain[i]
  <2> DEFINE n == Len(chain) - 1
  <2>1. n \in Nat /\ n <= Len(chain) /\ chain' = SubSeq(chain, 1, n)
    BY <1>1, <1>3 DEF Front
  <2> HIDE DEF n
  <2>2. Len(chain') = n /\ \A i \in 1 .. n : chain'[i] = chain[i]
    BY <1>3, <2>1
  <2> QED
    BY <2>2 DEF n
<1>5. Current \notin DOMAIN memo
  BY <1>1, <1>3 DEF MemoInv
<1>6. PICK v : /\ memo' = [k \in DOMAIN memo \cup {Current} |-> IF k = Current THEN v ELSE memo[k]]
               /\ IF Referred = NoExtends THEN v = Definition
                  ELSE BaseKey \in DOMAIN memo /\ v = MergeServiceSpecs(memo[BaseKey], Definition)
  BY DEF StandsAlone, Inherit, Keep
<1>7. /\ DOMAIN memo' = DOMAIN memo \cup {Current} /\ memo'[Current] = v
      /\ \A key \in DOMAIN memo : memo'[key] = memo[key]
  <2> DEFINE c == Current
  <2>1. /\ c \notin DOMAIN memo
        /\ memo' = [k \in DOMAIN memo \cup {c} |-> IF k = c THEN v ELSE memo[k]]
    BY <1>5, <1>6
  <2> HIDE DEF c
  <2>2. DOMAIN memo' = DOMAIN memo \cup {c} /\ memo'[c] = v
        /\ \A key \in DOMAIN memo : memo'[key] = memo[key]
    BY <2>1
  <2> QED
    BY <2>2 DEF c
<1>8. \A key : DefinitionOf(key)' = DefinitionOf(key) /\ ParentOf(key)' = ParentOf(key)
  <2>1. Top' = Top
    BY <1>1 DEF Top
  <2> QED
    BY <1>1, <2>1, DefinitionsSame
<1>9. ASSUME NEW key \in DOMAIN memo PROVE IsResolved(key)'
  <2>1. IsResolved(key)
    BY <1>1, <1>9 DEF MemoInv
  <2> QED
    BY <2>1, <1>7, <1>8 DEF IsResolved
<1>10. ASSUME NEW key, key = Current PROVE IsResolved(key)'
  <2>1. /\ key \in DOMAIN memo' /\ memo'[key] = v
        /\ Definition = DefinitionOf(key) /\ BaseKey = ParentOf(key)
        /\ Referred = DefinitionOf(key).extends
    BY <1>7, <1>10 DEF Definition, BaseKey, Referred
  <2> QED
    BY <2>1, <1>6, <1>7, <1>8 DEF IsResolved
<1>11. \A k \in 1 .. Len(chain') : chain'[k] \notin DOMAIN memo'
  <2>1. \A k \in 1 .. Len(chain') : k \in 1 .. Len(chain) /\ k # Len(chain) /\ Len(chain) \in 1 .. Len(chain)
    BY <1>3, <1>4
  <2>2. \A k \in 1 .. Len(chain') : chain'[k] \notin DOMAIN memo
    BY <1>1, <1>4, <2>1 DEF MemoInv
  <2>3. \A k \in 1 .. Len(chain') : chain'[k] # Current
    BY <1>3, <1>4, <2>1 DEF MemoInv, ReadingInv, ExtendsStayInside
  <2> QED
    BY <2>2, <2>3, <1>7
<1>12. (\A key \in DOMAIN memo : IsResolved(key))'
  BY <1>7, <1>9, <1>10
<1> QED
  BY <1>1, <1>2, <1>11, <1>12 DEF MemoInv

\* One is begun with, or its parent is.
LEMMA ChainMemo ==
  ASSUME MemoInv, TakeService \/ Follow, ReadingInv'
  PROVE  MemoInv'
<1>1. stage = "extend" /\ UNCHANGED <<project, order, stage, memo>>
  BY DEF TakeService, Follow, Following, Resolving
<1>2. stack # <<>>
  BY <1>1 DEF MemoInv, ReadingInv
<1>3. /\ DOMAIN stack = 1 .. Len(stack) /\ Len(stack) \in 1 .. Len(stack)
      /\ IsFrame(stack[Len(stack)], project) /\ Top = stack[Len(stack)]
  BY <1>2, TopFrame DEF MemoInv
<1>4. /\ Top'.file = Top.file /\ Top'.merged.services = Top.merged.services
      /\ Len(stack') = Len(stack) /\ \A i \in 1 .. Len(stack) : IsFile(stack'[i].merged)
  <2>1. CASE TakeService
    BY <2>1 DEF TakeService, Top, MemoInv
  <2>2. CASE Follow
    <3> DEFINE n == Len(stack)
               m == [stack[n].merged EXCEPT !.networks = @ \cup Body(BaseKey[1]).networks]
               y == [stack[n] EXCEPT !.merged = m]
               S == Range(stack) \cup {y}
    <3>1. stack' = [stack EXCEPT ![n] = y] /\ n \in DOMAIN stack
      BY <2>2, <1>3 DEF Follow
    <3>2. IsFile(stack[n].merged)
      BY <1>3 DEF MemoInv
    <3>3. m.services = stack[n].merged.services /\ IsFile(m)
      BY <3>2 DEF IsFile
    <3> HIDE DEF m
    <3>4. y.file = Top.file /\ y.merged = m
      BY <1>3 DEF IsFrame
    <3>5. stack \in Seq(S) /\ y \in S
      BY <1>3 DEF MemoInv, ReadingInv, IsSeq
    <3> HIDE DEF n, y, S
    <3>6. stack'[n] = y /\ \A i \in DOMAIN stack : i # n => stack'[i] = stack[i]
      BY <3>1
    <3>7. Len(stack') = Len(stack)
      BY <1>3, <3>1, <3>5, ExceptSeq
    <3>8. Top' = y
      BY <3>6, <3>7 DEF Top, Last, n
    <3>9. \A i \in 1 .. Len(stack) : IsFile(stack'[i].merged)
      BY <1>3, <3>3, <3>4, <3>6 DEF MemoInv
    <3> QED
      BY <1>3, <3>3, <3>4, <3>7, <3>8, <3>9 DEF n
  <2> QED
    BY <2>1, <2>2
<1>5. (\A key \in DOMAIN memo : IsResolved(key))'
  <2>1. \A key : DefinitionOf(key)' = DefinitionOf(key) /\ ParentOf(key)' = ParentOf(key)
    BY <1>1, <1>4, DefinitionsSame
  <2> SUFFICES ASSUME NEW key \in DOMAIN memo PROVE IsResolved(key)'
    BY <1>1
  <2>2. IsResolved(key)
    BY <1>1 DEF MemoInv
  <2> QED
    BY <1>1, <2>1, <2>2 DEF IsResolved
<1>6. \A k \in 1 .. Len(chain') : chain'[k] \notin DOMAIN memo
  <2>1. CASE TakeService
    <3>1. PICK n \in Unresolved : chain' = <<<<Top.file, n>>>>
      BY <2>1 DEF TakeService
    <3>2. Len(chain') = 1 /\ chain'[1] = <<Top.file, n>>
      BY <3>1
    <3> QED
      BY <3>1, <3>2 DEF Unresolved
  <2>2. CASE Follow
    <3> DEFINE key == BaseKey
    <3>1. chain' = Append(chain, key) /\ key \notin DOMAIN memo
      BY <2>2 DEF Follow, Following
    <3> HIDE DEF key
    <3>2. /\ Len(chain') = Len(chain) + 1 /\ Len(chain) \in Nat
          /\ \A i \in 1 .. Len(chain) : chain'[i] = chain[i]
          /\ chain'[Len(chain) + 1] = key
      BY <3>1, Appended DEF MemoInv, ReadingInv
    <3>3. \A i \in 1 .. Len(chain') : i \in 1 .. Len(chain) \/ i = Len(chain) + 1
      BY <3>2
    <3> QED
      BY <1>1, <3>1, <3>2, <3>3 DEF MemoInv
  <2> QED
    BY <2>1, <2>2
<1> QED
  BY <1>1, <1>4, <1>5, <1>6 DEF MemoInv

\* Steps on which the frames keep their files and nothing is resolved.
LEMMA OtherMemo ==
  ASSUME MemoInv, ReadingInv', stage' # "extend" \/ UNCHANGED <<project, stage, stack, chain, memo>>,
         \A i \in 1 .. Len(stack') : IsFile(stack'[i].merged)
  PROVE  MemoInv'
<1>1. CASE stage' # "extend"
  BY <1>1 DEF MemoInv
<1>2. CASE UNCHANGED <<project, stage, stack, chain, memo>>
  <2>1. \A key : DefinitionOf(key)' = DefinitionOf(key) /\ ParentOf(key)' = ParentOf(key)
    BY <1>2, DefinitionsSame DEF Top
  <2>2. \A key : IsResolved(key)' <=> IsResolved(key)
    BY <1>2, <2>1 DEF IsResolved
  <2> QED
    BY <1>2, <2>2 DEF MemoInv
<1> QED
  BY <1>1, <1>2

LEMMA StackMemo ==
  ASSUME MemoInv, Open(Primary) \/ Open(Included.file) \/ OwnPartWins \/ FileDone \/ LoadDone, ReadingInv'
  PROVE  MemoInv'
<1>0. IsSeq(stack) /\ Len(stack) \in Nat /\ DOMAIN stack = 1 .. Len(stack)
  BY AnySeq DEF MemoInv, ReadingInv, IsSeq
<1>1. ASSUME NEW f, Open(f) PROVE MemoInv'
  <2>1. CASE Opened(f) = "ok"
    <3> DEFINE x == Frame(f, project.files[f])
    <3>1. stack' = Append(stack, x) /\ stage' = "include"
      BY <1>1, <2>1 DEF Open
    <3>2. IsFile(x.merged)
      BY DEF Frame, EmptyFile, IsFile
    <3> HIDE DEF x
    <3>3. /\ Len(stack') = Len(stack) + 1
          /\ \A i \in 1 .. Len(stack) : stack'[i] = stack[i]
          /\ stack'[Len(stack) + 1] = x
      BY <1>0, <3>1, Appended
    <3>4. \A i \in 1 .. Len(stack') : i \in 1 .. Len(stack) \/ i = Len(stack) + 1
      BY <1>0, <3>3
    <3> QED
      BY <3>1, <3>2, <3>3, <3>4, OtherMemo DEF MemoInv
  <2>2. CASE Opened(f) # "ok"
    BY <1>1, <2>2, OtherMemo DEF Open, Reject, reading, MemoInv
  <2> QED
    BY <2>1, <2>2
<1>2. CASE OwnPartWins
  <2>1. stage = "include" /\ stage' = "extend" /\ memo' = <<>> /\ chain' = chain
    BY <1>2 DEF OwnPartWins
  <2>2. stack # <<>> /\ chain = <<>>
    BY <2>1 DEF MemoInv, ReadingInv
  <2>3. IsFrame(stack[Len(stack)], project) /\ Len(stack) \in 1 .. Len(stack)
    BY <2>2, TopFrame DEF MemoInv
  <2>4. \A i \in 1 .. Len(stack') : IsFile(stack'[i].merged)
    <3> DEFINE n == Len(stack)
               m == Overlay(stack[n].merged, Top.own)
               y == [stack[n] EXCEPT !.merged = m]
               S == Range(stack) \cup {y}
    <3>1. stack' = [stack EXCEPT ![n] = y] /\ n \in DOMAIN stack
      BY <1>0, <1>2, <2>3 DEF OwnPartWins
    <3>2. IsFile(m)
      BY <2>3, OverlayIsFile DEF MemoInv
    <3> HIDE DEF m
    <3>3. y.merged = m
      BY <2>3 DEF IsFrame
    <3>4. stack \in Seq(S) /\ y \in S
      BY <1>0 DEF IsSeq
    <3> HIDE DEF n, y, S
    <3>5. stack'[n] = y /\ \A i \in DOMAIN stack : i # n => stack'[i] = stack[i]
      BY <3>1
    <3>6. Len(stack') = Len(stack)
      BY <1>0, <3>1, <3>4, ExceptSeq
    <3> QED
      BY <1>0, <3>2, <3>3, <3>5, <3>6 DEF MemoInv
  <2>5. DOMAIN memo' = {} /\ 1 .. Len(chain') = {}
    BY <2>1, <2>2, NothingYet
  <2> QED
    BY <2>1, <2>4, <2>5 DEF MemoInv
<1>3. CASE FileDone
  <2>1. Len(stack) > 1 /\ stage' = "include"
    BY <1>3 DEF FileDone
  <2> DEFINE n == Len(stack) - 1
  <2>2. n \in Nat \ {0} /\ n < Len(stack)
    BY <1>0, <2>1
  <2>3. IsFrame(stack[n], project) /\ IsFile(stack[n].merged)
    BY <1>0, <2>2 DEF MemoInv, ReadingInv
  <2>4. stack' = [i \in 1 .. n |-> IF i < n THEN stack[i]
                    ELSE [stack[i] EXCEPT !.merged = Overlay(@, Resolved), !.next = @ + 1]]
    BY <1>3 DEF FileDone
  <2>5. \A i \in 1 .. n : i \in 1 .. Len(stack)
    BY <1>0, <2>2
  <2> HIDE DEF n
  <2>6. Len(stack') = n
    <3>1. n \in Nat /\ stack' \in [1 .. n -> Range(stack')]
      BY <2>2, <2>4 DEF Range
    <3> QED
      BY <3>1
  <2>7. IsFile(stack'[n].merged)
    <3>1. n \in 1 .. n /\ ~ (n < n)
      BY <2>2
    <3>2. stack'[n] = [stack[n] EXCEPT !.merged = Overlay(@, Resolved), !.next = @ + 1]
      BY <2>4, <3>1
    <3>3. stack'[n].merged = Overlay(stack[n].merged, Resolved)
      BY <2>3, <3>2 DEF IsFrame
    <3> QED
      BY <2>3, <3>3, OverlayIsFile
  <2>8. \A i \in 1 .. n : i # n => stack'[i] = stack[i]
    <3>1. \A i \in 1 .. n : i # n => i < n
      BY <2>2
    <3> QED
      BY <2>4, <3>1
  <2> QED
    BY <2>1, <2>5, <2>6, <2>7, <2>8, OtherMemo DEF MemoInv
<1>4. CASE LoadDone
  <2>1. /\ stack' = <<[Top EXCEPT !.merged = Resolved]>> /\ stage = "extend" /\ stage' = "translate"
        /\ Len(stack) = 1
    BY <1>4 DEF LoadDone
  <2>2. IsFrame(Top, project) /\ Top = stack[1]
    <3>1. stack # <<>>
      BY <2>1 DEF MemoInv, ReadingInv
    <3> QED
      BY <2>1, <3>1, TopFrame DEF MemoInv
  <2>3. IsFile(Top.merged)
    BY <2>1, <2>2 DEF MemoInv
  <2>4. IsFile(Resolved)
    BY <2>3 DEF Resolved, IsFile
  <2>5. Len(stack') = 1 /\ stack'[1].merged = Resolved
    BY <2>1, <2>2 DEF IsFrame
  <2> QED
    BY <2>1, <2>4, <2>5, OtherMemo
<1> QED
  BY <1>1, <1>2, <1>3, <1>4

LEMMA MemoInductive == MemoInv /\ [ImportNext]_importVars => MemoInv'
<1> SUFFICES ASSUME MemoInv, [ImportNext]_importVars PROVE MemoInv'
  OBVIOUS
<1>0. ReadingInv'
  BY ReadingInductive DEF MemoInv
<1>1. CASE OpenPrimary \/ IncludeOpens \/ OwnPartWins \/ FileDone \/ LoadDone
  BY <1>0, <1>1, StackMemo DEF OpenPrimary, IncludeOpens
<1>2. CASE StandsAlone \/ Inherit \/ TakeService \/ Follow
  BY <1>0, <1>2, KeepsMemo, ChainMemo
<1>3. CASE \/ TargetExists \/ UseTemplate \/ UseDockerfile \/ IncludeUnsupported \/ IncludeEscapes
           \/ IncludeCycle \/ IncludeTooDeep \/ ExtendsRefused \/ TranslateRefused \/ Translate
  <2>1. UNCHANGED stack /\ stage' # "extend"
    BY <1>3 DEF TargetExists, UseTemplate, UseDockerfile, IncludeUnsupported, IncludeEscapes,
       IncludeCycle, IncludeTooDeep, ExtendsRefused, TranslateRefused, Translate, Reject, Produce,
       reading
  <2> QED
    BY <1>0, <2>1, OtherMemo DEF MemoInv
<1>4. CASE \/ ToStdout \/ OpenTarget \/ FillTarget \/ TargetWriteFails \/ SomebodyWrites
           \/ UNCHANGED importVars
  <2>1. /\ UNCHANGED <<project, stack, chain, memo>>
        /\ stage' # "extend" \/ stage' = stage
    BY <1>4 DEF ToStdout, OpenTarget, FillTarget, TargetWriteFails, SomebodyWrites, Reject, reading,
       importVars
  <2> QED
    BY <1>0, <2>1, OtherMemo DEF MemoInv
<1> QED
  BY <1>1, <1>2, <1>3, <1>4 DEF ImportNext, Include, Extend

\* When a file is done with, every service in it is its own definition or the one
\* it extends, itself resolved, with its own merged into it, however the services
\* name each other, across files and in whatever order they were taken.
THEOREM ExtendsIsResolved == ImportSpec => [][FileIsResolved]_importVars
<1>1. MemoInv => FileIsResolved
  <2> SUFFICES ASSUME MemoInv, FileDone \/ LoadDone, NEW n \in DOMAIN Top.merged.services
               PROVE  IsResolved(<<Top.file, n>>)
    BY DEF FileIsResolved
  <2>1. stage = "extend" /\ Unresolved = {}
    BY DEF FileDone, LoadDone
  <2>2. <<Top.file, n>> \in DOMAIN memo
    BY <2>1 DEF Unresolved
  <2> QED
    BY <2>1, <2>2 DEF MemoInv
<1> QED
  BY <1>1, MemoStarts, MemoInductive, PTL DEF ImportSpec
-----------------------------------------------------------------------------
\* Where extends has led so far.

\* A file is readable and under the directory of the one its services are read for.
OnGround(f) == Readable(f) /\ ~ Escapes(f, Top.file)

\* The services the top file defines itself are the ones that are resolved, and what
\* they descend from is in files that may be read.
Grounded ==
  stage = "extend" =>
    /\ \A n \in DOMAIN Own(Top.file) :
         n \in DOMAIN Top.merged.services /\ Top.merged.services[n] = Own(Top.file)[n]
    /\ \A key \in DOMAIN memo : OnGround(key[1])
    /\ \A k \in 1 .. Len(chain) : OnGround(chain[k][1])

LEMMA GroundedStarts == ImportInit => Grounded
BY DEF ImportInit, Grounded

\* A step on which the top file stays the same, and so do its services.
LEMMA GroundSame ==
  ASSUME project' = project, Top'.file = Top.file
  PROVE  \A f : (OnGround(f)' <=> OnGround(f)) /\ Own(f)' = Own(f)
BY DEF OnGround, Readable, Opened, Escapes, Own

\* The file that is read is on ground of its own.
LEMMA TopOnGround ==
  ASSUME ReadingInv, stack # <<>>
  PROVE  OnGround(Top.file)
<1>1. IsFrame(Top, project)
  BY TopFrame
<1> QED
  BY <1>1, PrefixOfItself DEF IsFrame, OnGround, Readable, Opened, Escapes, Parses

LEMMA OwnPartGrounds == MemoInv /\ OwnPartWins => Grounded'
<1> SUFFICES ASSUME MemoInv, OwnPartWins PROVE Grounded'
  OBVIOUS
<1>1. stage = "include" /\ memo' = <<>> /\ chain' = chain /\ project' = project
  BY DEF OwnPartWins
<1>2. stack # <<>> /\ chain = <<>> /\ ReadingInv
  BY <1>1 DEF MemoInv, ReadingInv
<1>3. Len(stack) \in Nat \ {0} /\ Top = stack[Len(stack)] /\ IsFrame(Top, project)
  BY <1>2, TopFrame
<1> DEFINE m == Overlay(stack[Len(stack)].merged, Top.own)
<1>4. m.services = Override(Top.merged.services, Own(Top.file))
  <2>1. IsFile(Top.merged)
    BY <1>3 DEF MemoInv
  <2> QED
    BY <1>3, <2>1 DEF IsFile, Overlay, Own, IsFrame
<1>5. stack' = [stack EXCEPT ![Len(stack)] = [stack[Len(stack)] EXCEPT !.merged = m]]
  BY DEF OwnPartWins
<1> HIDE DEF m
<1>6. Top'.merged = m /\ Top'.file = Top.file
  BY <1>2, <1>5, TopMerged
<1>7. Own(Top.file)' = Own(Top.file)
  BY <1>1, <1>6 DEF Own
<1>8. DOMAIN memo' = {} /\ 1 .. Len(chain') = {}
  BY <1>1, <1>2, NothingYet
<1>9. \A n \in DOMAIN Own(Top.file) :
        n \in DOMAIN m.services /\ m.services[n] = Own(Top.file)[n]
  BY <1>4 DEF Override
<1> QED
  BY <1>6, <1>7, <1>8, <1>9 DEF Grounded

\* Following extends leaves the top file and its services as they are.
LEMMA FollowTop ==
  ASSUME MemoInv, stack # <<>>, Follow
  PROVE  Top'.file = Top.file /\ Top'.merged.services = Top.merged.services
<1> DEFINE m == [stack[Len(stack)].merged EXCEPT !.networks = @ \cup Body(BaseKey[1]).networks]
<1>1. stack' = [stack EXCEPT ![Len(stack)] = [stack[Len(stack)] EXCEPT !.merged = m]]
  BY DEF Follow
<1>2. ReadingInv /\ IsFile(stack[Len(stack)].merged)
  BY TopFrame DEF MemoInv
<1>3. m.services = stack[Len(stack)].merged.services
  BY <1>2 DEF IsFile
<1> HIDE DEF m
<1> QED
  BY <1>1, <1>2, <1>3, TopMerged

\* One is begun with, or its parent is.
LEMMA ChainGrounds ==
  ASSUME MemoInv, Grounded, TakeService \/ Follow
  PROVE  Grounded'
<1>1. stage = "extend" /\ UNCHANGED <<project, order, stage, memo>>
  BY DEF TakeService, Follow, Following, Resolving
<1>2. stack # <<>> /\ ReadingInv
  BY <1>1 DEF MemoInv, ReadingInv
<1>3. Top'.file = Top.file /\ Top'.merged.services = Top.merged.services
  <2>1. CASE TakeService
    BY <2>1 DEF TakeService, Top
  <2>2. CASE Follow
    BY <1>2, <2>2, FollowTop
  <2> QED
    BY <2>1, <2>2
<1>4. \A k \in 1 .. Len(chain') : OnGround(chain'[k][1])
  <2>1. CASE TakeService
    <3>1. PICK n \in Unresolved : chain' = <<<<Top.file, n>>>>
      BY <2>1 DEF TakeService
    <3>2. Len(chain') = 1 /\ chain'[1][1] = Top.file
      BY <3>1
    <3> QED
      BY <1>2, <3>2, TopOnGround
  <2>2. CASE Follow
    <3> DEFINE key == BaseKey
    <3>1. chain' = Append(chain, key) /\ chain # <<>> /\ ParentRefused = None
      BY <2>2 DEF Follow, Following, Resolving
    <3>2. chain \in Seq(Range(chain)) /\ IsSeq(chain)
      BY <1>2 DEF ReadingInv, IsSeq
    <3>3. Len(chain) \in Nat \ {0} /\ Current = chain[Len(chain)]
      BY <3>1, <3>2 DEF Current, Last
    <3>4. OnGround(Current[1])
      BY <1>1, <3>3 DEF Grounded
    <3>5. /\ key[1] # Top.file => Opened(key[1]) = "ok"
          /\ Referred.file # None => ~ Escapes(key[1], Top.file)
      BY <3>1, ImportAssumption DEF ParentRefused, Uncoded
    <3>6. key[1] = IF Referred.file = None THEN Current[1] ELSE Referred.file
      BY DEF BaseKey, ParentOf, Referred, Definition
    <3> HIDE DEF key
    <3>7. OnGround(key[1])
      BY <1>2, <3>4, <3>5, <3>6, TopOnGround DEF OnGround, Readable
    <3>8. /\ Len(chain') = Len(chain) + 1
          /\ \A k \in 1 .. Len(chain) : chain'[k] = chain[k]
          /\ chain'[Len(chain) + 1] = key
      BY <3>1, <3>2, Appended
    <3>9. \A k \in 1 .. Len(chain') : k \in 1 .. Len(chain) \/ k = Len(chain) + 1
      BY <3>3, <3>8
    <3> QED
      BY <1>1, <3>7, <3>8, <3>9 DEF Grounded
  <2> QED
    BY <2>1, <2>2
<1>5. \A f : (OnGround(f)' <=> OnGround(f)) /\ Own(f)' = Own(f)
  BY <1>1, <1>3, GroundSame
<1>6. Own(Top.file)' = Own(Top.file)
  BY <1>1, <1>3 DEF Own
<1> QED
  BY <1>1, <1>3, <1>4, <1>5, <1>6 DEF Grounded, OnGround

\* A service is resolved.
LEMMA KeepGrounds ==
  ASSUME MemoInv, Grounded, StandsAlone \/ Inherit
  PROVE  Grounded'
<1>1. /\ stage = "extend" /\ chain # <<>> /\ chain' = Front(chain)
      /\ UNCHANGED <<project, order, stage, stack>>
  BY DEF StandsAlone, Inherit, Resolving
<1>2. DOMAIN memo' = DOMAIN memo \cup {Current}
  BY DEF StandsAlone, Inherit, Keep
<1>3. Len(chain) \in Nat \ {0} /\ chain \in Seq(Range(chain)) /\ Current = chain[Len(chain)]
  <2>1. chain \in Seq(Range(chain))
    BY DEF MemoInv, ReadingInv, IsSeq
  <2> QED
    BY <1>1, <2>1 DEF Current, Last
<1>4. \A k \in 1 .. Len(chain') : chain'[k] = chain[k] /\ k \in 1 .. Len(chain)
  <2> DEFINE n == Len(chain) - 1
  <2>1. n \in Nat /\ n <= Len(chain) /\ chain' = SubSeq(chain, 1, n)
    BY <1>1, <1>3 DEF Front
  <2> HIDE DEF n
  <2>2. Len(chain') = n /\ \A k \in 1 .. n : chain'[k] = chain[k] /\ k \in 1 .. Len(chain)
    BY <1>3, <2>1
  <2> QED
    BY <2>2
<1>5. Top' = Top
  BY <1>1 DEF Top
<1>6. \A f : (OnGround(f)' <=> OnGround(f)) /\ Own(f)' = Own(f)
  BY <1>1, <1>5, GroundSame
<1>7. Len(chain) \in 1 .. Len(chain) /\ OnGround(Current[1])
  BY <1>1, <1>3 DEF Grounded
<1>8. Own(Top.file)' = Own(Top.file)
  BY <1>1, <1>5 DEF Own
<1>9. (\A key \in DOMAIN memo : OnGround(key[1]))'
  <2>1. \A key \in DOMAIN memo' : OnGround(key[1])
    BY <1>1, <1>2, <1>7 DEF Grounded
  <2> QED
    BY <2>1, <1>6 DEF OnGround
<1>10. (\A k \in 1 .. Len(chain) : OnGround(chain[k][1]))'
  <2>1. \A k \in 1 .. Len(chain') : OnGround(chain'[k][1])
    BY <1>1, <1>4 DEF Grounded
  <2> QED
    BY <2>1, <1>6 DEF OnGround
<1> QED
  BY <1>1, <1>5, <1>8, <1>9, <1>10 DEF Grounded

LEMMA GroundedInductive == MemoInv /\ Grounded /\ [ImportNext]_importVars => Grounded'
<1> SUFFICES ASSUME MemoInv, Grounded, [ImportNext]_importVars PROVE Grounded'
  OBVIOUS
<1>1. CASE OwnPartWins
  BY <1>1, OwnPartGrounds
<1>2. CASE TakeService \/ Follow \/ StandsAlone \/ Inherit
  BY <1>2, ChainGrounds, KeepGrounds
<1>3. CASE stage' # "extend"
  BY <1>3 DEF Grounded
<1>4. CASE UNCHANGED <<project, stage, stack, chain, memo>>
  BY <1>4 DEF Grounded, OnGround, Own, Top, Readable, Opened, Escapes
<1>5. CASE OpenPrimary \/ IncludeOpens
  BY <1>3, <1>5 DEF OpenPrimary, IncludeOpens, Open, Reject
<1>6. CASE \/ TargetExists \/ UseTemplate \/ UseDockerfile \/ IncludeUnsupported \/ IncludeEscapes
           \/ IncludeCycle \/ IncludeTooDeep \/ ExtendsRefused \/ TranslateRefused \/ Translate
           \/ FileDone \/ LoadDone
  BY <1>3, <1>6 DEF TargetExists, UseTemplate, UseDockerfile, IncludeUnsupported, IncludeEscapes,
     IncludeCycle, IncludeTooDeep, ExtendsRefused, TranslateRefused, Translate, FileDone, LoadDone,
     Reject, Produce
<1>7. CASE \/ ToStdout \/ OpenTarget \/ FillTarget \/ TargetWriteFails \/ SomebodyWrites
           \/ UNCHANGED importVars
  BY <1>3, <1>4, <1>7 DEF ToStdout, OpenTarget, FillTarget, TargetWriteFails, SomebodyWrites,
     Reject, reading, importVars
<1> QED
  BY <1>1, <1>2, <1>5, <1>6, <1>7 DEF ImportNext, Include, Extend

\* What a service defined by a file itself is to extends.
LEMMA DefinedFacts ==
  ASSUME Grounded, stage = "extend", NEW key \in Defined
  PROVE  /\ DefinitionOf(key) = Own(key[1])[key[2]]
         /\ DefinitionOf(key).extends = Extends(key) /\ ParentOf(key) = Extended(key)
<1>1. key[2] \in DOMAIN Own(key[1])
  BY DEF Defined
<1>2. DefinitionOf(key) = Own(key[1])[key[2]]
  BY <1>1 DEF Grounded, DefinitionOf, Body, Own
<1> QED
  BY <1>2 DEF Extends, Extended, ParentOf

\* When all services of a file are resolved, nothing they descend from was out of
\* place: all the way along, the parent of what is resolved is resolved.
LEMMA NoneAstray ==
  ASSUME MemoInv, Grounded, stage = "extend", Unresolved = {}
  PROVE  \A code \in ReadingCodes : ~ LeadsAstray(Top.file, code)
<1> SUFFICES ASSUME NEW c \in Lineages(Top.file), NEW e, e = Extends(Last(c)),
                    e.file \notin {None, Elsewhere}, e.service # None
             PROVE  ~ Escapes(e.file, Top.file) /\ Opened(e.file) # "import_compose_parse"
  BY DEF LeadsAstray
<1>1. PICK n \in 1 .. MaxIncludeDepth : c \in [1 .. n -> Defined]
  BY DEF Lineages
<1>2. n \in Nat \ {0}
  BY <1>1, ImportAssumption
<1>3. c \in Seq(Defined) /\ Len(c) = n /\ Last(c) = c[n]
  BY <1>1, <1>2 DEF Last
<1>4. /\ c[1][1] = Top.file
      /\ \A i \in 1 .. n - 1 : Extends(c[i]) # NoExtends /\ c[i + 1] = Extended(c[i])
  BY <1>3 DEF Lineages
<1>5. ASSUME NEW i \in 1 .. n
      PROVE  /\ DefinitionOf(c[i]).extends = Extends(c[i]) /\ ParentOf(c[i]) = Extended(c[i])
  BY <1>1, DefinedFacts
<1>6. ASSUME NEW i \in 1 .. n, c[i] \in DOMAIN memo, Extends(c[i]) # NoExtends
      PROVE  Extended(c[i]) \in DOMAIN memo
  <2>1. IsResolved(c[i])
    BY <1>6 DEF MemoInv
  <2> QED
    BY <1>5, <1>6, <2>1 DEF IsResolved
<1>7. c[1] \in DOMAIN memo
  <2>1. 1 \in 1 .. n /\ c[1] \in Defined
    BY <1>1, <1>2
  <2>2. c[1] \in Key /\ c[1][2] \in DOMAIN Own(c[1][1])
    BY <2>1 DEF Defined
  <2>3. c[1] = <<Top.file, c[1][2]>>
    BY <1>4, <2>2 DEF Key
  <2>4. c[1][2] \in DOMAIN Top.merged.services
    BY <1>4, <2>2 DEF Grounded
  <2> QED
    BY <2>3, <2>4 DEF Unresolved
<1>8. c[n] \in DOMAIN memo
  <2> DEFINE bad == {i \in 1 .. n : c[i] \notin DOMAIN memo}
  <2>1. bad \subseteq Nat
    OBVIOUS
  <2>2. SUFFICES ASSUME bad # {} PROVE FALSE
    BY <1>2
  <2>3. PICK i \in bad : \A j \in bad : i <= j
    BY <2>1, <2>2, LeastNumber
  <2>4. i \in 1 .. n /\ i # 1
    BY <1>7, <2>3
  <2>5. i - 1 \in 1 .. n - 1 /\ i - 1 \in 1 .. n /\ i - 1 + 1 = i /\ ~ (i <= i - 1)
    BY <1>2, <2>4
  <2>6. c[i - 1] \in DOMAIN memo
    BY <2>3, <2>5
  <2>7. Extended(c[i - 1]) \in DOMAIN memo /\ Extended(c[i - 1]) = c[i]
    BY <1>4, <1>6, <2>5, <2>6
  <2> QED
    BY <2>3, <2>7
<1>9. Extends(c[n]) # NoExtends /\ e = Extends(c[n]) /\ n \in 1 .. n
  BY <1>2, <1>3 DEF NoExtends
<1>10. Extended(c[n]) \in DOMAIN memo /\ Extended(c[n])[1] = e.file
  BY <1>6, <1>8, <1>9 DEF Extended
<1> QED
  BY <1>10 DEF Grounded, OnGround, Readable

-----------------------------------------------------------------------------
\* Which imports are refused.

LEMMA GraphSame ==
  ASSUME UNCHANGED <<project, order>>
  PROVE  /\ Primary' = Primary /\ Walks' = Walks
         /\ \A f : Readable(f)' <=> Readable(f)
         /\ \A f : NamedBy(f)' = NamedBy(f)
         /\ \A f, code : LeadsAstray(f, code)' <=> LeadsAstray(f, code)
         /\ \A code : Reason(code)' <=> Reason(code)
<1>1. \A f : /\ Opened(f)' = Opened(f) /\ (Readable(f)' <=> Readable(f))
             /\ NamedBy(f)' = NamedBy(f) /\ Own(f)' = Own(f)
  BY DEF Readable, Opened, NamedBy, Own
<1>2. Primary' = Primary
  BY DEF Primary, Discovered
<1>3. \A f, g : Follows(f, g)' <=> Follows(f, g)
  BY DEF Follows
<1>4. Walks' = Walks
  BY <1>1, <1>2, <1>3 DEF Walks
<1>5. \A key : Extends(key)' = Extends(key) /\ Extended(key)' = Extended(key)
  BY <1>1 DEF Extends, Extended
<1>6. \A f : Lineages(f)' = Lineages(f)
  <2>1. Defined' = Defined
    BY <1>1 DEF Defined
  <2> QED
    BY <1>5, <2>1 DEF Lineages
<1>7. \A f, code : LeadsAstray(f, code)' <=> LeadsAstray(f, code)
  BY <1>1, <1>5, <1>6 DEF LeadsAstray, Escapes
<1>8. \A code : Reason(code)' <=> Reason(code)
  <2>1. \A code : IncludeReason(code)' <=> IncludeReason(code)
    BY <1>1, <1>4 DEF IncludeReason, Escapes
  <2>2. \A code : ExtendsReason(code)' <=> ExtendsReason(code)
    BY <1>1, <1>4, <1>7 DEF ExtendsReason
  <2> QED
    BY <2>1, <2>2 DEF Reason
<1> QED
  BY <1>1, <1>2, <1>4, <1>7, <1>8

LEMMA WalkFacts ==
  ASSUME NEW w \in Walks
  PROVE  /\ Len(w) \in Nat /\ Len(w) \in 1 .. MaxIncludeDepth + 1 /\ DOMAIN w = 1 .. Len(w)
         /\ w \in [1 .. Len(w) -> ComposeFile] /\ w[1] = Primary /\ Last(w) = w[Len(w)]
         /\ \A i \in 1 .. Len(w) - 1 : Readable(w[i]) /\ Follows(w[i], w[i + 1])
<1>1. PICK n \in 1 .. MaxIncludeDepth + 1 : w \in [1 .. n -> ComposeFile]
  BY DEF Walks
<1>2. n \in Nat
  BY ImportAssumption
<1>3. w \in Seq(ComposeFile) /\ Len(w) = n
  BY <1>1, <1>2
<1> QED
  BY <1>1, <1>2, <1>3 DEF Walks, Last

LEMMA MakesWalk ==
  ASSUME NEW n \in 1 .. MaxIncludeDepth + 1, NEW w \in [1 .. n -> ComposeFile], w[1] = Primary,
         \A i \in 1 .. n - 1 : Readable(w[i]) /\ Follows(w[i], w[i + 1])
  PROVE  w \in Walks /\ Len(w) = n
<1>1. n \in Nat
  BY ImportAssumption
<1>2. Len(w) = n
  BY <1>1
<1> QED
  BY <1>2 DEF Walks

\* Every frame but the top one is at the include of the next.
Linked ==
  \A i \in 1 .. Len(stack) - 1 :
    /\ stack[i].next <= Len(stack[i].own.include)
    /\ stack[i].own.include[stack[i].next].kind = "path"
    /\ stack[i].own.include[stack[i].next].file = stack[i + 1].file
    /\ ~ Escapes(stack[i + 1].file, stack[i].file)

\* A walk that begins the way the first i frames do.
OnPath(w, i) == Len(w) >= i /\ \A k \in 1 .. i : w[k] = stack[k].file

\* No reason to refuse anything at the end of this walk.
Clean(w) ==
  /\ Readable(Last(w)) /\ Simple(w) /\ Len(w) <= MaxIncludeDepth
  /\ \A e \in NamedBy(Last(w)) : e.kind = "path" /\ ~ Escapes(e.file, Last(w))
  /\ \A code \in ReadingCodes : ~ LeadsAstray(Last(w), code)

\* Nor anywhere beyond include e of frame i.
Passed(i, e) ==
  /\ e.kind = "path" /\ ~ Escapes(e.file, stack[i].file)
  /\ \A w \in Walks : OnPath(w, i) /\ Len(w) > i /\ w[i + 1] = e.file => Clean(w)

Explored ==
  \A i \in 1 .. Len(stack) : \A j \in 1 .. Len(stack[i].own.include) :
    j < stack[i].next => Passed(i, stack[i].own.include[j])

\* What has been read so far is clean, and the stack is a walk.
VerdictInv ==
  /\ ReadingInv
  /\ stack # <<>> => stack[1].file = Primary
  /\ Linked /\ Explored
  /\ stage = "extend" => Top.next > Len(Top.own.include)
  /\ stage = "translate" => \A w \in Walks : Clean(w)

\* What each file on the stack is to the walks.
LEMMA FrameFacts ==
  ASSUME VerdictInv, NEW i \in 1 .. Len(stack)
  PROVE  /\ stack[i].file \in ComposeFile /\ Readable(stack[i].file)
         /\ stack[i].own = project.files[stack[i].file]
         /\ NamedBy(stack[i].file) = Range(stack[i].own.include)
         /\ DOMAIN stack[i].own.include = 1 .. Len(stack[i].own.include)
         /\ Len(stack[i].own.include) \in Nat /\ stack[i].next \in Nat \ {0}
<1>1. IsFrame(stack[i], project) /\ project \in Projects
  BY DEF VerdictInv, ReadingInv
<1>2. Readable(stack[i].file)
  BY <1>1 DEF Readable, Opened, IsFrame, Parses
<1>3. stack[i].own.include \in Seq(Range(stack[i].own.include))
  BY <1>1, ImportAssumption DEF IncludesFiles, IsFrame, Parses
<1> QED
  BY <1>1, <1>2, <1>3 DEF NamedBy, IsFrame

LEMMA StackFollows ==
  ASSUME VerdictInv, NEW i \in 1 .. Len(stack) - 1
  PROVE  Follows(stack[i].file, stack[i + 1].file)
<1>1. Len(stack) \in Nat
  BY AnySeq DEF VerdictInv, ReadingInv, IsSeq
<1>2. i \in 1 .. Len(stack)
  BY <1>1
<1>3. /\ stack[i].own = project.files[stack[i].file]
      /\ DOMAIN stack[i].own.include = 1 .. Len(stack[i].own.include)
      /\ Len(stack[i].own.include) \in Nat /\ stack[i].next \in Nat \ {0}
  BY <1>2, FrameFacts
<1>4. stack[i].next \in DOMAIN stack[i].own.include
  BY <1>3 DEF VerdictInv, Linked
<1>5. stack[i].own.include[stack[i].next] \in Range(project.files[stack[i].file].include)
  BY <1>3, <1>4 DEF Range
<1> QED
  BY <1>5 DEF VerdictInv, Linked, Follows

\* The files on the stack are a walk, and so they are with one more they name.
LEMMA StackIsWalk ==
  ASSUME VerdictInv, stack # <<>>
  PROVE  \E w \in Walks : Len(w) = Len(stack) /\ \A k \in 1 .. Len(stack) : w[k] = stack[k].file
<1> DEFINE n == Len(stack)
           w == [k \in 1 .. n |-> stack[k].file]
<1>1. n \in Nat \ {0} /\ n <= MaxIncludeDepth
  BY TopFrame DEF VerdictInv, ReadingInv, IncludesStayInside
<1>2. w \in [1 .. n -> ComposeFile]
  BY FrameFacts
<1>3. \A k \in 1 .. n : w[k] = stack[k].file
  OBVIOUS
<1>4. \A i \in 1 .. n - 1 : Readable(stack[i].file) /\ Follows(stack[i].file, stack[i + 1].file)
  BY <1>1, FrameFacts, StackFollows
<1>5. \A i \in 1 .. n - 1 : i \in 1 .. n /\ i + 1 \in 1 .. n
  BY <1>1
<1>6. 1 \in 1 .. n /\ stack[1].file = Primary /\ n \in 1 .. MaxIncludeDepth + 1
  BY <1>1, ImportAssumption DEF VerdictInv
<1> HIDE DEF w
<1>7. w \in Walks /\ Len(w) = n
  BY <1>2, <1>3, <1>4, <1>5, <1>6, MakesWalk
<1> QED
  BY <1>3, <1>7

LEMMA StackLeadsTo ==
  ASSUME VerdictInv, stack # <<>>, NEW f \in ComposeFile, Follows(Top.file, f)
  PROVE  \E w \in Walks : /\ Len(w) = Len(stack) + 1 /\ w[Len(stack) + 1] = f
                          /\ \A k \in 1 .. Len(stack) : w[k] = stack[k].file
<1> DEFINE n == Len(stack)
           w == [k \in 1 .. n + 1 |-> IF k = n + 1 THEN f ELSE stack[k].file]
<1>1. n \in Nat \ {0} /\ n <= MaxIncludeDepth /\ Top = stack[n]
  BY TopFrame DEF VerdictInv, ReadingInv, IncludesStayInside
<1>3. w[n + 1] = f /\ \A k \in 1 .. n : w[k] = stack[k].file
  BY <1>1
<1>8. \A k \in 1 .. n + 1 : k \in 1 .. n \/ k = n + 1
  BY <1>1
<1>2. w \in [1 .. n + 1 -> ComposeFile]
  BY <1>8, FrameFacts
<1>4. \A i \in 1 .. n : Readable(stack[i].file)
  BY FrameFacts
<1>9. \A i \in 1 .. n - 1 : Follows(stack[i].file, stack[i + 1].file)
  BY StackFollows
<1> HIDE DEF w
<1>5. \A i \in 1 .. n : Readable(w[i]) /\ Follows(w[i], w[i + 1])
  <2> SUFFICES ASSUME NEW i \in 1 .. n PROVE Readable(w[i]) /\ Follows(w[i], w[i + 1])
    OBVIOUS
  <2>1. CASE i = n
    BY <2>1, <1>1, <1>3, <1>4
  <2>2. CASE i # n
    <3>1. i \in 1 .. n - 1 /\ i + 1 \in 1 .. n
      BY <2>2, <1>1
    <3> QED
      BY <3>1, <1>3, <1>4, <1>9
  <2> QED
    BY <2>1, <2>2
<1>6. 1 \in 1 .. n /\ stack[1].file = Primary /\ n + 1 \in 1 .. MaxIncludeDepth + 1 /\ n + 1 - 1 = n
  BY <1>1, ImportAssumption DEF VerdictInv
<1>7. w \in Walks /\ Len(w) = n + 1
  <2> DEFINE m == n + 1
  <2>1. /\ m \in 1 .. MaxIncludeDepth + 1 /\ w \in [1 .. m -> ComposeFile] /\ w[1] = Primary
        /\ \A i \in 1 .. m - 1 : Readable(w[i]) /\ Follows(w[i], w[i + 1])
    BY <1>2, <1>3, <1>5, <1>6
  <2> HIDE DEF m
  <2>2. w \in Walks /\ Len(w) = m
    BY <2>1, MakesWalk
  <2> QED
    BY <2>2 DEF m
<1> QED
  BY <1>3, <1>7

\* Refusals while includes are read have their reason.
LEMMA OpenGivesReason ==
  ASSUME VerdictInv, NEW f \in ComposeFile, Opened(f) # "ok",
         IF stack = <<>> THEN f = Primary ELSE Follows(Top.file, f)
  PROVE  IncludeReason(Opened(f))
<1>1. PICK w \in Walks : Last(w) = f
  <2>1. CASE stack = <<>>
    <3> DEFINE w == [i \in 1 .. 1 |-> f]
    <3>1. w \in [1 .. 1 -> ComposeFile] /\ w[1] = f /\ 1 \in 1 .. MaxIncludeDepth + 1
      BY ImportAssumption
    <3> HIDE DEF w
    <3>2. w \in Walks /\ Len(w) = 1
      <4>1. f = Primary /\ \A i \in 1 .. 1 - 1 : FALSE
        BY <2>1
      <4> QED
        BY <3>1, <4>1, MakesWalk
    <3> QED
      BY <3>1, <3>2 DEF Last
  <2>2. CASE stack # <<>>
    BY <2>2, StackLeadsTo DEF Last
  <2> QED
    BY <2>1, <2>2
<1>2. Opened(f) \in {"import_compose_file_not_found", "import_compose_parse"}
  BY DEF Opened
<1> QED
  BY <1>1, <1>2 DEF IncludeReason

\* What the top frame is at.
LEMMA IncludedFacts ==
  ASSUME VerdictInv, Including
  PROVE  /\ stack # <<>> /\ Included \in Range(Top.own.include)
         /\ NamedBy(Top.file) = Range(Top.own.include)
         /\ Inside => Follows(Top.file, Included.file) /\ Included.file \in ComposeFile
<1>1. stack # <<>> /\ project \in Projects
  BY DEF Including, VerdictInv, ReadingInv
<1>2. Len(stack) \in 1 .. Len(stack) /\ Top = stack[Len(stack)]
  BY <1>1, TopFrame DEF VerdictInv
<1>3. /\ Top.own = project.files[Top.file] /\ NamedBy(Top.file) = Range(Top.own.include)
      /\ DOMAIN Top.own.include = 1 .. Len(Top.own.include)
      /\ Len(Top.own.include) \in Nat /\ Top.next \in Nat \ {0}
  BY <1>2, FrameFacts
<1>4. Top.next \in DOMAIN Top.own.include
  BY <1>3 DEF Including
<1>5. Included \in Range(Top.own.include)
  BY <1>4 DEF Included, Range
<1>6. IncludesFiles(Top.own)
  BY <1>1, <1>2, ImportAssumption DEF VerdictInv, ReadingInv, IsFrame, Parses
<1>7. Inside => Follows(Top.file, Included.file) /\ Included.file \in ComposeFile
  BY <1>3, <1>5, <1>6 DEF Inside, Local, Follows, IncludesFiles
<1> QED
  BY <1>1, <1>3, <1>5, <1>7

LEMMA IncludeGivesReason ==
  ASSUME VerdictInv
  PROVE  /\ IncludeUnsupported => IncludeReason("import_include_unsupported")
         /\ IncludeEscapes => IncludeReason("import_include_path_escape")
         /\ IncludeCycle => IncludeReason("import_include_cycle")
         /\ IncludeTooDeep => IncludeReason("import_include_depth")
<1>1. ASSUME stack # <<>>
      PROVE  \E w \in Walks : Last(w) = Top.file
  <2>1. Top = stack[Len(stack)] /\ Len(stack) \in 1 .. Len(stack)
    BY <1>1, TopFrame DEF VerdictInv
  <2> QED
    BY <1>1, <2>1, StackIsWalk DEF Last
<1>2. ASSUME IncludeUnsupported PROVE IncludeReason("import_include_unsupported")
  <2>1. Including /\ Included.kind = "url"
    BY <1>2 DEF IncludeUnsupported
  <2>2. stack # <<>> /\ Included \in NamedBy(Top.file)
    BY <2>1, IncludedFacts
  <2> QED
    BY <1>1, <2>1, <2>2 DEF IncludeReason
<1>3. ASSUME IncludeEscapes PROVE IncludeReason("import_include_path_escape")
  <2>1. Including /\ Included.kind = "path" /\ Escapes(Included.file, Top.file)
    BY <1>3 DEF IncludeEscapes, Local
  <2>2. stack # <<>> /\ Included \in NamedBy(Top.file)
    BY <2>1, IncludedFacts
  <2> QED
    BY <1>1, <2>1, <2>2 DEF IncludeReason
<1>4. ASSUME Inside
      PROVE  /\ stack # <<>> /\ Len(stack) \in Nat /\ DOMAIN stack = 1 .. Len(stack)
             /\ Len(stack) <= MaxIncludeDepth
             /\ \E w \in Walks : /\ Len(w) = Len(stack) + 1 /\ w[Len(stack) + 1] = Included.file
                                 /\ \A k \in 1 .. Len(stack) : w[k] = stack[k].file
  <2>1. Including
    BY <1>4 DEF Inside, Local
  <2>2. stack # <<>> /\ Follows(Top.file, Included.file) /\ Included.file \in ComposeFile
    BY <1>4, <2>1, IncludedFacts
  <2> QED
    BY <2>2, TopFrame, StackLeadsTo DEF VerdictInv, ReadingInv, IncludesStayInside
<1>5. ASSUME IncludeCycle PROVE IncludeReason("import_include_cycle")
  <2>1. Inside /\ Included.file \in Ancestors
    BY <1>5 DEF IncludeCycle
  <2>2. PICK w \in Walks : /\ Len(w) = Len(stack) + 1 /\ w[Len(stack) + 1] = Included.file
                           /\ \A k \in 1 .. Len(stack) : w[k] = stack[k].file
    BY <1>4, <2>1
  <2>3. PICK k \in 1 .. Len(stack) : stack[k].file = Included.file
    BY <1>4, <2>1 DEF Ancestors
  <2>4. DOMAIN w = 1 .. Len(w)
    BY WalkFacts
  <2>5. k \in DOMAIN w /\ Len(stack) + 1 \in DOMAIN w /\ k # Len(stack) + 1
    BY <1>4, <2>1, <2>2, <2>4
  <2>6. ~ Simple(w)
    BY <2>2, <2>3, <2>5 DEF Simple
  <2> QED
    BY <2>6 DEF IncludeReason
<1>6. ASSUME IncludeTooDeep PROVE IncludeReason("import_include_depth")
  <2>1. Inside /\ Included.file \notin Ancestors /\ TooDeep
    BY <1>6 DEF IncludeTooDeep
  <2>2. PICK w \in Walks : /\ Len(w) = Len(stack) + 1 /\ w[Len(stack) + 1] = Included.file
                           /\ \A k \in 1 .. Len(stack) : w[k] = stack[k].file
    BY <1>4, <2>1
  <2>3. Len(w) = MaxIncludeDepth + 1
    BY <1>4, <2>1, <2>2, ImportAssumption DEF TooDeep
  <2>4. \A i \in DOMAIN w : i \in 1 .. Len(stack) \/ i = Len(stack) + 1
    BY <1>4, <2>1, <2>2, WalkFacts
  <2>5. \A k \in 1 .. Len(stack) : stack[k].file # Included.file
    BY <1>4, <2>1 DEF Ancestors
  <2>6. Simple(w)
    BY <2>2, <2>4, <2>5 DEF Simple, VerdictInv, ReadingInv, IncludesStayInside
  <2> QED
    BY <2>3, <2>6 DEF IncludeReason
<1> QED
  BY <1>2, <1>3, <1>5, <1>6

\* A file with its includes and its services read is clean, and everything beyond it.
LEMMA CompletedIsClean ==
  ASSUME VerdictInv, stack # <<>>, Top.next > Len(Top.own.include),
         \A code \in ReadingCodes : ~ LeadsAstray(Top.file, code),
         NEW w \in Walks, OnPath(w, Len(stack))
  PROVE  Clean(w)
<1> DEFINE n == Len(stack)
<1>1. n \in Nat \ {0} /\ n \in 1 .. n /\ Top = stack[n] /\ n <= MaxIncludeDepth
  BY TopFrame DEF VerdictInv, ReadingInv, IncludesStayInside
<1>2. /\ Len(w) \in Nat /\ DOMAIN w = 1 .. Len(w) /\ Last(w) = w[Len(w)]
      /\ \A i \in 1 .. Len(w) - 1 : Readable(w[i]) /\ Follows(w[i], w[i + 1])
  BY WalkFacts
<1>3. Len(w) >= n /\ \A k \in 1 .. n : w[k] = stack[k].file
  BY DEF OnPath
<1>4. /\ Readable(Top.file) /\ Top.own = project.files[Top.file]
      /\ NamedBy(Top.file) = Range(Top.own.include)
      /\ DOMAIN Top.own.include = 1 .. Len(Top.own.include) /\ Len(Top.own.include) \in Nat
      /\ Top.next \in Nat \ {0}
  BY <1>1, FrameFacts
<1>5. \A e \in Range(Top.own.include) : Passed(n, e)
  <2> SUFFICES ASSUME NEW j \in DOMAIN Top.own.include PROVE Passed(n, Top.own.include[j])
    BY DEF Range
  <2>1. j \in 1 .. Len(stack[n].own.include) /\ j < stack[n].next
    BY <1>1, <1>4
  <2> QED
    BY <2>1, <1>1 DEF VerdictInv, Explored
<1>6. CASE Len(w) = n
  <2>1. Last(w) = Top.file
    BY <1>1, <1>2, <1>3, <1>6
  <2>2. Simple(w)
    BY <1>2, <1>3, <1>6 DEF Simple, VerdictInv, ReadingInv, IncludesStayInside
  <2> QED
    BY <2>1, <2>2, <1>1, <1>4, <1>5, <1>6 DEF Clean, Passed
<1>7. CASE Len(w) > n
  <2>1. Follows(w[n], w[n + 1]) /\ w[n] = Top.file
    BY <1>1, <1>2, <1>3, <1>7
  <2>2. PICK e \in Range(Top.own.include) : e.file = w[n + 1]
    BY <2>1, <1>4 DEF Follows
  <2> QED
    BY <2>2, <1>5, <1>7 DEF Passed
<1> QED
  BY <1>1, <1>2, <1>3, <1>6, <1>7

LEMMA VerdictStarts == ImportInit => VerdictInv
<1> SUFFICES ASSUME ImportInit PROVE VerdictInv
  OBVIOUS
<1>1. stack = <<>> /\ stage = "begin" /\ outcome = None
  BY DEF ImportInit
<1>2. Len(stack) = 0
  BY <1>1
<1>3. Linked /\ Explored
  BY <1>2 DEF Linked, Explored
<1> QED
  BY <1>1, <1>3, ReadingStarts DEF VerdictInv

\* What lies beyond an include that has been read stays clean.
LEMMA PassedSame ==
  ASSUME VerdictInv, UNCHANGED <<project, order>>, NEW i \in 1 .. Len(stack),
         \A k \in 1 .. i : stack'[k].file = stack[k].file, stack'[i].own = stack[i].own,
         NEW j, Passed(i, stack[i].own.include[j])
  PROVE  Passed(i, stack[i].own.include[j])'
<1>1. i \in 1 .. i
  BY AnySeq DEF VerdictInv, ReadingInv, IsSeq
<1>2. \A w : OnPath(w, i)' <=> OnPath(w, i)
  BY DEF OnPath
<1>3. Walks' = Walks /\ \A w : Clean(w)' <=> Clean(w)
  BY GraphSame DEF Clean
<1> QED
  BY <1>1, <1>2, <1>3 DEF Passed

\* A step that leaves the stack as it is, as far as the walks are concerned.
LEMMA FramesSame ==
  ASSUME VerdictInv, ReadingInv', UNCHANGED <<project, order>>, Len(stack') = Len(stack),
         \A i \in 1 .. Len(stack) : /\ stack'[i].file = stack[i].file
                                    /\ stack'[i].own = stack[i].own
                                    /\ stack'[i].next = stack[i].next
  PROVE  /\ stack' # <<>> => stack'[1].file = Primary'
         /\ Linked' /\ Explored'
         /\ stack # <<>> => Top'.next = Top.next /\ Top'.own = Top.own
<1>1. Len(stack) \in Nat /\ IsSeq(stack) /\ IsSeq(stack')
  BY AnySeq DEF VerdictInv, ReadingInv, IsSeq
<1>2. stack # <<>> <=> Len(stack) # 0
  BY <1>1 DEF IsSeq
<1>3. stack' # <<>> <=> Len(stack') # 0
  BY <1>1 DEF IsSeq
<1>4. \A i \in 1 .. Len(stack) - 1 : i \in 1 .. Len(stack) /\ i + 1 \in 1 .. Len(stack)
  BY <1>1
<1>5. Linked'
  BY <1>4 DEF VerdictInv, Linked, Escapes
<1>6. Explored'
  <2> SUFFICES ASSUME NEW i \in 1 .. Len(stack), NEW j \in 1 .. Len(stack[i].own.include),
                      j < stack[i].next
               PROVE  Passed(i, stack[i].own.include[j])'
    BY DEF Explored
  <2>1. Passed(i, stack[i].own.include[j])
    BY DEF VerdictInv, Explored
  <2>2. \A k \in 1 .. i : stack'[k].file = stack[k].file
    BY <1>1
  <2>3. stack'[i].own = stack[i].own
    OBVIOUS
  <2> QED
    BY <2>1, <2>2, <2>3, PassedSame
<1>7. stack' # <<>> => stack'[1].file = Primary'
  <2>1. stack' # <<>> => 1 \in 1 .. Len(stack) /\ stack # <<>>
    BY <1>1, <1>2, <1>3
  <2> QED
    BY <2>1, GraphSame DEF VerdictInv
<1>8. stack # <<>> => Top'.next = Top.next /\ Top'.own = Top.own
  <2>1. stack # <<>> => Len(stack) \in 1 .. Len(stack)
    BY <1>1, <1>2
  <2> QED
    BY <2>1 DEF Top, Last
<1> QED
  BY <1>5, <1>6, <1>7, <1>8

\* A step that reads nothing.
LEMMA NothingMore ==
  ASSUME VerdictInv, ReadingInv', UNCHANGED <<project, order, stack>>,
         stage' # stage => stage' \in {"write", "fill", "end"}
  PROVE  VerdictInv'
<1>1. /\ stack' # <<>> => stack'[1].file = Primary'
      /\ Linked' /\ Explored'
  BY FramesSame
<1>2. stage' = "extend" => Top'.next > Len(Top'.own.include)
  BY DEF VerdictInv, Top
<1>3. stage' = "translate" => (\A w \in Walks : Clean(w))'
  BY GraphSame DEF VerdictInv, Clean
<1> QED
  BY <1>1, <1>2, <1>3 DEF VerdictInv

\* A file is opened, or cannot be.
LEMMA OpenVerdict ==
  ASSUME VerdictInv, ReadingInv', NEW f \in ComposeFile, Open(f),
         stack = <<>> => f = Primary,
         stack # <<>> => Inside /\ f = Included.file
  PROVE  VerdictInv'
<1>1. CASE Opened(f) # "ok"
  BY <1>1, NothingMore DEF Open, Reject, reading
<1>2. CASE Opened(f) = "ok"
  <2> DEFINE x == Frame(f, project.files[f])
             n == Len(stack)
  <2>1. /\ stack' = Append(stack, x) /\ stage' = "include"
        /\ project' = project /\ order' = order
    BY <1>2 DEF Open
  <2>2. x.file = f /\ x.next = 1
    BY DEF Frame
  <2> HIDE DEF x
  <2>3. /\ Len(stack') = n + 1 /\ n \in Nat
        /\ \A i \in 1 .. n : stack'[i] = stack[i]
        /\ stack'[n + 1] = x
    BY <2>1, Appended DEF VerdictInv, ReadingInv
  <2>4. \A i \in 1 .. Len(stack') : i \in 1 .. n \/ i = n + 1
    BY <2>3
  <2>5. stack'[1].file = Primary'
    <3>1. CASE n = 0
      <4>1. stack = <<>>
        BY <3>1 DEF VerdictInv, ReadingInv, IsSeq
      <4> QED
        BY <3>1, <4>1, <2>1, <2>2, <2>3, GraphSame
    <3>2. CASE n # 0
      <4>1. stack # <<>> /\ 1 \in 1 .. n
        BY <3>2, <2>3
      <4> QED
        BY <4>1, <2>1, <2>3, GraphSame DEF VerdictInv
    <3> QED
      BY <3>1, <3>2
  <2>6. Linked'
    <3>1. ASSUME n # 0
          PROVE  /\ stack[n].next <= Len(stack[n].own.include)
                 /\ stack[n].own.include[stack[n].next].kind = "path"
                 /\ stack[n].own.include[stack[n].next].file = f
                 /\ ~ Escapes(f, stack[n].file)
      <4>1. stack # <<>>
        BY <3>1
      <4> QED
        BY <4>1, TopFrame DEF Inside, Local, Including, Included, VerdictInv
    <3>2. \A i \in 1 .. Len(stack') - 1 :
            \/ i \in 1 .. n - 1 /\ i \in 1 .. n /\ i + 1 \in 1 .. n
            \/ i = n /\ n \in 1 .. n /\ n # 0
      BY <2>3
    <3> SUFFICES ASSUME NEW i \in 1 .. Len(stack') - 1
                 PROVE  /\ stack'[i].next <= Len(stack'[i].own.include)
                        /\ stack'[i].own.include[stack'[i].next].kind = "path"
                        /\ stack'[i].own.include[stack'[i].next].file = stack'[i + 1].file
                        /\ ~ Escapes(stack'[i + 1].file, stack'[i].file)
      BY DEF Linked, Escapes
    <3>3. CASE i \in 1 .. n - 1
      <4>1. i \in 1 .. n /\ i + 1 \in 1 .. n
        BY <3>2, <3>3, <2>3
      <4>2. stack'[i] = stack[i] /\ stack'[i + 1] = stack[i + 1]
        BY <2>3, <4>1
      <4> QED
        BY <3>3, <4>2 DEF VerdictInv, Linked
    <3>4. CASE i = n /\ n \in 1 .. n /\ n # 0
      <4>1. stack'[i] = stack[n] /\ stack'[i + 1].file = f
        BY <2>2, <2>3, <3>4
      <4> QED
        BY <3>1, <3>4, <4>1
    <3> QED
      BY <3>2, <3>3, <3>4
  <2>7. Explored'
    <3> SUFFICES ASSUME NEW i \in 1 .. Len(stack'), NEW j \in 1 .. Len(stack'[i].own.include),
                        j < stack'[i].next
                 PROVE  Passed(i, stack[i].own.include[j])'
      BY DEF Explored
    <3>1. i \in 1 .. n
      BY <2>2, <2>3, <2>4
    <3>2. stack'[i] = stack[i] /\ \A k \in 1 .. i : stack'[k].file = stack[k].file
      BY <2>3, <3>1
    <3>3. Passed(i, stack[i].own.include[j])
      BY <3>1, <3>2 DEF VerdictInv, Explored
    <3> QED
      BY <2>1, <3>1, <3>2, <3>3, PassedSame
  <2> QED
    BY <2>1, <2>5, <2>6, <2>7 DEF VerdictInv
<1> QED
  BY <1>1, <1>2

\* The top file is read, and included by the one below.
LEMMA FileDoneVerdict ==
  ASSUME VerdictInv, MemoInv, Grounded, ReadingInv', FileDone
  PROVE  VerdictInv'
<1> DEFINE m == Len(stack)
           n == Len(stack) - 1
<1>1. /\ stage = "extend" /\ stage' = "include" /\ m > 1
      /\ UNCHANGED <<project, order>>
  BY DEF FileDone
<1>11. \A code \in ReadingCodes : ~ LeadsAstray(Top.file, code)
  BY NoneAstray DEF FileDone
<1>2. stack # <<>> /\ Top.next > Len(Top.own.include)
  BY <1>1 DEF VerdictInv, ReadingInv
<1>3. m \in Nat /\ n \in Nat \ {0} /\ n + 1 = m /\ n \in 1 .. m
  BY <1>1, <1>2, TopFrame DEF VerdictInv
<1>4. stack' = [i \in 1 .. n |-> IF i < n THEN stack[i]
                  ELSE [stack[i] EXCEPT !.merged = Overlay(@, Resolved), !.next = @ + 1]]
  BY DEF FileDone
<1> HIDE DEF n
<1>5. /\ \A i \in 1 .. n : stack'[i].file = stack[i].file /\ stack'[i].own = stack[i].own
      /\ \A i \in 1 .. n - 1 : stack'[i] = stack[i]
      /\ stack'[n].next = stack[n].next + 1
  <2>1. \A i \in 1 .. n - 1 : i \in 1 .. n /\ i < n
    BY <1>3
  <2>2. n \in 1 .. n /\ ~ (n < n)
    BY <1>3
  <2>3. \A i \in 1 .. n : i \in 1 .. n - 1 \/ i = n
    BY <1>3
  <2>4. IsFrame(stack[n], project)
    BY <1>3 DEF VerdictInv, ReadingInv
  <2>5. \A i \in 1 .. n - 1 : stack'[i] = stack[i]
    BY <1>4, <2>1
  <2>6. stack'[n] = [stack[n] EXCEPT !.merged = Overlay(@, Resolved), !.next = @ + 1]
    BY <1>4, <2>2
  <2>7. /\ stack'[n].file = stack[n].file /\ stack'[n].own = stack[n].own
        /\ stack'[n].next = stack[n].next + 1
    BY <2>4, <2>6 DEF IsFrame
  <2> QED
    BY <2>3, <2>5, <2>7
<1>6. Len(stack') = n
  <2>1. n \in Nat /\ stack' \in [1 .. n -> Range(stack')]
    BY <1>3, <1>4 DEF Range
  <2> QED
    BY <2>1
<1> HIDE DEF m
<1>7. Linked'
  <2>1. \A i \in 1 .. n - 1 : i \in 1 .. n /\ i + 1 \in 1 .. n /\ i \in 1 .. m - 1
    BY <1>3
  <2> QED
    <3>1. \A i \in 1 .. n - 1 :
            /\ stack[i].next <= Len(stack[i].own.include)
            /\ stack[i].own.include[stack[i].next].kind = "path"
            /\ stack[i].own.include[stack[i].next].file = stack[i + 1].file
            /\ ~ Escapes(stack[i + 1].file, stack[i].file)
      BY <2>1 DEF VerdictInv, Linked, m
    <3>2. \A i \in 1 .. n - 1 : stack'[i] = stack[i] /\ stack'[i + 1].file = stack[i + 1].file
      BY <1>5, <2>1
    <3> QED
      BY <3>1, <3>2, <1>6 DEF Linked, Escapes
<1>8. Explored'
  <2> SUFFICES ASSUME NEW i \in 1 .. n, NEW j \in 1 .. Len(stack'[i].own.include),
                      j < stack'[i].next
               PROVE  Passed(i, stack[i].own.include[j])'
    BY <1>6 DEF Explored
  <2> DEFINE e == stack[i].own.include[j]
  <2>1. i \in 1 .. m /\ i \in 1 .. Len(stack)
    BY <1>3 DEF m
  <2>2. stack'[i].own = stack[i].own /\ \A k \in 1 .. i : stack'[k].file = stack[k].file
    BY <1>3, <1>5
  <2>3. stack[i].next \in Nat
    BY <2>1, FrameFacts
  <2>4. CASE j < stack[i].next
    <3>1. Passed(i, e)
      BY <2>1, <2>2, <2>4 DEF VerdictInv, Explored
    <3> QED
      BY <1>1, <2>1, <2>2, <3>1, PassedSame
  <2>5. CASE ~ (j < stack[i].next)
    <3>1. i = n /\ j = stack[n].next
      BY <1>3, <1>5, <2>3, <2>5
    <3>2. e.kind = "path" /\ e.file = stack[m].file /\ ~ Escapes(e.file, stack[i].file)
      <4>1. n \in 1 .. Len(stack) - 1
        BY <1>3 DEF m, n
      <4> QED
        BY <3>1, <4>1, <1>3 DEF VerdictInv, Linked
    <3>3. ASSUME NEW w \in Walks, OnPath(w, i), Len(w) > i, w[i + 1] = e.file
          PROVE  Clean(w)
      <4>1. \A k \in 1 .. m : k \in 1 .. n \/ k = m
        BY <1>3
      <4>2. Len(w) \in Nat
        BY WalkFacts
      <4>3. OnPath(w, m)
        BY <1>3, <3>1, <3>2, <3>3, <4>1, <4>2 DEF OnPath
      <4> QED
        BY <1>2, <1>11, <4>3, CompletedIsClean DEF m
    <3>4. Passed(i, e)
      BY <3>2, <3>3 DEF Passed
    <3> QED
      BY <1>1, <2>1, <2>2, <3>4, PassedSame
  <2> QED
    BY <2>4, <2>5
<1>9. stack'[1].file = Primary'
  <2>1. 1 \in 1 .. n
    BY <1>3
  <2> QED
    BY <1>1, <1>2, <1>5, <2>1, GraphSame DEF VerdictInv
<1> QED
  BY <1>1, <1>7, <1>8, <1>9 DEF VerdictInv

\* The primary is read: every walk begins with it.
LEMMA LoadDoneVerdict ==
  ASSUME VerdictInv, MemoInv, Grounded, ReadingInv', LoadDone
  PROVE  VerdictInv'
<1>1. /\ stage = "extend" /\ stage' = "translate" /\ Len(stack) = 1
      /\ UNCHANGED <<project, order>>
      /\ stack' = <<[Top EXCEPT !.merged = Resolved]>>
  BY DEF LoadDone
<1>9. \A code \in ReadingCodes : ~ LeadsAstray(Top.file, code)
  BY NoneAstray DEF LoadDone
<1>2. stack # <<>> /\ Top.next > Len(Top.own.include)
  BY <1>1 DEF VerdictInv, ReadingInv
<1>3. IsFrame(Top, project) /\ Top = stack[1]
  BY <1>1, <1>2, TopFrame DEF VerdictInv
<1>4. /\ Len(stack') = 1 /\ stack'[1].file = stack[1].file
      /\ stack'[1].own = stack[1].own /\ stack'[1].next = stack[1].next
  BY <1>1, <1>3 DEF IsFrame
<1>5. \A i \in 1 .. Len(stack) : i = 1
  BY <1>1
<1>6. (stack' # <<>> => stack'[1].file = Primary') /\ Linked' /\ Explored'
  BY <1>1, <1>4, <1>5, FramesSame
<1>7. ASSUME NEW w \in Walks PROVE Clean(w)
  <2>1. Len(w) >= 1 /\ w[1] = Primary
    BY WalkFacts
  <2>2. OnPath(w, Len(stack))
    BY <1>1, <1>2, <2>1 DEF OnPath, VerdictInv
  <2> QED
    BY <1>2, <1>9, <2>2, CompletedIsClean
<1>8. (\A w \in Walks : Clean(w))'
  <2>1. \A w : Clean(w)' <=> Clean(w)
    BY <1>1, GraphSame DEF Clean, Escapes
  <2> QED
    BY <1>1, <1>7, <2>1, GraphSame
<1> QED
  BY <1>1, <1>6, <1>8 DEF VerdictInv

\* Steps that change what is merged in the top frame.
LEMMA TopVerdict == VerdictInv /\ ReadingInv' /\ (OwnPartWins \/ Follow) => VerdictInv'
<1> SUFFICES ASSUME VerdictInv, ReadingInv', OwnPartWins \/ Follow PROVE VerdictInv'
  OBVIOUS
<1>1. /\ stage \in {"include", "extend"} /\ stage' = "extend" /\ UNCHANGED <<project, order>>
  BY DEF OwnPartWins, Follow, Following, Resolving
<1>2. stack # <<>>
  BY <1>1 DEF VerdictInv, ReadingInv
<1>3. /\ DOMAIN stack = 1 .. Len(stack) /\ Len(stack) \in Nat \ {0}
      /\ IsFrame(stack[Len(stack)], project) /\ Top = stack[Len(stack)]
  BY <1>2, TopFrame DEF VerdictInv
<1>4. PICK v : stack' = [stack EXCEPT ![Len(stack)] = [stack[Len(stack)] EXCEPT !.merged = v]]
  <2>1. CASE OwnPartWins
    BY <2>1 DEF OwnPartWins
  <2>2. CASE Follow
    BY <2>2 DEF Follow
  <2> QED
    BY <2>1, <2>2
<1>5. /\ Len(stack') = Len(stack)
      /\ \A i \in 1 .. Len(stack) : /\ stack'[i].file = stack[i].file
                                    /\ stack'[i].own = stack[i].own
                                    /\ stack'[i].next = stack[i].next
  <2> DEFINE n == Len(stack)
             y == [stack[n] EXCEPT !.merged = v]
             S == Range(stack) \cup {y}
  <2>1. y.file = stack[n].file /\ y.own = stack[n].own /\ y.next = stack[n].next
    BY <1>3 DEF IsFrame
  <2>2. n \in DOMAIN stack /\ stack' = [stack EXCEPT ![n] = y]
    BY <1>3, <1>4
  <2>3. stack \in Seq(S) /\ y \in S
    BY <1>3 DEF VerdictInv, ReadingInv, IsSeq
  <2> HIDE DEF n, y, S
  <2>4. stack'[n] = y /\ \A i \in DOMAIN stack : i # n => stack'[i] = stack[i]
    BY <2>2
  <2>5. Len(stack') = Len(stack)
    BY <1>3, <2>2, <2>3, ExceptSeq
  <2> QED
    BY <1>3, <2>1, <2>4, <2>5
<1>6. /\ stack' # <<>> => stack'[1].file = Primary'
      /\ Linked' /\ Explored' /\ Top'.next = Top.next /\ Top'.own = Top.own
  BY <1>1, <1>2, <1>5, FramesSame
<1>7. Top.next > Len(Top.own.include)
  BY <1>1 DEF OwnPartWins, Follow, Following, Resolving, VerdictInv
<1> QED
  BY <1>1, <1>6, <1>7 DEF VerdictInv

LEMMA VerdictInductive ==
  VerdictInv /\ MemoInv /\ Grounded /\ [ImportNext]_importVars => VerdictInv'
<1> SUFFICES ASSUME VerdictInv, MemoInv, Grounded, [ImportNext]_importVars PROVE VerdictInv'
  OBVIOUS
<1>0. ReadingInv'
  BY ReadingInductive DEF VerdictInv
<1>1. CASE TargetExists \/ TargetWriteFails \/ TranslateRefused \/ ExtendsRefused
  BY <1>0, <1>1, NothingMore DEF TargetExists, TargetWriteFails, TranslateRefused, ExtendsRefused,
     Reject, reading
<1>2. CASE UseTemplate \/ UseDockerfile \/ Translate
  BY <1>0, <1>2, NothingMore DEF UseTemplate, UseDockerfile, Translate, Reject, Produce, reading
<1>3. CASE OpenPrimary
  <2>1. stage = "begin" /\ Primary # None /\ Open(Primary)
    BY <1>3 DEF OpenPrimary, MayBegin
  <2>2. stack = <<>> /\ Primary \in ComposeFile
    BY <2>1, PrimaryIsFile DEF VerdictInv, ReadingInv
  <2> QED
    BY <1>0, <2>1, <2>2, OpenVerdict
<1>4. CASE Include
  <2>1. CASE IncludeUnsupported \/ IncludeEscapes \/ IncludeCycle \/ IncludeTooDeep
    BY <1>0, <2>1, NothingMore DEF IncludeUnsupported, IncludeEscapes, IncludeCycle, IncludeTooDeep,
       Reject, reading
  <2>2. CASE IncludeOpens
    <3>1. Inside /\ Open(Included.file) /\ Including
      BY <2>2 DEF IncludeOpens, Inside, Local
    <3>2. stack # <<>> /\ Included.file \in ComposeFile
      BY <3>1, IncludedFacts
    <3> QED
      BY <1>0, <3>1, <3>2, OpenVerdict
  <2> QED
    BY <1>0, <1>4, <2>1, <2>2, TopVerdict DEF Include
<1>5. CASE TakeService \/ StandsAlone \/ Inherit
  BY <1>0, <1>5, NothingMore DEF TakeService, StandsAlone, Inherit
<1>6. CASE ToStdout \/ OpenTarget \/ FillTarget \/ SomebodyWrites \/ UNCHANGED importVars
  BY <1>0, <1>6, NothingMore DEF ToStdout, OpenTarget, FillTarget, SomebodyWrites, importVars,
     reading
<1> QED
  BY <1>0, <1>1, <1>2, <1>3, <1>4, <1>5, <1>6, TopVerdict, FileDoneVerdict, LoadDoneVerdict
     DEF ImportNext, Extend

-----------------------------------------------------------------------------
\* Greatest numbers.

\* A set of numbers up to a bound has a greatest one, and Max names it.
LEMMA GreatestNumber ==
  ASSUME NEW n \in Nat, NEW S, S \subseteq 1 .. n, S # {}
  PROVE  Max(S) \in S /\ \A x \in S : x <= Max(S)
<1> DEFINE T == {n - x : x \in S}
<1>0. \A x \in S : n - x \in Nat
  OBVIOUS
<1>1. T \subseteq Nat /\ T # {}
  BY <1>0
<1> HIDE DEF T
<1>2. PICK t \in T : \A u \in T : t <= u
  BY <1>1, LeastNumber
<1>3. PICK x \in S : t = n - x
  BY DEF T
<1>4. \A y \in S : x >= y
  <2> SUFFICES ASSUME NEW y \in S PROVE x >= y
    OBVIOUS
  <2>1. n - y \in T
    BY DEF T
  <2>2. n - x <= n - y
    BY <1>2, <1>3, <2>1
  <2> QED BY <2>2
<1>5. \A y \in S : Max(S) >= y
  BY <1>4 DEF Max
<1>6. Max(S) \in S
  BY <1>4 DEF Max
<1> QED
  BY <1>5, <1>6

\* A number that none of a set exceeds is the one Max names.
LEMMA TheGreatest ==
  ASSUME NEW S, S \subseteq Int, NEW x \in S, \A y \in S : y <= x
  PROVE  Max(S) = x
<1>1. \A y \in S : x >= y
  OBVIOUS
<1>2. Max(S) \in S /\ \A y \in S : Max(S) >= y
  BY <1>1 DEF Max
<1>3. Max(S) >= x /\ x >= Max(S) /\ Max(S) \in Int
  BY <1>1, <1>2
<1> QED
  BY <1>3

-----------------------------------------------------------------------------
\* Lists that are joined.

Flattening(g, ss, n) == g = [i \in 1 .. n |-> IF i = 1 THEN ss[i] ELSE g[i - 1] \o ss[i]]

\* The recursion of FlattenSeq has a solution.
LEMMA FlattenSolves ==
  ASSUME NEW n \in Nat, n # 0, NEW ss
  PROVE  \E g : Flattening(g, ss, n)
<1> DEFINE Solves(g, k) == Flattening(g, ss, k)
           bad == {k \in 1 .. n : \A g : ~ Solves(g, k)}
<1>0. n \in 1 .. n /\ bad \subseteq Nat /\ \A k \in 1 .. n : k \in bad <=> \A g : ~ Solves(g, k)
  OBVIOUS
<1> HIDE DEF bad
<1> SUFFICES ASSUME bad # {} PROVE FALSE
  BY <1>0
<1>1. PICK k \in bad : k \in 1 .. n /\ \A m \in bad : k <= m
  BY <1>0, LeastNumber DEF bad
<1>2. CASE k = 1
  <2> DEFINE h == [i \in 1 .. 1 |-> ss[i]]
  <2>1. Solves(h, 1)
    BY DEF Flattening
  <2> HIDE DEF h
  <2> QED BY <1>0, <1>1, <1>2, <2>1
<1>3. CASE k # 1
  <2>1. k \in Nat /\ k - 1 \in 1 .. n /\ k - 1 \notin bad
    BY <1>1, <1>3
  <2>2. PICK g : Solves(g, k - 1)
    BY <1>0, <2>1
  <2> DEFINE last == g[k - 1] \o ss[k]
             h == [i \in 1 .. k |-> IF i = k THEN last ELSE g[i]]
  <2> HIDE DEF last
  <2>3. ASSUME NEW i \in 1 .. k PROVE h[i] = IF i = 1 THEN ss[i] ELSE h[i - 1] \o ss[i]
    <3>1. CASE i = k
      <4>1. k - 1 \in 1 .. k /\ k - 1 # k /\ h[k - 1] = g[k - 1]
        BY <1>3, <2>1
      <4> QED BY <4>1, <3>1, <1>3 DEF last
    <3>2. CASE i # k
      <4>1. i \in 1 .. k - 1 /\ h[i] = g[i]
        BY <3>2, <2>1
      <4>2. i # 1 => i - 1 \in 1 .. k /\ i - 1 # k /\ h[i - 1] = g[i - 1]
        BY <4>1, <2>1
      <4>3. g[i] = IF i = 1 THEN ss[i] ELSE g[i - 1] \o ss[i]
        BY <4>1, <2>2 DEF Flattening
      <4> QED BY <4>1, <4>2, <4>3
    <3> QED BY <3>1, <3>2
  <2>4. h = [i \in 1 .. k |-> h[i]]
    OBVIOUS
  <2> HIDE DEF h
  <2>5. Solves(h, k)
    BY <2>3, <2>4 DEF Flattening
  <2> QED BY <1>0, <1>1, <2>5
<1> QED BY <1>2, <1>3

\* What FlattenSeq names is the last value of a solution of its recursion.
LEMMA FlattenIs ==
  ASSUME NEW n \in Nat, n # 0, NEW ss, Len(ss) = n
  PROVE  \E g : Flattening(g, ss, n) /\ FlattenSeq(ss) = g[n]
<1> DEFINE g == CHOOSE g : Flattening(g, ss, n)
<1>1. FlattenSeq(ss) = g[n]
  BY DEF FlattenSeq, Flattening
<1>2. Flattening(g, ss, n)
  BY FlattenSolves
<1> QED
  BY <1>1, <1>2

\* One list more.
LEMMA FlattenOneMore ==
  ASSUME NEW n \in Nat, n # 0, NEW ss, Len(ss) = n, NEW tt, Len(tt) = n + 1,
         \A i \in 1 .. n : tt[i] = ss[i]
  PROVE  FlattenSeq(tt) = FlattenSeq(ss) \o tt[n + 1]
<1>1. PICK g : Flattening(g, ss, n) /\ FlattenSeq(ss) = g[n]
  BY FlattenIs
<1>2. PICK h : Flattening(h, tt, n + 1) /\ FlattenSeq(tt) = h[n + 1]
  BY FlattenIs
<1> DEFINE bad == {k \in 1 .. n : h[k] # g[k]}
<1>3. bad = {}
  <2> SUFFICES ASSUME bad # {} PROVE FALSE
    OBVIOUS
  <2>0. bad \subseteq Nat
    OBVIOUS
  <2> HIDE DEF bad
  <2>1. PICK k \in bad : \A m \in bad : k <= m
    BY <2>0, LeastNumber
  <2> USE DEF bad
  <2>2. k \in 1 .. n /\ k \in 1 .. n + 1 /\ h[k] # g[k]
    OBVIOUS
  <2>3. k # 1 => k - 1 \in 1 .. n /\ k - 1 \notin bad
    BY <2>1, <2>2
  <2>4. k # 1 => h[k - 1] = g[k - 1]
    BY <2>3
  <2> HIDE DEF bad
  <2>5. g[k] = IF k = 1 THEN ss[k] ELSE g[k - 1] \o ss[k]
    BY <1>1, <2>2 DEF Flattening
  <2>6. h[k] = IF k = 1 THEN tt[k] ELSE h[k - 1] \o tt[k]
    BY <1>2, <2>2 DEF Flattening
  <2> QED BY <2>2, <2>4, <2>5, <2>6
<1>4. h[n] = g[n]
  BY <1>3
<1> HIDE DEF bad
<1>5. h[n + 1] = h[n] \o tt[n + 1]
  <2>1. n + 1 \in 1 .. n + 1 /\ n + 1 # 1 /\ n + 1 - 1 = n
    OBVIOUS
  <2> DEFINE m == n + 1
  <2>2. m \in 1 .. m /\ m # 1 /\ m - 1 = n
    BY <2>1
  <2> HIDE DEF m
  <2>3. Flattening(h, tt, m)
    BY <1>2 DEF m
  <2>4. h[m] = h[m - 1] \o tt[m]
    BY <2>2, <2>3 DEF Flattening
  <2> QED BY <2>2, <2>4 DEF m
<1> QED
  BY <1>1, <1>2, <1>4, <1>5

\* One list, flattened, is itself.
LEMMA FlattenOne ==
  ASSUME NEW ss, Len(ss) = 1
  PROVE  FlattenSeq(ss) = ss[1]
<1>0. ASSUME NEW n \in Nat, n = 1
      PROVE  \E g : Flattening(g, ss, n) /\ FlattenSeq(ss) = g[n]
  BY <1>0, FlattenIs
<1>1. PICK g : Flattening(g, ss, 1) /\ FlattenSeq(ss) = g[1]
  BY <1>0
<1> QED
  BY <1>1 DEF Flattening
-----------------------------------------------------------------------------
\* Waiting lists that are merged.

Putting(g, all, n) == g = [i \in 0 .. n |-> IF i = 0 THEN <<>> ELSE Put(g[i - 1], all[i])]

\* The recursion by which entries are put one after another has a solution.
LEMMA PuttingSolves ==
  ASSUME NEW n \in Nat, NEW all
  PROVE  \E g : Putting(g, all, n)
<1> DEFINE Solves(g, k) == Putting(g, all, k)
           bad == {k \in 0 .. n : \A g : ~ Solves(g, k)}
<1>0. n \in 0 .. n /\ bad \subseteq Nat /\ \A k \in 0 .. n : k \in bad <=> \A g : ~ Solves(g, k)
  OBVIOUS
<1> HIDE DEF bad
<1> SUFFICES ASSUME bad # {} PROVE FALSE
  BY <1>0
<1>1. PICK k \in bad : k \in 0 .. n /\ \A m \in bad : k <= m
  BY <1>0, LeastNumber DEF bad
<1>2. CASE k = 0
  <2> DEFINE h == [i \in 0 .. 0 |-> <<>>]
  <2>1. Solves(h, 0)
    BY DEF Putting
  <2> HIDE DEF h
  <2> QED BY <1>0, <1>1, <1>2, <2>1
<1>3. CASE k # 0
  <2>1. k \in Nat /\ k - 1 \in 0 .. n /\ k - 1 \notin bad
    BY <1>1, <1>3
  <2>2. PICK g : Solves(g, k - 1)
    BY <1>0, <2>1
  <2> DEFINE last == Put(g[k - 1], all[k])
             h == [i \in 0 .. k |-> IF i = k THEN last ELSE g[i]]
  <2> HIDE DEF last
  <2>3. ASSUME NEW i \in 0 .. k PROVE h[i] = IF i = 0 THEN <<>> ELSE Put(h[i - 1], all[i])
    <3>1. CASE i = k
      <4>1. k - 1 \in 0 .. k /\ k - 1 # k /\ h[k - 1] = g[k - 1]
        BY <1>3, <2>1
      <4> QED BY <4>1, <3>1, <1>3 DEF last
    <3>2. CASE i # k
      <4>1. i \in 0 .. k - 1 /\ h[i] = g[i]
        BY <3>2, <2>1
      <4>2. i # 0 => i - 1 \in 0 .. k /\ i - 1 # k /\ h[i - 1] = g[i - 1]
        BY <4>1, <2>1
      <4>3. g[i] = IF i = 0 THEN <<>> ELSE Put(g[i - 1], all[i])
        BY <4>1, <2>2 DEF Putting
      <4> QED BY <4>1, <4>2, <4>3
    <3> QED BY <3>1, <3>2
  <2>4. h = [i \in 0 .. k |-> h[i]]
    OBVIOUS
  <2> HIDE DEF h
  <2>5. Solves(h, k)
    BY <2>3, <2>4 DEF Putting
  <2> QED BY <1>0, <1>1, <2>5
<1> QED BY <1>2, <1>3

\* A list with the last entry for each service of the first n of another.
LastEntries(list, all, n) ==
  /\ IsSeq(list)
  /\ \A j \in DOMAIN list : \E k \in 1 .. n :
       list[j] = all[k] /\ \A l \in 1 .. n : all[l].service = all[k].service => l <= k
  /\ \A l \in 1 .. n : \E j \in DOMAIN list : list[j].service = all[l].service

\* Putting one entry more keeps the last entry for each service.
LEMMA PutKeeps ==
  ASSUME NEW n \in Nat, NEW all, NEW list, LastEntries(list, all, n)
  PROVE  LastEntries(Put(list, all[n + 1]), all, n + 1)
<1> DEFINE e == all[n + 1]
           new == Put(list, e)
<1>0. /\ list \in Seq(Range(list)) /\ Len(list) \in Nat /\ DOMAIN list = 1 .. Len(list)
      /\ \A i \in 1 .. n + 1 : i \in 1 .. n \/ i = n + 1
      /\ \A i \in 1 .. n : i \in 1 .. n + 1 /\ i <= n + 1
      /\ n + 1 \in 1 .. n + 1
  BY DEF LastEntries, IsSeq
<1>1. CASE \E j \in DOMAIN list : list[j].service = e.service
  <2>1. new = [j \in DOMAIN list |-> IF list[j].service = e.service THEN e ELSE list[j]]
    BY <1>1 DEF Put
  <2> HIDE DEF new, e
  <2>2. new \in [1 .. Len(list) -> Range(list) \cup {e}]
    BY <1>0, <2>1 DEF Range
  <2>3. new \in Seq(Range(list) \cup {e})
    BY <1>0, <2>2
  <2>4. IsSeq(new) /\ DOMAIN new = DOMAIN list
    BY <2>1, <2>3, AnySeq
  <2>5. ASSUME NEW j \in DOMAIN new
        PROVE  \E k \in 1 .. n + 1 :
                 new[j] = all[k] /\ \A l \in 1 .. n + 1 : all[l].service = all[k].service => l <= k
    <3>1. CASE list[j].service = e.service
      <4>1. new[j] = all[n + 1]
        BY <2>1, <2>4, <3>1 DEF e
      <4> QED BY <1>0, <4>1
    <3>2. CASE list[j].service # e.service
      <4>1. new[j] = list[j]
        BY <2>1, <2>4, <3>2
      <4>2. PICK k \in 1 .. n :
              list[j] = all[k] /\ \A l \in 1 .. n : all[l].service = all[k].service => l <= k
        BY <2>4 DEF LastEntries
      <4>3. all[n + 1].service # all[k].service
        BY <3>2, <4>2 DEF e
      <4>4. \A l \in 1 .. n + 1 : all[l].service = all[k].service => l <= k
        BY <1>0, <4>2, <4>3
      <4> QED BY <1>0, <4>1, <4>2, <4>4
    <3> QED BY <3>1, <3>2
  <2>6. ASSUME NEW l \in 1 .. n + 1 PROVE \E j \in DOMAIN new : new[j].service = all[l].service
    <3>1. \A j \in DOMAIN list : new[j].service = list[j].service
      BY <2>1
    <3>2. CASE l = n + 1
      BY <1>1, <2>4, <3>1, <3>2 DEF e
    <3>3. CASE l \in 1 .. n
      BY <2>4, <3>1, <3>3 DEF LastEntries
    <3> QED BY <1>0, <3>2, <3>3
  <2> QED BY <2>4, <2>5, <2>6 DEF LastEntries, new, e
<1>2. CASE ~ \E j \in DOMAIN list : list[j].service = e.service
  <2>1. new = Append(list, e)
    BY <1>2 DEF Put
  <2> HIDE DEF new, e
  <2>2. /\ IsSeq(new) /\ Len(new) = Len(list) + 1
        /\ \A i \in 1 .. Len(list) : new[i] = list[i]
        /\ new[Len(list) + 1] = e
    BY <2>1, Appended DEF LastEntries
  <2>3. DOMAIN new = 1 .. Len(list) + 1
    BY <2>2, AnySeq DEF IsSeq
  <2>4. /\ \A j \in DOMAIN new : j \in DOMAIN list \/ j = Len(list) + 1
        /\ Len(list) + 1 \in DOMAIN new /\ DOMAIN list \subseteq DOMAIN new
    BY <1>0, <2>3
  <2>5. ASSUME NEW j \in DOMAIN new
        PROVE  \E k \in 1 .. n + 1 :
                 new[j] = all[k] /\ \A l \in 1 .. n + 1 : all[l].service = all[k].service => l <= k
    <3>1. CASE j = Len(list) + 1
      <4>1. new[j] = all[n + 1]
        BY <2>2, <3>1 DEF e
      <4> QED BY <1>0, <4>1
    <3>2. CASE j \in DOMAIN list
      <4>1. new[j] = list[j]
        BY <1>0, <2>2, <3>2
      <4>2. PICK k \in 1 .. n :
              list[j] = all[k] /\ \A l \in 1 .. n : all[l].service = all[k].service => l <= k
        BY <3>2 DEF LastEntries
      <4>3. all[n + 1].service # all[k].service
        BY <1>2, <3>2, <4>2 DEF e
      <4>4. \A l \in 1 .. n + 1 : all[l].service = all[k].service => l <= k
        BY <1>0, <4>2, <4>3
      <4> QED BY <1>0, <4>1, <4>2, <4>4
    <3> QED BY <2>4, <3>1, <3>2
  <2>6. ASSUME NEW l \in 1 .. n + 1 PROVE \E j \in DOMAIN new : new[j].service = all[l].service
    <3>2. CASE l = n + 1
      BY <2>2, <2>4, <3>2 DEF e
    <3>3. CASE l \in 1 .. n
      <4>1. PICK j \in DOMAIN list : list[j].service = all[l].service
        BY <3>3 DEF LastEntries
      <4> QED BY <1>0, <2>2, <2>4, <4>1
    <3> QED BY <1>0, <3>2, <3>3
  <2> QED BY <2>2, <2>5, <2>6 DEF LastEntries, new, e
<1> QED
  BY <1>1, <1>2

\* What merging leaves of two lists: the last entry for each service.
LEMMA MergedEntries ==
  ASSUME NEW base, NEW over, IsSeq(base), IsSeq(over)
  PROVE  LastEntries(MergeDependsOn(base, over), base \o over, Len(base \o over))
<1> DEFINE all == base \o over
           n == Len(all)
           g == CHOOSE g : Putting(g, all, n)
<1>1. n \in Nat
  <2>1. base \in Seq(Range(base) \cup Range(over)) /\ over \in Seq(Range(base) \cup Range(over))
    BY DEF IsSeq
  <2> QED BY <2>1
<1>2. MergeDependsOn(base, over) = g[n]
  BY DEF MergeDependsOn, Putting
<1> HIDE DEF all, n
<1>3. Putting(g, all, n)
  BY <1>1, PuttingSolves
<1> HIDE DEF g
<1> DEFINE bad == {k \in 0 .. n : ~ LastEntries(g[k], all, k)}
<1>4. bad \subseteq Nat
  BY <1>1
<1>5. LastEntries(g[0], all, 0)
  <2>1. g[0] = <<>>
    BY <1>1, <1>3 DEF Putting
  <2>2. IsSeq(g[0]) /\ DOMAIN g[0] = {}
    BY <2>1, NothingYet, AnySeq DEF IsSeq
  <2> QED BY <2>2 DEF LastEntries
<1>6. bad = {}
  <2> SUFFICES ASSUME bad # {} PROVE FALSE
    OBVIOUS
  <2> HIDE DEF bad
  <2>1. PICK k \in bad : \A m \in bad : k <= m
    BY <1>4, LeastNumber
  <2>2. k \in 0 .. n /\ ~ LastEntries(g[k], all, k)
    BY DEF bad
  <2>3. k # 0
    BY <1>5, <2>2
  <2> DEFINE p == k - 1
  <2>4. p \in Nat /\ p \in 0 .. n /\ p + 1 = k /\ ~ (k <= p)
    BY <1>1, <2>2, <2>3
  <2> HIDE DEF p
  <2>5. LastEntries(g[p], all, p)
    BY <2>1, <2>4 DEF bad
  <2>6. g[k] = Put(g[p], all[k])
    BY <1>3, <2>2, <2>3 DEF Putting, p
  <2> QED BY <2>2, <2>4, <2>5, <2>6, PutKeeps
<1> QED
  BY <1>1, <1>2, <1>6 DEF all, n

NamesIn(list) == {list[i].service : i \in DOMAIN list}

LastCondition(list, n) == list[Max({i \in DOMAIN list : list[i].service = n})].condition

\* Two lists one after the other: its length, and what stands where.
LEMMA Joined ==
  ASSUME NEW s, NEW t, IsSeq(s), IsSeq(t)
  PROVE  /\ Len(s) \in Nat /\ Len(t) \in Nat /\ Len(s \o t) = Len(s) + Len(t)
         /\ DOMAIN s = 1 .. Len(s) /\ DOMAIN t = 1 .. Len(t)
         /\ \A i \in 1 .. Len(s) : (s \o t)[i] = s[i]
         /\ \A i \in 1 .. Len(t) : (s \o t)[Len(s) + i] = t[i]
<1>1. s \in Seq(Range(s) \cup Range(t)) /\ t \in Seq(Range(s) \cup Range(t))
  BY DEF IsSeq
<1> QED
  BY <1>1

\* The condition of a service in merged waiting lists is the last one given for it.
LEMMA MergedConditions ==
  ASSUME NEW base, NEW over, IsSeq(base), IsSeq(over), NEW m, m = MergeDependsOn(base, over)
  PROVE  /\ IsSeq(m)
         /\ NamesIn(m) = NamesIn(base) \cup NamesIn(over)
         /\ \A n \in NamesIn(m) :
              LastCondition(m, n) = IF n \in NamesIn(over) THEN LastCondition(over, n)
                                    ELSE LastCondition(base, n)
<1> DEFINE all == base \o over
           b == Len(base)
           o == Len(over)
           N == Len(all)
<1>1. LastEntries(m, all, N)
  BY MergedEntries
<1>2. /\ b \in Nat /\ o \in Nat /\ N = b + o /\ DOMAIN base = 1 .. b /\ DOMAIN over = 1 .. o
      /\ \A i \in 1 .. b : all[i] = base[i]
      /\ \A i \in 1 .. o : all[b + i] = over[i]
  BY Joined
<1> HIDE DEF all, b, o, N
<1>3. IsSeq(m) /\ Len(m) \in Nat /\ DOMAIN m = 1 .. Len(m)
  BY <1>1, AnySeq DEF LastEntries, IsSeq
<1>4. /\ \A i \in 1 .. b : i \in 1 .. N
      /\ \A i \in 1 .. o : b + i \in 1 .. N
      /\ \A k \in 1 .. N : k \in 1 .. b \/ (k - b \in 1 .. o /\ k = b + (k - b))
  BY <1>2
<1>5. NamesIn(m) = NamesIn(base) \cup NamesIn(over)
  <2>1. ASSUME NEW j \in DOMAIN m PROVE m[j].service \in NamesIn(base) \cup NamesIn(over)
    <3>1. PICK k \in 1 .. N : m[j] = all[k]
      BY <1>1 DEF LastEntries
    <3>2. CASE k \in 1 .. b
      BY <1>2, <3>1, <3>2 DEF NamesIn
    <3>3. CASE k - b \in 1 .. o /\ k = b + (k - b)
      <4>1. all[k] = over[k - b]
        BY <1>2, <3>3
      <4> QED BY <1>2, <3>1, <3>3, <4>1 DEF NamesIn
    <3> QED BY <1>4, <3>2, <3>3
  <2>2. ASSUME NEW i \in 1 .. b PROVE base[i].service \in NamesIn(m)
    <3>1. PICK j \in DOMAIN m : m[j].service = all[i].service
      BY <1>1, <1>4 DEF LastEntries
    <3> QED BY <1>2, <3>1 DEF NamesIn
  <2>3. ASSUME NEW i \in 1 .. o PROVE over[i].service \in NamesIn(m)
    <3>1. PICK j \in DOMAIN m : m[j].service = all[b + i].service
      BY <1>1, <1>4 DEF LastEntries
    <3> QED BY <1>2, <3>1 DEF NamesIn
  <2> QED BY <1>2, <2>1, <2>2, <2>3 DEF NamesIn
<1>6. ASSUME NEW n \in NamesIn(m)
      PROVE  LastCondition(m, n) = IF n \in NamesIn(over) THEN LastCondition(over, n)
                                   ELSE LastCondition(base, n)
  <2> DEFINE S == {i \in DOMAIN m : m[i].service = n}
             B == {i \in DOMAIN base : base[i].service = n}
             O == {i \in DOMAIN over : over[i].service = n}
  <2>1. S # {} /\ S \subseteq 1 .. Len(m)
    BY <1>3 DEF NamesIn
  <2>2. Max(S) \in S
    BY <1>3, <2>1, GreatestNumber
  <2>3. PICK k \in 1 .. N :
          m[Max(S)] = all[k] /\ \A l \in 1 .. N : all[l].service = all[k].service => l <= k
    BY <1>1, <2>2 DEF LastEntries
  <2>4. all[k].service = n /\ \A l \in 1 .. N : all[l].service = n => l <= k
    BY <2>2, <2>3
  <2>5. LastCondition(m, n) = all[k].condition
    BY <2>3 DEF LastCondition
  <2>6. CASE n \in NamesIn(over)
    <3>1. O # {} /\ O \subseteq 1 .. o
      BY <1>2, <2>6 DEF NamesIn
    <3> DEFINE x == Max(O)
    <3>2. x \in O /\ \A y \in O : y <= x
      BY <1>2, <3>1, GreatestNumber
    <3> HIDE DEF x
    <3>3. x \in 1 .. o /\ all[b + x].service = n
      BY <1>2, <3>2
    <3>4. b + x <= k
      BY <1>4, <2>4, <3>3
    <3>5. ~ (k \in 1 .. b)
      BY <1>2, <3>3, <3>4
    <3>6. k - b \in 1 .. o /\ k = b + (k - b)
      BY <1>4, <3>5
    <3>7. all[k] = over[k - b]
      BY <1>2, <3>6
    <3>8. k - b \in O
      BY <1>2, <2>4, <3>6, <3>7
    <3>9. k - b <= x
      BY <3>2, <3>8
    <3>10. k - b = x
      BY <1>2, <3>3, <3>4, <3>9
    <3>11. LastCondition(over, n) = over[x].condition
      BY DEF LastCondition, x
    <3> QED BY <2>5, <2>6, <3>7, <3>10, <3>11
  <2>7. CASE n \notin NamesIn(over)
    <3>1. B # {} /\ B \subseteq 1 .. b
      BY <1>2, <1>5, <2>7 DEF NamesIn
    <3> DEFINE x == Max(B)
    <3>2. x \in B /\ \A y \in B : y <= x
      BY <1>2, <3>1, GreatestNumber
    <3> HIDE DEF x
    <3>3. x \in 1 .. b /\ all[x].service = n
      BY <1>2, <3>2
    <3>4. x <= k
      BY <1>4, <2>4, <3>3
    <3>5. ~ (k - b \in 1 .. o /\ k = b + (k - b))
      <4> SUFFICES ASSUME k - b \in 1 .. o, k = b + (k - b) PROVE FALSE
        OBVIOUS
      <4>1. all[k] = over[k - b]
        BY <1>2
      <4> QED BY <1>2, <2>4, <2>7, <4>1 DEF NamesIn
    <3>6. k \in 1 .. b
      BY <1>4, <3>5
    <3>7. all[k] = base[k] /\ k \in B
      BY <1>2, <2>4, <3>6
    <3>8. k <= x
      BY <3>2, <3>7
    <3>9. k = x
      BY <1>2, <3>3, <3>4, <3>6, <3>8
    <3>10. LastCondition(base, n) = base[x].condition
      BY DEF LastCondition, x
    <3> QED BY <2>5, <2>7, <3>7, <3>9, <3>10
  <2> QED BY <2>6, <2>7
<1> QED
  BY <1>3, <1>5, <1>6

\* A whole service, with nothing left to extend, that a line of definitions adds up to.
Adds(s, line) ==
  /\ IsService(s) /\ s.extends = NoExtends
  /\ IsSeq(line) /\ Len(line) # 0
  /\ \A i \in 1 .. Len(line) : IsService(line[i])
  /\ DescendsFrom(s, line)

\* A whole definition that extends nothing is what a line of it alone adds up to.
LEMMA FirstOfLine ==
  ASSUME NEW s, IsService(s), s.extends = NoExtends
  PROVE  Adds(s, <<s>>)
<1> DEFINE line == <<s>>
<1>1. IsSeq(line) /\ Len(line) = 1 /\ DOMAIN line = {1} /\ line[1] = s
  <2>1. line \in Seq({s}) /\ Len(line) = 1 /\ DOMAIN line = {1} /\ line[1] = s
    OBVIOUS
  <2> QED BY <2>1, AnySeq
<1> HIDE DEF line
<1>2. Max({1}) = 1
  BY TheGreatest
<1>3. \A S : S \subseteq DOMAIN line /\ S # {} => Max(S) = 1
  <2> SUFFICES ASSUME NEW S, S \subseteq {1}, S # {} PROVE Max(S) = 1
    BY <1>1
  <2>1. S = {1}
    OBVIOUS
  <2> QED BY <1>2, <2>1
<1>4. s.ports = FlattenSeq([i \in DOMAIN line |-> line[i].ports])
  <2> DEFINE ss == [i \in DOMAIN line |-> line[i].ports]
  <2>1. Len(ss) = 1 /\ ss[1] = s.ports
    <3>1. ss = [i \in 1 .. 1 |-> s.ports]
      BY <1>1
    <3>2. ss \in Seq({s.ports}) /\ Len(ss) = 1
      BY <3>1
    <3> QED BY <3>1, <3>2
  <2> HIDE DEF ss
  <2>2. FlattenSeq(ss) = ss[1]
    BY <2>1, FlattenOne
  <2> QED BY <2>1, <2>2 DEF ss
<1>5. DescendsFrom(s, line)
  <2> DEFINE images     == {i \in DOMAIN line : line[i].image # None}
             attached   == {i \in DOMAIN line : line[i].networks # {}}
             setting(v) == {i \in DOMAIN line : v \in DOMAIN line[i].environment}
             waiting(n) == {i \in DOMAIN line : n \in WaitsFor(line[i])}
  <2>1. s.image = IF images = {} THEN None ELSE line[Max(images)].image
    BY <1>1, <1>3
  <2>2. s.networks = IF attached = {} THEN {} ELSE line[Max(attached)].networks
    BY <1>1, <1>3
  <2>3. s.profiles = UNION {line[i].profiles : i \in DOMAIN line}
    BY <1>1
  <2>4. DOMAIN s.environment = UNION {DOMAIN line[i].environment : i \in DOMAIN line}
    BY <1>1
  <2>5. \A v \in DOMAIN s.environment :
          s.environment[v] = line[Max(setting(v))].environment[v]
    BY <1>1, <1>3
  <2>6. WaitsFor(s) = UNION {WaitsFor(line[i]) : i \in DOMAIN line}
    BY <1>1
  <2>7. \A n \in WaitsFor(s) : ConditionOf(s, n) = ConditionOf(line[Max(waiting(n))], n)
    BY <1>1, <1>3
  <2> QED BY <1>4, <2>1, <2>2, <2>3, <2>4, <2>5, <2>6, <2>7 DEF DescendsFrom
<1> QED
  BY <1>1, <1>5 DEF Adds, line

\* The greatest number of a set when one more may be in it.
LEMMA LastMore ==
  ASSUME NEW n \in Nat, NEW S, S \subseteq 1 .. n, NEW T, T \subseteq 1 .. n + 1,
         \A i \in 1 .. n : i \in T <=> i \in S
  PROVE  /\ n + 1 \in T => T # {} /\ Max(T) = n + 1
         /\ n + 1 \notin T => T = S
         /\ S # {} => Max(S) \in 1 .. n /\ Max(S) \in S
<1>1. ASSUME n + 1 \in T PROVE Max(T) = n + 1
  <2>1. T \subseteq Int /\ \A y \in T : y <= n + 1
    OBVIOUS
  <2> QED BY <1>1, <2>1, TheGreatest
<1>2. ASSUME n + 1 \notin T PROVE T = S
  <2>1. \A i \in T : i \in 1 .. n
    BY <1>2
  <2>2. \A i \in S : i \in 1 .. n
    OBVIOUS
  <2> QED BY <2>1, <2>2
<1>3. ASSUME S # {} PROVE Max(S) \in 1 .. n /\ Max(S) \in S
  BY <1>3, GreatestNumber
<1> QED
  BY <1>1, <1>2, <1>3

\* Merging two services makes a service.
LEMMA MergedIsService ==
  ASSUME NEW p, NEW s, IsService(p), IsService(s)
  PROVE  IsService(MergeServiceSpecs(p, s)) /\ MergeServiceSpecs(p, s).extends = NoExtends
<1> DEFINE m == MergeServiceSpecs(p, s)
<1>1. /\ m.extends = NoExtends /\ m.ports = p.ports \o s.ports
      /\ m.depends_on = MergeDependsOn(p.depends_on, s.depends_on)
      /\ {"extends", "image", "ports", "environment", "profiles", "depends_on", "networks",
          "expose"} \subseteq DOMAIN m
  BY DEF MergeServiceSpecs
<1> HIDE DEF m
<1>2. IsSeq(m.depends_on)
  BY <1>1, MergedConditions DEF IsService, IsSeq
<1>3. IsSeq(m.ports)
  <2> DEFINE x == p.ports
             y == s.ports
  <2>1. x \in Seq(Range(x) \cup Range(y)) /\ y \in Seq(Range(x) \cup Range(y))
    BY DEF IsService
  <2> HIDE DEF x, y
  <2>2. x \o y \in Seq(Range(x) \cup Range(y))
    BY <2>1
  <2> QED BY <1>1, <2>2, AnySeq DEF x, y
<1> QED
  BY <1>1, <1>2, <1>3 DEF IsService, IsSeq, m

\* A definition merged over what a line adds up to is what the longer line adds up to.
LEMMA MergeAdds ==
  ASSUME NEW p, NEW line, Adds(p, line), NEW s, IsService(s)
  PROVE  Adds(MergeServiceSpecs(p, s), Append(line, s))
<1> DEFINE m == MergeServiceSpecs(p, s)
           more == Append(line, s)
           n == Len(line)
           k == n + 1
<1>1. /\ IsSeq(more) /\ Len(more) = k /\ n \in Nat /\ n # 0
      /\ \A i \in 1 .. n : more[i] = line[i]
      /\ more[k] = s
  BY Appended DEF Adds
<1>2. IsService(m) /\ m.extends = NoExtends
  BY MergedIsService DEF Adds
<1>3. DOMAIN line = 1 .. n /\ DOMAIN more = 1 .. k
  BY <1>1, AnySeq DEF Adds, IsSeq
<1>4. /\ m.image = OrInherited(s.image, p.image)
      /\ m.ports = p.ports \o s.ports
      /\ m.environment = Override(p.environment, s.environment)
      /\ m.profiles = p.profiles \cup s.profiles
      /\ m.depends_on = MergeDependsOn(p.depends_on, s.depends_on)
      /\ m.networks = IF s.networks # {} THEN s.networks ELSE p.networks
  BY DEF MergeServiceSpecs
<1> HIDE DEF m, more, n
<1>5. /\ k \in 1 .. k /\ \A i \in 1 .. k : i \in 1 .. n \/ i = k
      /\ \A i \in 1 .. n : i \in 1 .. k
  BY <1>1
<1>6. /\ WaitsFor(m) = WaitsFor(p) \cup WaitsFor(s)
      /\ \A x \in WaitsFor(m) : ConditionOf(m, x) = IF x \in WaitsFor(s) THEN ConditionOf(s, x)
                                                    ELSE ConditionOf(p, x)
  <2>1. IsSeq(p.depends_on) /\ IsSeq(s.depends_on)
    BY DEF Adds, IsService, IsSeq
  <2>2. /\ \A q : WaitsFor(q) = NamesIn(q.depends_on)
        /\ \A q, x : ConditionOf(q, x) = LastCondition(q.depends_on, x)
    BY DEF WaitsFor, NamesIn, ConditionOf, LastCondition
  <2> QED BY <1>4, <2>1, <2>2, MergedConditions
<1> DEFINE images(l)      == {i \in DOMAIN l : l[i].image # None}
           attached(l)    == {i \in DOMAIN l : l[i].networks # {}}
           setting(l, v)  == {i \in DOMAIN l : v \in DOMAIN l[i].environment}
           waiting(l, x)  == {i \in DOMAIN l : x \in WaitsFor(l[i])}
<1>7. /\ p.image = IF images(line) = {} THEN None ELSE line[Max(images(line))].image
      /\ p.ports = FlattenSeq([i \in DOMAIN line |-> line[i].ports])
      /\ p.profiles = UNION {line[i].profiles : i \in DOMAIN line}
      /\ DOMAIN p.environment = UNION {DOMAIN line[i].environment : i \in DOMAIN line}
      /\ \A v \in DOMAIN p.environment :
           p.environment[v] = line[Max(setting(line, v))].environment[v]
      /\ WaitsFor(p) = UNION {WaitsFor(line[i]) : i \in DOMAIN line}
      /\ \A x \in WaitsFor(p) : ConditionOf(p, x) = ConditionOf(line[Max(waiting(line, x))], x)
      /\ p.networks = IF attached(line) = {} THEN {} ELSE line[Max(attached(line))].networks
  BY DEF Adds, DescendsFrom
<1>8. m.image = IF images(more) = {} THEN None ELSE more[Max(images(more))].image
  <2> DEFINE S == images(line)
             T == images(more)
  <2>1. /\ S \subseteq 1 .. n /\ T \subseteq 1 .. n + 1 /\ \A i \in 1 .. n : i \in T <=> i \in S
        /\ k \in T <=> s.image # None
    BY <1>1, <1>3, <1>5
  <2> HIDE DEF S, T
  <2>2. /\ k \in T => T # {} /\ Max(T) = k
        /\ k \notin T => T = S
        /\ S # {} => Max(S) \in 1 .. n
    BY <1>1, <2>1, LastMore
  <2>3. p.image = IF S = {} THEN None ELSE line[Max(S)].image
    BY <1>7 DEF S
  <2>4. m.image = IF T = {} THEN None ELSE more[Max(T)].image
    BY <1>1, <1>4, <2>1, <2>2, <2>3 DEF OrInherited
  <2> QED BY <2>4 DEF T
<1>9. m.networks = IF attached(more) = {} THEN {} ELSE more[Max(attached(more))].networks
  <2> DEFINE S == attached(line)
             T == attached(more)
  <2>1. /\ S \subseteq 1 .. n /\ T \subseteq 1 .. n + 1 /\ \A i \in 1 .. n : i \in T <=> i \in S
        /\ k \in T <=> s.networks # {}
    BY <1>1, <1>3, <1>5
  <2> HIDE DEF S, T
  <2>2. /\ k \in T => T # {} /\ Max(T) = k
        /\ k \notin T => T = S
        /\ S # {} => Max(S) \in 1 .. n
    BY <1>1, <2>1, LastMore
  <2>3. p.networks = IF S = {} THEN {} ELSE line[Max(S)].networks
    BY <1>7 DEF S
  <2>4. m.networks = IF T = {} THEN {} ELSE more[Max(T)].networks
    BY <1>1, <1>4, <2>1, <2>2, <2>3
  <2> QED BY <2>4 DEF T
<1>10. m.ports = FlattenSeq([i \in DOMAIN more |-> more[i].ports])
  <2> DEFINE ss == [i \in DOMAIN line |-> line[i].ports]
             tt == [i \in DOMAIN more |-> more[i].ports]
  <2>1. Len(ss) = n /\ Len(tt) = k
    <3>1. ss \in [1 .. n -> Range(ss)] /\ tt \in [1 .. k -> Range(tt)] /\ k \in Nat
      BY <1>1, <1>3 DEF Range
    <3> QED BY <1>1, <3>1
  <2>2. \A i \in 1 .. n : tt[i] = ss[i]
    BY <1>1, <1>3, <1>5
  <2>3. tt[k] = s.ports
    BY <1>1, <1>3, <1>5
  <2>4. p.ports = FlattenSeq(ss)
    BY <1>7
  <2> HIDE DEF ss, tt
  <2>5. FlattenSeq(tt) = FlattenSeq(ss) \o tt[n + 1]
    BY <1>1, <2>1, <2>2, FlattenOneMore
  <2> QED BY <1>4, <2>3, <2>4, <2>5 DEF tt
<1>11. m.profiles = UNION {more[i].profiles : i \in DOMAIN more}
  BY <1>1, <1>3, <1>4, <1>5, <1>7
<1>12. /\ DOMAIN m.environment = DOMAIN p.environment \cup DOMAIN s.environment
       /\ \A v \in DOMAIN m.environment :
            m.environment[v] = IF v \in DOMAIN s.environment THEN s.environment[v]
                               ELSE p.environment[v]
  BY <1>4 DEF Override
<1>13. DOMAIN m.environment = UNION {DOMAIN more[i].environment : i \in DOMAIN more}
  BY <1>1, <1>3, <1>5, <1>7, <1>12
<1>14. ASSUME NEW v \in DOMAIN m.environment
       PROVE  m.environment[v] = more[Max(setting(more, v))].environment[v]
  <2> DEFINE S == setting(line, v)
             T == setting(more, v)
  <2>1. /\ S \subseteq 1 .. n /\ T \subseteq 1 .. n + 1 /\ \A i \in 1 .. n : i \in T <=> i \in S
        /\ k \in T <=> v \in DOMAIN s.environment
    BY <1>1, <1>3, <1>5
  <2>2. v \in DOMAIN p.environment => S # {}
    BY <1>7
  <2>3. v \in DOMAIN p.environment => p.environment[v] = line[Max(S)].environment[v]
    BY <1>7
  <2> HIDE DEF S, T
  <2>4. /\ k \in T => Max(T) = k
        /\ k \notin T => T = S
        /\ S # {} => Max(S) \in 1 .. n
    BY <1>1, <2>1, LastMore
  <2>5. m.environment[v] = more[Max(T)].environment[v]
    BY <1>1, <1>12, <2>1, <2>2, <2>3, <2>4
  <2> QED BY <2>5 DEF T
<1>15. WaitsFor(m) = UNION {WaitsFor(more[i]) : i \in DOMAIN more}
  BY <1>1, <1>3, <1>5, <1>6, <1>7
<1>16. ASSUME NEW x \in WaitsFor(m)
       PROVE  ConditionOf(m, x) = ConditionOf(more[Max(waiting(more, x))], x)
  <2> DEFINE S == waiting(line, x)
             T == waiting(more, x)
  <2>1. /\ S \subseteq 1 .. n /\ T \subseteq 1 .. n + 1 /\ \A i \in 1 .. n : i \in T <=> i \in S
        /\ k \in T <=> x \in WaitsFor(s)
    BY <1>1, <1>3, <1>5
  <2>2. x \in WaitsFor(p) => S # {}
    BY <1>7
  <2>3. x \in WaitsFor(p) => ConditionOf(p, x) = ConditionOf(line[Max(S)], x)
    BY <1>7
  <2> HIDE DEF S, T
  <2>4. /\ k \in T => Max(T) = k
        /\ k \notin T => T = S
        /\ S # {} => Max(S) \in 1 .. n
    BY <1>1, <2>1, LastMore
  <2>5. ConditionOf(m, x) = ConditionOf(more[Max(T)], x)
    BY <1>1, <1>6, <2>1, <2>2, <2>3, <2>4
  <2> QED BY <2>5 DEF T
<1>17. DescendsFrom(m, more)
  BY <1>8, <1>9, <1>10, <1>11, <1>13, <1>14, <1>15, <1>16 DEF DescendsFrom
<1>18. \A i \in 1 .. Len(more) : IsService(more[i])
  BY <1>1, <1>5 DEF Adds, n
<1> QED
  BY <1>1, <1>2, <1>17, <1>18 DEF Adds, m, more
-----------------------------------------------------------------------------
\* The recursions of the reference have solutions.

\* There are finitely many places where a service can be defined.
LEMMA KeysAreFinite == IsFiniteSet(Key) /\ Cardinality(Key) \in Nat
<1>1. IsFiniteSet(Range(NameOrder))
  <2> DEFINE n == Len(NameOrder)
             T == Range(NameOrder)
  <2>1. n \in Nat /\ NameOrder \in [1 .. n -> T] /\ DOMAIN NameOrder = 1 .. n
    BY ImportAssumption
  <2>2. NameOrder \in Surjection(1 .. n, T)
    BY <2>1 DEF Surjection, Range
  <2>3. IsFiniteSet(1 .. n)
    BY <2>1, FS_Interval
  <2> QED BY <2>2, <2>3, FS_Surjection
<1> QED
  BY <1>1, ImportAssumption, FS_Product, FS_CardinalityType DEF Key

\* The project p is spelled out from here on, for the steps that leave it as it is.

OwnIn(p, f) == p.files[f].services

\* The line of a key, when those of one more extends are known.
LineStep(p, below, f, inherited, key) ==
  IF key[1] = f /\ key[2] \notin DOMAIN OwnIn(p, f) THEN inherited[key[2]]
  ELSE LET s == OwnIn(p, key[1])[key[2]]
           in == IF s.extends.file = None THEN key[1] ELSE s.extends.file
       IN  IF s.extends = NoExtends THEN <<s>>
           ELSE Append(below[<<in, s.extends.service>>], s)

Lining(p, g, f, inherited, n) ==
  g = [k \in 0 .. n |->
         [key \in Key |-> IF k = 0 THEN <<>> ELSE LineStep(p, g[k - 1], f, inherited, key)]]

\* The recursion that collects lines of definitions has a solution.
LEMMA LiningSolves ==
  ASSUME NEW p, NEW f, NEW inherited, NEW n \in Nat
  PROVE  \E g : Lining(p, g, f, inherited, n)
<1> DEFINE Solves(g, k) == Lining(p, g, f, inherited, k)
           Level(g, k) == [key \in Key |-> IF k = 0 THEN <<>> ELSE LineStep(p, g[k - 1], f, inherited, key)]
           bad == {k \in 0 .. n : \A g : ~ Solves(g, k)}
<1>0. n \in 0 .. n /\ bad \subseteq Nat /\ \A k \in 0 .. n : k \in bad <=> \A g : ~ Solves(g, k)
  OBVIOUS
<1> HIDE DEF bad
<1> SUFFICES ASSUME bad # {} PROVE FALSE
  BY <1>0
<1>1. PICK k \in bad : k \in 0 .. n /\ \A m \in bad : k <= m
  BY <1>0, LeastNumber DEF bad
<1>2. \A g : \A j : (\A i \in 0 .. j : g[i] = Level(g, i)) /\ g = [i \in 0 .. j |-> g[i]]
               => Solves(g, j)
  BY DEF Lining
<1>3. \A g : \A j : Solves(g, j) => \A i \in 0 .. j : g[i] = Level(g, i)
  BY DEF Lining
<1>4. CASE k = 0
  <2> DEFINE h == [i \in 0 .. 0 |-> Level(<<>>, 0)]
  <2>1. \A i \in 0 .. 0 : h[i] = Level(h, i)
    OBVIOUS
  <2>2. h = [i \in 0 .. 0 |-> h[i]]
    OBVIOUS
  <2> HIDE DEF h
  <2> QED BY <1>0, <1>1, <1>2, <1>4, <2>1, <2>2
<1>5. CASE k # 0
  <2>1. k \in Nat /\ k - 1 \in 0 .. n /\ k - 1 \notin bad
    BY <1>1, <1>5
  <2>2. PICK g : Solves(g, k - 1)
    BY <1>0, <2>1
  <2> DEFINE last == Level(g, k)
             h == [i \in 0 .. k |-> IF i = k THEN last ELSE g[i]]
  <2> HIDE DEF last
  <2>3. \A i \in 0 .. k - 1 : i \in 0 .. k /\ i # k /\ h[i] = g[i]
    BY <2>1
  <2>4. h[k] = last /\ h = [i \in 0 .. k |-> h[i]] /\ \A i \in 0 .. k : i \in 0 .. k - 1 \/ i = k
    BY <2>1
  <2> HIDE DEF h
  <2>5. ASSUME NEW i \in 0 .. k - 1 PROVE h[i] = Level(h, i)
    <3>1. g[i] = Level(g, i)
      BY <1>3, <2>2
    <3>2. i # 0 => h[i - 1] = g[i - 1]
      BY <2>1, <2>3
    <3>3. Level(h, i) = Level(g, i)
      BY <3>2
    <3> QED BY <2>3, <3>1, <3>3
  <2>6. h[k] = Level(h, k)
    <3>1. h[k - 1] = g[k - 1]
      BY <2>1, <2>3
    <3>2. Level(h, k) = Level(g, k)
      BY <3>1
    <3> QED BY <2>4, <3>2 DEF last
  <2>7. Solves(h, k)
    BY <1>2, <2>4, <2>5, <2>6
  <2> QED BY <1>0, <1>1, <2>7
<1> QED BY <1>4, <1>5

\* The lines as they are counted up, one extends more each time.
LineOf(p, f, inherited) == CHOOSE g : Lining(p, g, f, inherited, Cardinality(Key))

\* A line is a service's own definition and before it the line of what it extends.
LEMMA LineUnfolds ==
  ASSUME NEW p, NEW f, NEW inherited
  PROVE  \A k \in 1 .. Cardinality(Key) : \A key \in Key :
           LineOf(p, f, inherited)[k][key]
             = LineStep(p, LineOf(p, f, inherited)[k - 1], f, inherited, key)
<1> DEFINE n == Cardinality(Key)
           g == LineOf(p, f, inherited)
<1>2. Lining(p, g, f, inherited, n)
  BY KeysAreFinite, LiningSolves DEF LineOf
<1> HIDE DEF g
<1>3. \A k \in 1 .. n : k \in 0 .. n /\ k # 0
  BY KeysAreFinite
<1>4. ASSUME NEW k \in 1 .. n, NEW key \in Key
      PROVE  g[k][key] = LineStep(p, g[k - 1], f, inherited, key)
  <2>1. g[k] = [x \in Key |-> IF k = 0 THEN <<>> ELSE LineStep(p, g[k - 1], f, inherited, x)]
    BY <1>2, <1>3 DEF Lining
  <2> QED BY <1>3, <2>1
<1> QED
  BY <1>4 DEF g

\* What the j-th include of f has, when the level below is known.
SeenBelow(p, below, f, j) ==
  IF p.files[f].include[j].kind = "path" THEN below[p.files[f].include[j].file] ELSE <<>>

\* What those in J have.
Gathered(p, below, f, J) ==
  [n \in UNION {DOMAIN SeenBelow(p, below, f, j) : j \in J} |->
     SeenBelow(p, below, f, Max({j \in J : n \in DOMAIN SeenBelow(p, below, f, j)}))[n]]

InheritedBy(p, below, f) == Gathered(p, below, f, DOMAIN p.files[f].include)

VisibleStep(p, below, f) ==
  [n \in DOMAIN OwnIn(p, f) \cup DOMAIN InheritedBy(p, below, f) |->
     LineOf(p, f, InheritedBy(p, below, f))[Cardinality(Key)][<<f, n>>]]

Seeing(p, g, n) ==
  g = [k \in 0 .. n |->
         [f \in ComposeFile |->
            IF k = 0 \/ ~ Parses(p.files[f]) THEN <<>> ELSE VisibleStep(p, g[k - 1], f)]]

\* The recursion that collects what a file shows has a solution.
LEMMA SeeingSolves ==
  ASSUME NEW p, NEW n \in Nat
  PROVE  \E g : Seeing(p, g, n)
<1> DEFINE Solves(g, k) == Seeing(p, g, k)
           Level(g, k) == [f \in ComposeFile |->
                             IF k = 0 \/ ~ Parses(p.files[f]) THEN <<>> ELSE VisibleStep(p, g[k - 1], f)]
           bad == {k \in 0 .. n : \A g : ~ Solves(g, k)}
<1>0. n \in 0 .. n /\ bad \subseteq Nat /\ \A k \in 0 .. n : k \in bad <=> \A g : ~ Solves(g, k)
  OBVIOUS
<1> HIDE DEF bad
<1> SUFFICES ASSUME bad # {} PROVE FALSE
  BY <1>0
<1>1. PICK k \in bad : k \in 0 .. n /\ \A m \in bad : k <= m
  BY <1>0, LeastNumber DEF bad
<1>2. \A g : \A j : (\A i \in 0 .. j : g[i] = Level(g, i)) /\ g = [i \in 0 .. j |-> g[i]]
               => Solves(g, j)
  BY DEF Seeing
<1>3. \A g : \A j : Solves(g, j) => \A i \in 0 .. j : g[i] = Level(g, i)
  BY DEF Seeing
<1> HIDE DEF Level
<1>4. CASE k = 0
  <2> DEFINE h == [i \in 0 .. 0 |-> Level(<<>>, 0)]
  <2>1. \A i \in 0 .. 0 : h[i] = Level(h, i)
    BY DEF Level
  <2>2. h = [i \in 0 .. 0 |-> h[i]]
    OBVIOUS
  <2> HIDE DEF h
  <2> QED BY <1>0, <1>1, <1>2, <1>4, <2>1, <2>2
<1>5. CASE k # 0
  <2>1. k \in Nat /\ k - 1 \in 0 .. n /\ k - 1 \notin bad
    BY <1>1, <1>5
  <2>2. PICK g : Solves(g, k - 1)
    BY <1>0, <2>1
  <2> DEFINE last == Level(g, k)
             h == [i \in 0 .. k |-> IF i = k THEN last ELSE g[i]]
  <2> HIDE DEF last
  <2>3. \A i \in 0 .. k - 1 : i \in 0 .. k /\ i # k /\ h[i] = g[i]
    BY <2>1
  <2>4. h[k] = last /\ h = [i \in 0 .. k |-> h[i]] /\ \A i \in 0 .. k : i \in 0 .. k - 1 \/ i = k
    BY <2>1
  <2> HIDE DEF h
  <2>5. ASSUME NEW i \in 0 .. k - 1 PROVE h[i] = Level(h, i)
    <3>1. g[i] = Level(g, i)
      BY <1>3, <2>2
    <3>2. i # 0 => h[i - 1] = g[i - 1]
      BY <2>1, <2>3
    <3>3. Level(h, i) = Level(g, i)
      BY <3>2 DEF Level
    <3> QED BY <2>3, <3>1, <3>3
  <2>6. h[k] = Level(h, k)
    <3>1. h[k - 1] = g[k - 1]
      BY <2>1, <2>3
    <3>2. Level(h, k) = Level(g, k)
      BY <3>1 DEF Level
    <3> QED BY <2>4, <3>2 DEF last
  <2>7. Solves(h, k)
    BY <1>2, <2>4, <2>5, <2>6
  <2> QED BY <1>0, <1>1, <2>7
<1> QED BY <1>4, <1>5

VisibleIn(p) == CHOOSE g : Seeing(p, g, MaxIncludeDepth)

\* What a file shows is its own part over what its includes show one level down.
LEMMA VisibleUnfolds ==
  ASSUME NEW p, NEW k \in 1 .. MaxIncludeDepth, NEW f \in ComposeFile,
         Parses(p.files[f])
  PROVE  VisibleIn(p)[k][f] = VisibleStep(p, VisibleIn(p)[k - 1], f)
<1> DEFINE g == VisibleIn(p)
<1>1. Seeing(p, g, MaxIncludeDepth)
  BY SeeingSolves, ImportAssumption DEF VisibleIn
<1> HIDE DEF g
<1>2. k \in 0 .. MaxIncludeDepth /\ k # 0
  BY ImportAssumption
<1>3. g[k] = [x \in ComposeFile |->
                IF k = 0 \/ ~ Parses(p.files[x]) THEN <<>> ELSE VisibleStep(p, g[k - 1], x)]
  BY <1>1, <1>2 DEF Seeing
<1> QED
  BY <1>2, <1>3 DEF g

\* The reference's own function is that solution.
LEMMA VisibleIs == Visible = VisibleIn(project)
<1> DEFINE Here(g) ==
             g = [k \in 0 .. MaxIncludeDepth |->
                    [f \in ComposeFile |->
                       IF k = 0 \/ ~ Readable(f) THEN <<>> ELSE VisibleStep(project, g[k - 1], f)]]
<1>1. Visible = CHOOSE g : Here(g)
  BY DEF Visible, VisibleStep, InheritedBy, Gathered, SeenBelow, LinesOf, LineOf, Lining, LineStep,
         Own, OwnIn
<1>2. \A f : ~ Readable(f) <=> ~ Parses(project.files[f])
  BY DEF Readable, Opened, Parses
<1>3. \A g : Here(g) <=> Seeing(project, g, MaxIncludeDepth)
  BY <1>2 DEF Seeing
<1> HIDE DEF Here
<1> QED
  BY <1>1, <1>3 DEF VisibleIn

\* One include more goes on top of those before it.
LEMMA GatheredOneMore ==
  ASSUME NEW m \in Nat, NEW p, NEW below, NEW f
  PROVE  Gathered(p, below, f, 1 .. m + 1)
           = Override(Gathered(p, below, f, 1 .. m), SeenBelow(p, below, f, m + 1))
<1> DEFINE S(j) == SeenBelow(p, below, f, j)
           k == m + 1
           a == Gathered(p, below, f, 1 .. m)
           b == Gathered(p, below, f, 1 .. k)
           o == Override(a, S(k))
           In(n) == {j \in 1 .. m : n \in DOMAIN S(j)}
           Ik(n) == {j \in 1 .. k : n \in DOMAIN S(j)}
<1>1. /\ \A j \in 1 .. k : j \in 1 .. m \/ j = k
      /\ \A j \in 1 .. m : j \in 1 .. k
      /\ k \in 1 .. k
  OBVIOUS
<1>2. /\ a = [n \in UNION {DOMAIN S(j) : j \in 1 .. m} |-> S(Max(In(n)))[n]]
      /\ b = [n \in UNION {DOMAIN S(j) : j \in 1 .. k} |-> S(Max(Ik(n)))[n]]
      /\ o = [n \in DOMAIN a \cup DOMAIN S(k) |-> IF n \in DOMAIN S(k) THEN S(k)[n] ELSE a[n]]
  BY DEF Gathered, Override
<1>3. \A n : In(n) \subseteq 1 .. m /\ Ik(n) \subseteq 1 .. k /\ \A i \in 1 .. m : i \in Ik(n) <=> i \in In(n)
  BY <1>1
<1>4. \A n : k \in Ik(n) <=> n \in DOMAIN S(k)
  BY <1>1
<1> HIDE DEF S, a, b, o
<1>5. DOMAIN b = DOMAIN a \cup DOMAIN S(k)
  <2>1. DOMAIN a = UNION {DOMAIN S(j) : j \in 1 .. m} /\ DOMAIN b = UNION {DOMAIN S(j) : j \in 1 .. k}
    BY <1>2
  <2> QED BY <1>1, <2>1
<1>6. ASSUME NEW n \in DOMAIN b
      PROVE  b[n] = IF n \in DOMAIN S(k) THEN S(k)[n] ELSE a[n]
  <2>1. b[n] = S(Max(Ik(n)))[n]
    BY <1>2
  <2>2. (k \in Ik(n) => Max(Ik(n)) = k) /\ (k \notin Ik(n) => Ik(n) = In(n))
    <3> DEFINE A == In(n)
               B == Ik(n)
    <3>1. A \subseteq 1 .. m /\ B \subseteq 1 .. m + 1 /\ \A i \in 1 .. m : i \in B <=> i \in A
      BY <1>3
    <3> HIDE DEF A, B
    <3>2. (m + 1 \in B => Max(B) = m + 1) /\ (m + 1 \notin B => B = A)
      BY <3>1, LastMore
    <3> QED BY <3>2 DEF A, B
  <2>3. n \in DOMAIN a => a[n] = S(Max(In(n)))[n]
    BY <1>2
  <2> QED BY <1>4, <1>5, <2>1, <2>2, <2>3
<1>7. b = [n \in DOMAIN b |-> b[n]]
  BY <1>2
<1> HIDE DEF k
<1>8. b = o
  BY <1>2, <1>5, <1>6, <1>7
<1> QED
  BY <1>8 DEF a, b, o, S, k

\* No includes, nothing gathered.
LEMMA GatheredNone ==
  ASSUME NEW p, NEW below, NEW f
  PROVE  DOMAIN Gathered(p, below, f, 1 .. 0) = {}
BY DEF Gathered
-----------------------------------------------------------------------------
\* What has been read is what the reference says.

Matches(services, lines) ==
  /\ DOMAIN services = DOMAIN lines
  /\ \A n \in DOMAIN lines : Adds(services[n], lines[n])

\* What matches stays so when it is put over other services that match.
LEMMA MatchesOverride ==
  ASSUME NEW a, NEW b, NEW x, NEW y, Matches(a, x), Matches(b, y)
  PROVE  Matches(Override(a, b), Override(x, y))
BY DEF Matches, Override

\* What the includes of the i-th file on the stack have.
Below(p, i) == VisibleIn(p)[MaxIncludeDepth - i]

\* A frame whose includes have been read up to the next one.
Gathers(p, x, i) ==
  Matches(x.merged.services, Gathered(p, Below(p, i), x.file, 1 .. x.next - 1))

\* The services of a file before extends is looked at.
Unextended(services, own, inherited) ==
  /\ DOMAIN services = DOMAIN own \cup DOMAIN inherited
  /\ \A n \in DOMAIN own : services[n] = own[n]
  /\ \A n \in DOMAIN inherited \ DOMAIN own : Adds(services[n], inherited[n])

\* The longer the memo, the longer the lines in it may be.
InLine(m, line) ==
  /\ DOMAIN m \subseteq Key
  /\ \A key \in DOMAIN m : \A k \in Cardinality(DOMAIN m) .. Cardinality(Key) :
       Adds(m[key], line[k][key])

Inherited == InheritedBy(project, Below(project, Len(stack)), Top.file)

\* A service on the chain is one of the top file f or of another that can be read.
OnChain(p, f, services, key) ==
  /\ key \in Key
  /\ key[1] = f \/ Parses(p.files[key[1]])
  /\ key[2] \in IF key[1] = f THEN DOMAIN services ELSE DOMAIN OwnIn(p, key[1])

ExtendInv ==
  /\ Unextended(Top.merged.services, OwnIn(project, Top.file), Inherited)
  /\ InLine(memo, LineOf(project, Top.file, Inherited))
  /\ \A c \in 1 .. Len(chain) : OnChain(project, Top.file, Top.merged.services, chain[c])

Sound(x) ==
  /\ x.next <= Len(x.own.include) + 1
  /\ DOMAIN x.merged.services \subseteq Range(NameOrder)

\* Every file on the stack has what its includes up to now come to, the last one what
\* extends makes of its services as far as they are in the memo.
LineInv ==
  /\ VerdictInv /\ MemoInv
  /\ \A i \in 1 .. Len(stack) :
       /\ Sound(stack[i])
       /\ i < Len(stack) \/ stage = "include" => Gathers(project, stack[i], i)
  /\ stage = "extend" => ExtendInv
  /\ stage = "translate" => Matches(Services, VisibleIn(project)[MaxIncludeDepth][Primary])

\* At first nothing has been read.
LEMMA LineStarts == ImportInit => LineInv
<1> SUFFICES ASSUME ImportInit PROVE LineInv
  OBVIOUS
<1>1. stack = <<>> /\ stage = "begin"
  BY DEF ImportInit
<1>2. Len(stack) = 0
  BY <1>1
<1> QED
  BY <1>1, <1>2, VerdictStarts, MemoStarts DEF LineInv

\* A file on the stack is one of the project's that could be read.
LEMMA FileFacts ==
  ASSUME ReadingInv, NEW f \in ComposeFile, Parses(project.files[f])
  PROVE  /\ DOMAIN OwnIn(project, f) \subseteq Range(NameOrder)
         /\ \A n \in DOMAIN OwnIn(project, f) :
              /\ IsService(OwnIn(project, f)[n])
              /\ OwnIn(project, f)[n].extends.file \in ComposeFile \cup {None, Elsewhere}
BY ImportAssumption DEF ReadingInv, HasServices, OwnIn, Parses

\* A step on which nothing is read.
LEMMA LineSame ==
  ASSUME LineInv, VerdictInv', MemoInv', UNCHANGED <<project, order, stack, chain, memo>>,
         stage' = stage \/ stage' \in {"write", "fill", "end"}
  PROVE  LineInv'
<1>1. stage' = "extend" => ExtendInv'
  BY DEF LineInv, ExtendInv, Top, Inherited
<1>2. Primary' = Primary
  BY GraphSame
<1>3. stage' = "translate" => (Matches(Services, VisibleIn(project)[MaxIncludeDepth][Primary]))'
  BY <1>2 DEF LineInv, Services, Top
<1> QED
  BY <1>1, <1>3 DEF LineInv

\* What the definition of a service on the chain is.
LEMMA ChainFacts ==
  ASSUME LineInv, stage = "extend", NEW key,
         OnChain(project, Top.file, Top.merged.services, key), NEW d, d = DefinitionOf(key)
  PROVE  \/ /\ key[1] = Top.file /\ key[2] \notin DOMAIN OwnIn(project, Top.file)
            /\ Adds(d, Inherited[key[2]])
         \/ /\ ~ (key[1] = Top.file /\ key[2] \notin DOMAIN OwnIn(project, Top.file))
            /\ d = OwnIn(project, key[1])[key[2]] /\ IsService(d)
            /\ d.extends.file \in ComposeFile \cup {None, Elsewhere}
<1>1. /\ stack # <<>> /\ ReadingInv
  BY DEF LineInv, VerdictInv, ReadingInv
<1>2. /\ Top.file \in ComposeFile /\ Parses(project.files[Top.file])
  BY <1>1, TopFrame DEF IsFrame
<1>3. CASE key[1] = Top.file
  <2>1. d = Top.merged.services[key[2]] /\ key[2] \in DOMAIN Top.merged.services
    BY <1>3 DEF DefinitionOf, Body, OnChain
  <2>2. Unextended(Top.merged.services, OwnIn(project, Top.file), Inherited)
    BY DEF LineInv, ExtendInv
  <2>3. CASE key[2] \in DOMAIN OwnIn(project, Top.file)
    BY <1>1, <1>2, <1>3, <2>1, <2>2, <2>3, FileFacts DEF Unextended
  <2>4. CASE key[2] \notin DOMAIN OwnIn(project, Top.file)
    BY <1>3, <2>1, <2>2, <2>4 DEF Unextended
  <2> QED BY <2>3, <2>4
<1>4. CASE key[1] # Top.file
  <2>1. d = OwnIn(project, key[1])[key[2]] /\ key[2] \in DOMAIN OwnIn(project, key[1])
    BY <1>4 DEF DefinitionOf, Body, OnChain, OwnIn
  <2>2. key[1] \in ComposeFile /\ Parses(project.files[key[1]])
    BY <1>4 DEF OnChain, Key
  <2> QED BY <1>1, <1>4, <2>1, <2>2, FileFacts
<1> QED
  BY <1>3, <1>4

\* One more service is resolved.
LEMMA KeepsInLine ==
  ASSUME NEW p, NEW f, NEW inh, NEW m, NEW line, line = LineOf(p, f, inh), InLine(m, line),
         NEW key \in Key, key \notin DOMAIN m,
         NEW v, NEW s, s = OwnIn(p, key[1])[key[2]],
         NEW parent, parent = <<IF s.extends.file = None THEN key[1] ELSE s.extends.file, s.extends.service>>,
         IF key[1] = f /\ key[2] \notin DOMAIN OwnIn(p, f) THEN Adds(v, inh[key[2]])
         ELSE /\ IsService(s)
              /\ IF s.extends = NoExtends THEN v = s
                 ELSE parent \in DOMAIN m /\ v = MergeServiceSpecs(m[parent], s),
         NEW more, more = [k \in DOMAIN m \cup {key} |-> IF k = key THEN v ELSE m[k]]
  PROVE  InLine(more, line)
<1> DEFINE n == Cardinality(DOMAIN m)
           C == Cardinality(Key)
<1>1. /\ DOMAIN more = DOMAIN m \cup {key} /\ more[key] = v
      /\ \A k \in DOMAIN m : more[k] = m[k]
  OBVIOUS
<1>2. IsFiniteSet(DOMAIN m) /\ n \in Nat /\ C \in Nat
  BY KeysAreFinite, FS_Subset, FS_CardinalityType DEF InLine
<1>3. Cardinality(DOMAIN more) = n + 1
  BY <1>1, <1>2, FS_AddElement
<1> HIDE DEF n, C
<1>4. ASSUME NEW k \in n + 1 .. C PROVE Adds(v, line[k][key])
  <2>1. k \in 1 .. C /\ k - 1 \in n .. C
    BY <1>2
  <2>2. line[k][key] = LineStep(p, line[k - 1], f, inh, key)
    BY <2>1, LineUnfolds DEF C
  <2>3. CASE key[1] = f /\ key[2] \notin DOMAIN OwnIn(p, f)
    BY <2>2, <2>3 DEF LineStep
  <2>4. CASE ~ (key[1] = f /\ key[2] \notin DOMAIN OwnIn(p, f))
    <3>1. IsService(s)
      BY <2>4
    <3>2. CASE s.extends = NoExtends
      <4>1. line[k][key] = <<s>>
        BY <2>2, <2>4, <3>2 DEF LineStep
      <4> QED BY <2>4, <3>1, <3>2, <4>1, FirstOfLine
    <3>3. CASE s.extends # NoExtends
      <4>1. line[k][key] = Append(line[k - 1][parent], s)
        BY <2>2, <2>4, <3>3 DEF LineStep
      <4>2. parent \in DOMAIN m /\ v = MergeServiceSpecs(m[parent], s)
        BY <2>4, <3>3
      <4>3. Adds(m[parent], line[k - 1][parent])
        BY <2>1, <4>2 DEF InLine, n, C
      <4>4. Adds(MergeServiceSpecs(m[parent], s), Append(line[k - 1][parent], s))
        BY <3>1, <4>3, MergeAdds
      <4> QED BY <4>1, <4>2, <4>4
    <3> QED BY <3>2, <3>3
  <2> QED BY <2>3, <2>4
<1>5. ASSUME NEW x \in DOMAIN m, NEW k \in n + 1 .. C PROVE Adds(m[x], line[k][x])
  <2>1. k \in n .. C
    BY <1>2
  <2> QED BY <2>1 DEF InLine, n, C
<1>6. DOMAIN more \subseteq Key
  BY <1>1 DEF InLine
<1> QED
  BY <1>1, <1>3, <1>4, <1>5, <1>6 DEF InLine, C

\* A service is resolved, by itself or from what it extends.
LEMMA LineKept ==
  ASSUME LineInv, VerdictInv', MemoInv', StandsAlone \/ Inherit
  PROVE  LineInv'
<1>1. /\ stage = "extend" /\ chain # <<>> /\ chain' = Front(chain)
      /\ UNCHANGED <<project, order, stage, stack>>
  BY DEF StandsAlone, Inherit, Resolving
<1>2. Len(chain) \in Nat \ {0} /\ chain \in Seq(Range(chain)) /\ Current = chain[Len(chain)]
  <2>1. chain \in Seq(Range(chain))
    BY DEF LineInv, MemoInv, ReadingInv, IsSeq
  <2> QED BY <1>1, <2>1 DEF Current, Last
<1>3. /\ Len(chain') = Len(chain) - 1
      /\ \A i \in 1 .. Len(chain') : chain'[i] = chain[i] /\ i \in 1 .. Len(chain)
  <2> DEFINE n == Len(chain) - 1
  <2>1. n \in Nat /\ n <= Len(chain) /\ chain' = SubSeq(chain, 1, n)
    BY <1>1, <1>2 DEF Front
  <2> HIDE DEF n
  <2>2. Len(chain') = n /\ \A i \in 1 .. n : chain'[i] = chain[i]
    BY <1>2, <2>1
  <2>3. \A i \in 1 .. n : i \in 1 .. Len(chain)
    BY <1>2, <2>1
  <2> QED BY <2>2, <2>3 DEF n
<1> DEFINE key == Current
           d == Definition
           line == LineOf(project, Top.file, Inherited)
<1>4. key \notin DOMAIN memo /\ OnChain(project, Top.file, Top.merged.services, key)
  BY <1>1, <1>2 DEF LineInv, MemoInv, ExtendInv
<1>5. PICK v : /\ memo' = [k \in DOMAIN memo \cup {key} |-> IF k = key THEN v ELSE memo[k]]
               /\ IF d.extends = NoExtends THEN v = d
                  ELSE ParentOf(key) \in DOMAIN memo /\ v = MergeServiceSpecs(memo[ParentOf(key)], d)
  BY DEF StandsAlone, Inherit, Keep, Referred, BaseKey
<1>6. d = DefinitionOf(key)
  BY DEF Definition
<1>7. ParentOf(key) = <<IF d.extends.file = None THEN key[1] ELSE d.extends.file, d.extends.service>>
  BY <1>6 DEF ParentOf
<1> HIDE DEF key, d
<1>8. InLine(memo', line)
  <2> DEFINE s == OwnIn(project, key[1])[key[2]]
             parent == <<IF s.extends.file = None THEN key[1] ELSE s.extends.file, s.extends.service>>
             f == Top.file
             inh == Inherited
             m == memo
             more == memo'
  <2>1. IF key[1] = f /\ key[2] \notin DOMAIN OwnIn(project, f) THEN Adds(v, inh[key[2]])
        ELSE /\ IsService(s)
             /\ IF s.extends = NoExtends THEN v = s
                ELSE parent \in DOMAIN m /\ v = MergeServiceSpecs(m[parent], s)
    <3>1. CASE /\ key[1] = Top.file /\ key[2] \notin DOMAIN OwnIn(project, Top.file)
               /\ Adds(d, Inherited[key[2]])
      <4>1. d.extends = NoExtends
        BY <3>1 DEF Adds
      <4>2. v = d
        BY <1>5, <4>1
      <4> QED BY <3>1, <4>2
    <3>2. CASE /\ ~ (key[1] = Top.file /\ key[2] \notin DOMAIN OwnIn(project, Top.file))
               /\ d = OwnIn(project, key[1])[key[2]] /\ IsService(d)
               /\ d.extends.file \in ComposeFile \cup {None, Elsewhere}
      <4>1. d = s /\ parent = ParentOf(key)
        BY <1>7, <3>2
      <4> QED BY <1>5, <3>2, <4>1
    <3> QED BY <1>1, <1>4, <1>6, <3>1, <3>2, ChainFacts
  <2>2. InLine(m, line) /\ key \in Key /\ key \notin DOMAIN m
    BY <1>1, <1>4 DEF LineInv, ExtendInv, OnChain
  <2>3. more = [k \in DOMAIN m \cup {key} |-> IF k = key THEN v ELSE m[k]]
    BY <1>5
  <2> HIDE DEF s, parent, f, inh, m, more
  <2>4. s = OwnIn(project, key[1])[key[2]]
    BY DEF s
  <2>5. parent = <<IF s.extends.file = None THEN key[1] ELSE s.extends.file, s.extends.service>>
    BY DEF parent
  <2>6. line = LineOf(project, f, inh)
    BY DEF f, inh
  <2> HIDE DEF line
  <2>7. InLine(more, line)
    BY <2>1, <2>2, <2>3, <2>4, <2>5, <2>6, KeepsInLine
  <2> QED BY <2>7 DEF more
<1>10. ExtendInv'
  <2>1. \A c \in 1 .. Len(chain') : OnChain(project, Top.file, Top.merged.services, chain'[c])
    BY <1>1, <1>3 DEF LineInv, ExtendInv
  <2> QED BY <1>1, <1>8, <2>1 DEF LineInv, ExtendInv, Top, Inherited
<1> QED
  BY <1>1, <1>10 DEF LineInv

\* A service is taken up, or the chain goes on to what it extends.
LEMMA LineChain ==
  ASSUME LineInv, VerdictInv', MemoInv', TakeService \/ Follow
  PROVE  LineInv'
<1>1. stage = "extend" /\ UNCHANGED <<project, order, stage, memo>>
  BY DEF TakeService, Follow, Following, Resolving
<1>2. stack # <<>> /\ ReadingInv
  BY <1>1 DEF LineInv, MemoInv, ReadingInv
<1>3. /\ Len(stack) \in Nat \ {0} /\ Top = stack[Len(stack)]
      /\ Top.file \in ComposeFile /\ Parses(project.files[Top.file])
  BY <1>2, TopFrame DEF IsFrame
<1>4. Sound(Top) /\ ExtendInv
  BY <1>1, <1>3 DEF LineInv
<1>5. /\ Len(stack') = Len(stack)
      /\ Top' = stack'[Len(stack)]
      /\ \A i \in 1 .. Len(stack) : i # Len(stack) => stack'[i] = stack[i]
      /\ Top'.merged.services = Top.merged.services
      /\ Top'.file = Top.file /\ Top'.own = Top.own /\ Top'.next = Top.next
  <2>1. CASE TakeService
    BY <1>3, <2>1 DEF TakeService, Top, Last
  <2>2. CASE Follow
    <3> DEFINE m == [stack[Len(stack)].merged EXCEPT !.networks = @ \cup Body(BaseKey[1]).networks]
    <3>1. stack' = [stack EXCEPT ![Len(stack)] = [stack[Len(stack)] EXCEPT !.merged = m]]
      BY <2>2 DEF Follow
    <3>2. IsFile(stack[Len(stack)].merged)
      BY <1>3 DEF LineInv, MemoInv
    <3>3. m.services = Top.merged.services
      BY <1>3, <3>2 DEF IsFile
    <3> HIDE DEF m
    <3>4. /\ Len(stack') = Len(stack) /\ Top' = stack'[Len(stack)] /\ Top'.merged = m
          /\ \A i \in 1 .. Len(stack) : i # Len(stack) => stack'[i] = stack[i]
          /\ Top'.file = Top.file /\ Top'.own = Top.own /\ Top'.next = Top.next
      BY <1>2, <3>1, TopMerged
    <3>5. Top'.merged.services = Top.merged.services
      BY <3>3, <3>4
    <3> QED BY <3>4, <3>5
  <2> QED BY <2>1, <2>2
<1>6. ASSUME NEW i \in 1 .. Len(stack') 
      PROVE  Sound(stack'[i]) /\ (i < Len(stack') => Gathers(project, stack'[i], i))
  <2>1. CASE i = Len(stack)
    BY <1>3, <1>4, <1>5, <2>1 DEF Sound
  <2>2. CASE i # Len(stack)
    BY <1>3, <1>5, <2>2 DEF LineInv
  <2> QED BY <2>1, <2>2
<1>7. \A c \in 1 .. Len(chain') : OnChain(project, Top.file, Top.merged.services, chain'[c])
  <2>1. CASE TakeService
    <3>1. PICK n \in Unresolved : chain' = <<<<Top.file, n>>>>
      BY <2>1 DEF TakeService
    <3> DEFINE key == <<Top.file, n>>
    <3>2. Len(chain') = 1 /\ chain'[1] = key
      BY <3>1
    <3>3. key \in Key /\ key[1] = Top.file /\ key[2] \in DOMAIN Top.merged.services
      BY <1>3, <1>4 DEF Unresolved, Sound, Key
    <3> HIDE DEF key
    <3>4. OnChain(project, Top.file, Top.merged.services, key)
      BY <3>3 DEF OnChain
    <3> QED BY <3>2, <3>4
  <2>2. CASE Follow
    <3> DEFINE key == BaseKey
               cur == Current
               d == Definition
    <3>1. /\ chain' = Append(chain, key) /\ chain # <<>> /\ d.extends # NoExtends
          /\ ParentRefused = None
      BY <2>2 DEF Follow, Following, Resolving, Referred
    <3>2. chain \in Seq(Range(chain)) /\ IsSeq(chain)
      BY <1>2 DEF ReadingInv, IsSeq
    <3>3. Len(chain) \in Nat \ {0} /\ cur = chain[Len(chain)]
      BY <3>1, <3>2 DEF Current, Last
    <3>4. OnChain(project, Top.file, Top.merged.services, cur)
      BY <1>4, <3>3 DEF ExtendInv
    <3>5. d = DefinitionOf(cur) /\ key = <<IF d.extends.file = None THEN cur[1] ELSE d.extends.file, d.extends.service>>
      BY DEF Definition, BaseKey, ParentOf
    <3>6. /\ key[1] # Top.file => Opened(key[1]) = "ok"
          /\ key[2] \in DOMAIN Body(key[1]).services
          /\ d.extends.file # Elsewhere
      BY <3>1, ImportAssumption DEF ParentRefused, Uncoded, Referred
    <3> HIDE DEF key, cur, d
    <3>7. d.extends.file \in ComposeFile \cup {None, Elsewhere}
      BY <1>1, <3>1, <3>4, <3>5, ChainFacts DEF Adds
    <3>8. key[1] \in ComposeFile
      BY <3>4, <3>5, <3>6, <3>7 DEF OnChain, Key
    <3>9. key[1] # Top.file => Parses(project.files[key[1]])
      BY <3>6 DEF Opened
    <3>10. /\ key[1] = Top.file => Body(key[1]).services = Top.merged.services
           /\ key[1] # Top.file => Body(key[1]).services = OwnIn(project, key[1])
      BY DEF Body, OwnIn
    <3>11. key[2] \in Range(NameOrder)
      <4>1. CASE key[1] = Top.file
        BY <1>4, <3>6, <3>10, <4>1 DEF Sound
      <4>2. CASE key[1] # Top.file
        BY <1>2, <3>6, <3>8, <3>9, <3>10, <4>2, FileFacts
      <4> QED BY <4>1, <4>2
    <3>12. key \in Key
      <4>1. key = <<key[1], key[2]>>
        BY <3>5
      <4> QED BY <3>8, <3>11, <4>1 DEF Key
    <3>13. OnChain(project, Top.file, Top.merged.services, key)
      BY <3>6, <3>9, <3>10, <3>12 DEF OnChain
    <3>14. /\ Len(chain') = Len(chain) + 1
           /\ \A c \in 1 .. Len(chain) : chain'[c] = chain[c]
           /\ chain'[Len(chain) + 1] = key
      BY <3>1, <3>2, Appended
    <3>15. \A c \in 1 .. Len(chain') : c \in 1 .. Len(chain) \/ c = Len(chain) + 1
      BY <3>3, <3>14
    <3> QED BY <1>4, <3>13, <3>14, <3>15 DEF ExtendInv
  <2> QED BY <2>1, <2>2
<1>8. ExtendInv'
  <2>1. Inherited' = Inherited
    BY <1>1, <1>5 DEF Inherited
  <2> QED BY <1>1, <1>4, <1>5, <1>7, <2>1 DEF ExtendInv
<1> QED
  BY <1>1, <1>6, <1>8 DEF LineInv

\* A file is opened, or cannot be.
LEMMA LineOpens ==
  ASSUME LineInv, VerdictInv', MemoInv', NEW f, Open(f), stack # <<>> => stage = "include"
  PROVE  LineInv'
<1>1. CASE Opened(f) # "ok"
  BY <1>1, LineSame DEF Open, Reject, reading
<1>2. CASE Opened(f) = "ok"
  <2> DEFINE x == Frame(f, project.files[f])
             n == Len(stack)
             k == n + 1
  <2>1. /\ stack' = Append(stack, x) /\ stage' = "include"
        /\ UNCHANGED <<project, order, chain, memo>>
    BY <1>2 DEF Open
  <2>2. x.merged.services = <<>> /\ x.next = 1 /\ x.own = project.files[f] /\ x.file = f
    BY DEF Frame, EmptyFile
  <2> HIDE DEF x
  <2>3. /\ Len(stack') = k /\ n \in Nat
        /\ \A i \in 1 .. n : stack'[i] = stack[i]
        /\ stack'[k] = x
    BY <2>1, Appended DEF LineInv, MemoInv, ReadingInv
  <2> HIDE DEF n
  <2>4. \A i \in 1 .. k : i \in 1 .. n \/ i = k
    BY <2>3
  <2>5. Sound(x)
    <3>1. IsFrame(stack'[k], project') /\ project' \in Projects
      BY <2>3 DEF MemoInv, ReadingInv
    <3>2. x.own.include \in Seq(Range(x.own.include))
      BY <2>1, <2>3, <3>1, ImportAssumption DEF IsFrame, IncludesFiles, Parses
    <3> QED BY <2>2, <3>2 DEF Sound
  <2>6. Gathers(project, x, k)
    <3>1. DOMAIN x.merged.services = {} /\ 1 .. x.next - 1 = 1 .. 0
      BY <2>2
    <3> QED BY <3>1, GatheredNone DEF Gathers, Matches
  <2>7. \A i \in 1 .. n : Sound(stack[i]) /\ Gathers(project, stack[i], i)
    <3>1. 1 .. n # {} => stack # <<>>
      BY NothingYet DEF n
    <3> QED BY <3>1 DEF LineInv, n
  <2> QED BY <2>1, <2>3, <2>4, <2>5, <2>6, <2>7 DEF LineInv
<1> QED
  BY <1>1, <1>2

\* The file's own entries go on top.
LEMMA LineOwnPart ==
  ASSUME LineInv, VerdictInv', MemoInv', OwnPartWins
  PROVE  LineInv'
<1>1. /\ stage = "include" /\ stage' = "extend" /\ memo' = <<>> /\ chain' = chain
      /\ UNCHANGED <<project, order>> /\ Top.next > Len(Top.own.include)
  BY DEF OwnPartWins
<1>2. stack # <<>> /\ ReadingInv /\ chain = <<>>
  BY <1>1 DEF LineInv, MemoInv, ReadingInv
<1>3. /\ Len(stack) \in Nat \ {0} /\ Top = stack[Len(stack)] /\ IsFrame(Top, project)
      /\ Top.file \in ComposeFile /\ Parses(project.files[Top.file])
      /\ Top.own = project.files[Top.file] /\ Top.next \in Nat \ {0}
  BY <1>2, TopFrame DEF IsFrame
<1> DEFINE services == Override(Top.merged.services, Top.own.services)
<1>4. /\ Len(stack') = Len(stack) /\ Top' = stack'[Len(stack)]
      /\ \A i \in 1 .. Len(stack) : i # Len(stack) => stack'[i] = stack[i]
      /\ Top'.merged.services = services
      /\ Top'.file = Top.file /\ Top'.own = Top.own /\ Top'.next = Top.next
  <2> DEFINE m == Overlay(stack[Len(stack)].merged, Top.own)
  <2>1. stack' = [stack EXCEPT ![Len(stack)] = [stack[Len(stack)] EXCEPT !.merged = m]]
    BY DEF OwnPartWins
  <2>2. IsFile(Top.merged)
    BY <1>3 DEF LineInv, MemoInv
  <2>3. m.services = services
    BY <1>3, <2>2 DEF IsFile, Overlay
  <2> HIDE DEF m, services
  <2>4. /\ Len(stack') = Len(stack) /\ Top' = stack'[Len(stack)] /\ Top'.merged = m
        /\ \A i \in 1 .. Len(stack) : i # Len(stack) => stack'[i] = stack[i]
        /\ Top'.file = Top.file /\ Top'.own = Top.own /\ Top'.next = Top.next
    BY <1>2, <2>1, TopMerged
  <2> QED BY <2>3, <2>4
<1>5. Sound(Top) /\ Gathers(project, Top, Len(stack))
  BY <1>1, <1>3 DEF LineInv
<1>6. Matches(Top.merged.services, Inherited)
  <2>1. /\ Top.own.include \in Seq(Range(Top.own.include))
        /\ Top.next <= Len(Top.own.include) + 1
    BY <1>2, <1>3, <1>5, ImportAssumption DEF ReadingInv, IncludesFiles, Sound, Parses
  <2>2. 1 .. Top.next - 1 = DOMAIN project.files[Top.file].include
    BY <1>1, <1>3, <2>1
  <2> QED BY <1>5, <2>2 DEF Gathers, Inherited, InheritedBy
<1>7. services = Override(Top.merged.services, OwnIn(project, Top.file))
  BY <1>3 DEF OwnIn
<1> HIDE DEF services
<1>8. Unextended(services, OwnIn(project, Top.file), Inherited)
  BY <1>6, <1>7 DEF Unextended, Matches, Override
<1>9. DOMAIN services \subseteq Range(NameOrder)
  <2>1. DOMAIN OwnIn(project, Top.file) \subseteq Range(NameOrder)
    BY <1>2, <1>3, FileFacts
  <2> QED BY <1>5, <1>7, <2>1 DEF Sound, Override
<1>10. ASSUME NEW i \in 1 .. Len(stack')
       PROVE  Sound(stack'[i]) /\ (i < Len(stack') => Gathers(project, stack'[i], i))
  <2>1. CASE i = Len(stack)
    BY <1>3, <1>4, <1>5, <1>9, <2>1 DEF Sound
  <2>2. CASE i # Len(stack)
    BY <1>3, <1>4, <2>2 DEF LineInv
  <2> QED BY <2>1, <2>2
<1>11. ExtendInv'
  <2>1. Inherited' = Inherited
    BY <1>1, <1>4 DEF Inherited
  <2>2. DOMAIN memo' = {} /\ 1 .. Len(chain') = {}
    BY <1>1, <1>2, NothingYet
  <2>3. InLine(memo', LineOf(project, Top.file, Inherited))
    BY <2>2 DEF InLine
  <2> QED BY <1>1, <1>4, <1>8, <2>1, <2>2, <2>3 DEF ExtendInv
<1> QED
  BY <1>1, <1>10, <1>11 DEF LineInv

\* A file whose services are all resolved has what the reference says it has.
LEMMA ResolvedMatches ==
  ASSUME LineInv, stage = "extend", Unresolved = {}
  PROVE  /\ Len(stack) \in 1 .. MaxIncludeDepth
         /\ Matches(Resolved.services, VisibleIn(project)[MaxIncludeDepth - Len(stack) + 1][Top.file])
         /\ DOMAIN Resolved.services \subseteq Range(NameOrder)
<1>1. stack # <<>> /\ ReadingInv
  BY DEF LineInv, MemoInv, ReadingInv
<1>2. /\ Len(stack) \in Nat \ {0} /\ Top = stack[Len(stack)]
      /\ Top.file \in ComposeFile /\ Parses(project.files[Top.file])
  BY <1>1, TopFrame DEF IsFrame
<1>3. Len(stack) \in 1 .. MaxIncludeDepth
  BY <1>1, <1>2, ImportAssumption DEF ReadingInv, IncludesStayInside
<1> DEFINE f == Top.file
           services == Top.merged.services
           own == OwnIn(project, f)
           line == LineOf(project, f, Inherited)
           C == Cardinality(Key)
<1>4. Unextended(services, own, Inherited) /\ InLine(memo, line)
  BY DEF LineInv, ExtendInv
<1>5. Sound(Top) /\ IsFile(Top.merged)
  BY <1>2 DEF LineInv, MemoInv
<1>6. Resolved.services = [n \in DOMAIN services |-> memo[<<f, n>>]]
  BY <1>5 DEF Resolved, IsFile
<1>7. VisibleIn(project)[MaxIncludeDepth - Len(stack) + 1][f]
        = [n \in DOMAIN own \cup DOMAIN Inherited |-> line[C][<<f, n>>]]
  <2> DEFINE k == MaxIncludeDepth - Len(stack) + 1
  <2>1. k \in 1 .. MaxIncludeDepth /\ k - 1 = MaxIncludeDepth - Len(stack)
    BY <1>3, ImportAssumption
  <2> HIDE DEF k
  <2>2. VisibleIn(project)[k][f] = VisibleStep(project, VisibleIn(project)[k - 1], f)
    BY <1>2, <2>1, VisibleUnfolds
  <2>3. VisibleIn(project)[k - 1] = Below(project, Len(stack))
    BY <2>1 DEF Below
  <2> QED BY <2>2, <2>3 DEF VisibleStep, Inherited, k
<1>8. ASSUME NEW n \in DOMAIN services PROVE Adds(memo[<<f, n>>], line[C][<<f, n>>])
  <2>1. <<f, n>> \in DOMAIN memo
    BY DEF Unresolved
  <2>2. C \in Cardinality(DOMAIN memo) .. C
    BY <1>4, KeysAreFinite, FS_Subset, FS_CardinalityType DEF InLine
  <2> QED BY <1>4, <2>1, <2>2 DEF InLine
<1>9. DOMAIN services = DOMAIN own \cup DOMAIN Inherited /\ DOMAIN services \subseteq Range(NameOrder)
  BY <1>4, <1>5 DEF Unextended, Sound
<1> HIDE DEF services, own, line, f, C
<1> QED
  BY <1>3, <1>6, <1>7, <1>8, <1>9 DEF Matches, f

\* An included file is complete: it goes on top of what its parent has so far.
LEMMA LineFileDone ==
  ASSUME LineInv, VerdictInv', MemoInv', FileDone
  PROVE  LineInv'
<1> DEFINE m == Len(stack)
           n == Len(stack) - 1
           x == stack[n]
           y == stack'[n]
<1>1. /\ stage = "extend" /\ stage' = "include" /\ m > 1 /\ Unresolved = {}
      /\ UNCHANGED <<project, order>>
  BY DEF FileDone
<1>2. stack # <<>> /\ ReadingInv
  BY <1>1 DEF LineInv, MemoInv, ReadingInv
<1>3. m \in Nat /\ n \in Nat \ {0} /\ n + 1 = m /\ n \in 1 .. m /\ n \in 1 .. Len(stack) - 1
      /\ Top = stack[n + 1]
  BY <1>1, <1>2, TopFrame
<1>4. stack' = [i \in 1 .. n |-> IF i < n THEN stack[i]
                  ELSE [stack[i] EXCEPT !.merged = Overlay(@, Resolved), !.next = @ + 1]]
  BY DEF FileDone
<1>5. Matches(Resolved.services, Below(project, n)[Top.file])
      /\ DOMAIN Resolved.services \subseteq Range(NameOrder)
  <2>1. MaxIncludeDepth - Len(stack) + 1 = MaxIncludeDepth - n
    BY <1>3, ImportAssumption
  <2> QED BY <1>1, <2>1, ResolvedMatches DEF Below
<1>6. /\ IsFrame(x, project) /\ IsFile(x.merged) /\ Sound(x) /\ Gathers(project, x, n)
  BY <1>3 DEF LineInv, MemoInv, ReadingInv
<1>7. /\ x.next <= Len(x.own.include)
      /\ x.own.include[x.next].kind = "path" /\ x.own.include[x.next].file = Top.file
  BY <1>3 DEF LineInv, VerdictInv, Linked
<1>8. x.own.include \in Seq(Range(x.own.include)) /\ x.own = project.files[x.file]
      /\ x.next \in Nat \ {0}
  BY <1>2, <1>6, ImportAssumption DEF ReadingInv, IsFrame, IncludesFiles, Parses
<1> HIDE DEF n, m
<1>9. Len(stack') = n
  <2>1. n \in Nat /\ stack' \in [1 .. n -> Range(stack')]
    BY <1>3, <1>4 DEF Range
  <2> QED BY <2>1
<1>10. \A i \in 1 .. n : i # n => stack'[i] = stack[i] /\ i \in 1 .. Len(stack) /\ i < Len(stack)
  <2>1. \A i \in 1 .. n : i # n => i < n /\ i \in 1 .. m /\ i < m
    BY <1>3
  <2> QED BY <1>4, <2>1 DEF m
<1>11. /\ y.file = x.file /\ y.own = x.own /\ y.next = x.next + 1
       /\ y.merged.services = Override(x.merged.services, Resolved.services)
  <2>1. n \in 1 .. n /\ ~ (n < n)
    BY <1>3
  <2>2. y = [x EXCEPT !.merged = Overlay(@, Resolved), !.next = @ + 1]
    BY <1>4, <2>1
  <2> HIDE DEF x, y
  <2>3. /\ y.file = x.file /\ y.own = x.own /\ y.next = x.next + 1
        /\ y.merged = Overlay(x.merged, Resolved)
    BY <1>6, <2>2 DEF IsFrame
  <2>4. y.merged.services = Override(x.merged.services, Resolved.services)
    BY <1>6, <2>3 DEF IsFile, Overlay
  <2> QED BY <2>3, <2>4
<1> HIDE DEF x, y
<1>12. Sound(y)
  <2>1. y.next <= Len(y.own.include) + 1
    BY <1>7, <1>8, <1>11
  <2>2. DOMAIN y.merged.services \subseteq Range(NameOrder)
    BY <1>5, <1>6, <1>11 DEF Sound, Override
  <2> QED BY <2>1, <2>2 DEF Sound
<1>13. Gathers(project, y, n)
  <2> DEFINE below == Below(project, n)
             k == x.next - 1
  <2>1. k \in Nat /\ k + 1 = x.next /\ y.next - 1 = k + 1
    BY <1>8, <1>11
  <2>2. SeenBelow(project, below, x.file, k + 1) = below[Top.file]
    BY <1>7, <1>8, <2>1 DEF SeenBelow
  <2> HIDE DEF below, k
  <2>3. Gathered(project, below, x.file, 1 .. k + 1)
          = Override(Gathered(project, below, x.file, 1 .. k), below[Top.file])
    BY <2>1, <2>2, GatheredOneMore
  <2>4. Matches(x.merged.services, Gathered(project, below, x.file, 1 .. k))
    BY <1>6 DEF Gathers, below, k
  <2>5. Matches(Resolved.services, below[Top.file])
    BY <1>5 DEF below
  <2>6. Matches(y.merged.services, Gathered(project, below, x.file, 1 .. k + 1))
    BY <1>11, <2>3, <2>4, <2>5, MatchesOverride
  <2> QED BY <1>11, <2>1, <2>6 DEF Gathers, below
<1>14. ASSUME NEW i \in 1 .. n PROVE Sound(stack'[i]) /\ Gathers(project, stack'[i], i)
  <2>1. CASE i = n
    BY <1>12, <1>13, <2>1 DEF y
  <2>2. CASE i # n
    BY <1>10, <2>2 DEF LineInv
  <2> QED BY <2>1, <2>2
<1> QED
  BY <1>1, <1>9, <1>14 DEF LineInv

\* The primary is complete.
LEMMA LineLoadDone ==
  ASSUME LineInv, VerdictInv', MemoInv', LoadDone
  PROVE  LineInv'
<1>1. /\ stage = "extend" /\ stage' = "translate" /\ Len(stack) = 1 /\ Unresolved = {}
      /\ UNCHANGED <<project, order>>
      /\ stack' = <<[Top EXCEPT !.merged = Resolved]>>
  BY DEF LoadDone
<1>2. stack # <<>> /\ ReadingInv
  BY <1>1 DEF LineInv, MemoInv, ReadingInv
<1>3. IsFrame(Top, project) /\ Top = stack[1] /\ Top.file = Primary /\ Sound(Top)
  BY <1>1, <1>2, TopFrame DEF LineInv, VerdictInv
<1>4. /\ Matches(Resolved.services, VisibleIn(project)[MaxIncludeDepth - 1 + 1][Primary])
      /\ DOMAIN Resolved.services \subseteq Range(NameOrder)
  BY <1>1, <1>3, ResolvedMatches
<1>5. MaxIncludeDepth - 1 + 1 = MaxIncludeDepth
  BY ImportAssumption
<1> DEFINE y == [Top EXCEPT !.merged = Resolved]
<1>6. y.merged = Resolved /\ y.own = Top.own /\ y.next = Top.next
  BY <1>3 DEF IsFrame
<1>7. stack' = <<y>>
  BY <1>1
<1> HIDE DEF y
<1>8. Len(stack') = 1 /\ stack'[1] = y /\ Top' = y
  BY <1>7 DEF Top, Last
<1>9. Sound(y)
  BY <1>3, <1>4, <1>6 DEF Sound
<1>10. Primary' = Primary
  BY <1>1, GraphSame
<1>11. (Matches(Services, VisibleIn(project)[MaxIncludeDepth][Primary]))'
  BY <1>1, <1>4, <1>5, <1>6, <1>8, <1>10 DEF Services
<1>12. \A i \in 1 .. Len(stack') : i = 1 /\ ~ (i < Len(stack'))
  BY <1>8
<1> QED
  BY <1>1, <1>8, <1>9, <1>11, <1>12 DEF LineInv

\* Every step of an import keeps what is known of the lines.
LEMMA LineInductive == LineInv /\ Grounded /\ [ImportNext]_importVars => LineInv'
<1> SUFFICES ASSUME LineInv, Grounded, [ImportNext]_importVars PROVE LineInv'
  OBVIOUS
<1>0. VerdictInv' /\ MemoInv'
  BY VerdictInductive, MemoInductive DEF LineInv
<1>1. CASE OpenPrimary \/ IncludeOpens
  <2>1. CASE OpenPrimary
    <3>1. Open(Primary) /\ stack = <<>>
      BY <2>1 DEF OpenPrimary, MayBegin, LineInv, MemoInv, ReadingInv
    <3> QED BY <1>0, <3>1, LineOpens
  <2>2. CASE IncludeOpens
    <3>1. Open(Included.file) /\ stage = "include"
      BY <2>2 DEF IncludeOpens, Inside, Local, Including
    <3> QED BY <1>0, <3>1, LineOpens
  <2> QED BY <1>1, <2>1, <2>2
<1>2. CASE OwnPartWins \/ FileDone \/ LoadDone
  BY <1>0, <1>2, LineOwnPart, LineFileDone, LineLoadDone
<1>3. CASE StandsAlone \/ Inherit \/ TakeService \/ Follow
  BY <1>0, <1>3, LineKept, LineChain
<1>4. CASE \/ TargetExists \/ UseTemplate \/ UseDockerfile \/ IncludeUnsupported \/ IncludeEscapes
           \/ IncludeCycle \/ IncludeTooDeep \/ ExtendsRefused \/ TranslateRefused \/ Translate
  <2>1. UNCHANGED <<project, order, stack, chain, memo>> /\ stage' \in {"write", "end"}
    BY <1>4 DEF TargetExists, UseTemplate, UseDockerfile, IncludeUnsupported, IncludeEscapes,
       IncludeCycle, IncludeTooDeep, ExtendsRefused, TranslateRefused, Translate, Reject, Produce,
       reading
  <2> QED BY <1>0, <2>1, LineSame
<1>5. CASE \/ ToStdout \/ OpenTarget \/ FillTarget \/ TargetWriteFails \/ SomebodyWrites
           \/ UNCHANGED importVars
  <2>1. /\ UNCHANGED <<project, order, stack, chain, memo>>
        /\ stage' = stage \/ stage' \in {"fill", "end"}
    BY <1>5 DEF ToStdout, OpenTarget, FillTarget, TargetWriteFails, SomebodyWrites, Reject, reading,
       importVars
  <2> QED BY <1>0, <2>1, LineSame
<1> QED
  BY <1>1, <1>2, <1>3, <1>4, <1>5 DEF ImportNext, Include, Extend

\* When a project is translated, it has exactly the services its file and the files
\* included from there define. Each is what its line of definitions adds up to: a
\* field that only one definition can give comes from the nearest that has it,
\* lists are joined and maps united. The includer is nearer than the included, a later
\* include than an earlier one, a service than what it extends.
THEOREM NearestWins == ImportSpec => []NearestDefinitionWins
<1>1. LineInv => NearestDefinitionWins
  <2> SUFFICES ASSUME LineInv, stage = "translate"
               PROVE  /\ DOMAIN Services = DOMAIN Lines(Primary)
                      /\ \A n \in DOMAIN Services : DescendsFrom(Services[n], Lines(Primary)[n])
    BY DEF NearestDefinitionWins
  <2>1. Lines(Primary) = VisibleIn(project)[MaxIncludeDepth][Primary]
    BY VisibleIs DEF Lines
  <2>2. Matches(Services, Lines(Primary))
    BY <2>1 DEF LineInv
  <2> QED BY <2>2 DEF Matches, Adds
<1>2. LineInv /\ Grounded /\ [ImportNext]_importVars => LineInv' /\ Grounded'
  BY LineInductive, GroundedInductive DEF LineInv
<1> QED
  BY <1>1, <1>2, LineStarts, GroundedStarts, PTL DEF ImportSpec

-----------------------------------------------------------------------------
\* What an import is refused with.

\* Every service on the chain extends the next, and the first is one of the top file.
Chained ==
  stage = "extend" =>
    /\ chain # <<>> => chain[1][1] = Top.file
    /\ \A k \in 1 .. Len(chain) - 1 :
         DefinitionOf(chain[k]).extends # NoExtends /\ chain[k + 1] = ParentOf(chain[k])

AnswerInv ==
  /\ LineInv /\ Grounded /\ Chained
  /\ outcome \in ReadingCodes => Reason(outcome)

LEMMA ChainedStarts == ImportInit => Chained
BY DEF ImportInit, Chained

\* The chain goes on with the parent of its last service.
LEMMA FollowChains ==
  ASSUME MemoInv, Chained, Follow
  PROVE  Chained'
<1>1. /\ stage = "extend" /\ UNCHANGED <<project, stage>> /\ chain # <<>>
      /\ chain' = Append(chain, BaseKey) /\ Referred # NoExtends
  BY DEF Follow, Following, Resolving
<1>2. stack # <<>> /\ ReadingInv
  BY <1>1 DEF MemoInv, ReadingInv
<1>3. \A key : DefinitionOf(key)' = DefinitionOf(key) /\ ParentOf(key)' = ParentOf(key)
  BY <1>1, <1>2, FollowTop, DefinitionsSame
<1>4. Len(chain) \in Nat \ {0} /\ Current = chain[Len(chain)] /\ IsSeq(chain)
  <2>1. chain \in Seq(Range(chain))
    BY <1>2 DEF ReadingInv, IsSeq
  <2> QED
    BY <1>1, <2>1 DEF Current, Last, IsSeq
<1> DEFINE key == BaseKey
<1>5. /\ DefinitionOf(chain[Len(chain)]).extends # NoExtends
      /\ key = ParentOf(chain[Len(chain)])
  BY <1>1, <1>4 DEF Referred, Definition, BaseKey
<1>6. chain' = Append(chain, key)
  BY <1>1
<1> HIDE DEF key
<1>7. /\ Len(chain') = Len(chain) + 1
      /\ \A k \in 1 .. Len(chain) : chain'[k] = chain[k]
      /\ chain'[Len(chain) + 1] = key
  BY <1>4, <1>6, Appended
<1>8. \A k \in 1 .. Len(chain') - 1 :
        DefinitionOf(chain'[k]).extends # NoExtends /\ chain'[k + 1] = ParentOf(chain'[k])
  <2> SUFFICES ASSUME NEW k \in 1 .. Len(chain)
               PROVE  DefinitionOf(chain[k]).extends # NoExtends /\ chain'[k + 1] = ParentOf(chain[k])
    BY <1>4, <1>7
  <2>1. CASE k = Len(chain)
    BY <1>5, <1>7, <2>1
  <2>2. CASE k # Len(chain)
    <3>1. k \in 1 .. Len(chain) - 1 /\ k + 1 \in 1 .. Len(chain)
      BY <1>4, <2>2
    <3> QED
      BY <1>1, <1>7, <3>1 DEF Chained
  <2> QED
    BY <2>1, <2>2
<1>9. chain'[1][1] = Top'.file
  <2>1. 1 \in 1 .. Len(chain)
    BY <1>4
  <2> QED
    BY <1>1, <1>2, <1>7, <2>1, FollowTop DEF Chained
<1> QED
  BY <1>3, <1>8, <1>9 DEF Chained

\* It gets shorter when a service is resolved.
LEMMA FrontChains ==
  ASSUME MemoInv, Chained, StandsAlone \/ Inherit
  PROVE  Chained'
<1>1. /\ stage = "extend" /\ chain # <<>> /\ chain' = Front(chain)
      /\ UNCHANGED <<project, stage, stack>>
  BY DEF StandsAlone, Inherit, Resolving
<1>2. Len(chain) \in Nat \ {0} /\ chain \in Seq(Range(chain))
  BY <1>1 DEF MemoInv, ReadingInv, IsSeq
<1>3. /\ chain' \in Seq(Range(chain)) /\ Len(chain') = Len(chain) - 1
      /\ \A k \in 1 .. Len(chain') : chain'[k] = chain[k]
  <2> DEFINE n == Len(chain) - 1
             S == Range(chain)
  <2>1. n \in Nat /\ n <= Len(chain) /\ chain \in Seq(S) /\ chain' = SubSeq(chain, 1, n)
    BY <1>1, <1>2 DEF Front
  <2> HIDE DEF n, S
  <2>2. chain' \in Seq(S) /\ Len(chain') = n /\ \A k \in 1 .. n : chain'[k] = chain[k]
    BY <2>1
  <2> QED
    BY <2>2 DEF n, S
<1>4. Top' = Top
  BY <1>1 DEF Top
<1>5. \A key : DefinitionOf(key)' = DefinitionOf(key) /\ ParentOf(key)' = ParentOf(key)
  BY <1>1, <1>4, DefinitionsSame
<1>6. \A k \in 1 .. Len(chain') - 1 :
        k \in 1 .. Len(chain') /\ k + 1 \in 1 .. Len(chain') /\ k \in 1 .. Len(chain) - 1
  BY <1>2, <1>3
<1>7. chain' # <<>> => 1 \in 1 .. Len(chain')
  BY <1>3
<1>8. chain' # <<>> => chain'[1][1] = Top'.file
  BY <1>1, <1>3, <1>4, <1>7 DEF Chained
<1>9. \A k \in 1 .. Len(chain') - 1 :
        DefinitionOf(chain'[k]).extends # NoExtends /\ chain'[k + 1] = ParentOf(chain'[k])
  BY <1>1, <1>3, <1>6 DEF Chained
<1> QED
  BY <1>5, <1>8, <1>9 DEF Chained

LEMMA ChainedInductive == MemoInv /\ Chained /\ [ImportNext]_importVars => Chained'
<1> SUFFICES ASSUME MemoInv, Chained, [ImportNext]_importVars PROVE Chained'
  OBVIOUS
<1>1. CASE OwnPartWins
  <2>1. chain' = <<>>
    BY <1>1 DEF OwnPartWins, MemoInv, ReadingInv
  <2>2. 1 .. Len(chain') - 1 = {}
    BY <2>1
  <2> QED
    BY <2>1, <2>2 DEF Chained
<1>2. CASE TakeService
  <2>1. PICK n \in Unresolved : chain' = <<<<Top.file, n>>>>
    BY <1>2 DEF TakeService
  <2>2. Len(chain') = 1 /\ chain'[1][1] = Top.file /\ 1 .. Len(chain') - 1 = {}
    BY <2>1
  <2>3. Top' = Top
    BY <1>2 DEF TakeService, Top
  <2> QED
    BY <2>2, <2>3 DEF Chained
<1>3. CASE stage' # "extend"
  BY <1>3 DEF Chained
<1>4. CASE UNCHANGED <<project, stage, stack, chain, memo>>
  <2>1. \A key : DefinitionOf(key)' = DefinitionOf(key) /\ ParentOf(key)' = ParentOf(key)
    BY <1>4, DefinitionsSame DEF Top
  <2> QED
    BY <1>4, <2>1 DEF Chained, Top
<1>5. CASE OpenPrimary \/ IncludeOpens
  BY <1>3, <1>5 DEF OpenPrimary, IncludeOpens, Open, Reject
<1>6. CASE \/ TargetExists \/ UseTemplate \/ UseDockerfile \/ IncludeUnsupported \/ IncludeEscapes
           \/ IncludeCycle \/ IncludeTooDeep \/ ExtendsRefused \/ TranslateRefused \/ Translate
           \/ FileDone \/ LoadDone
  BY <1>3, <1>6 DEF TargetExists, UseTemplate, UseDockerfile, IncludeUnsupported, IncludeEscapes,
     IncludeCycle, IncludeTooDeep, ExtendsRefused, TranslateRefused, Translate, FileDone, LoadDone,
     Reject, Produce
<1>7. CASE \/ ToStdout \/ OpenTarget \/ FillTarget \/ TargetWriteFails \/ SomebodyWrites
           \/ UNCHANGED importVars
  BY <1>3, <1>4, <1>7 DEF ToStdout, OpenTarget, FillTarget, TargetWriteFails, SomebodyWrites,
     Reject, reading, importVars
<1> QED
  BY <1>1, <1>2, <1>5, <1>6, <1>7, FollowChains, FrontChains DEF ImportNext, Include, Extend

\* The chain is a line of definitions, each of a file itself.
LEMMA ChainIsLineage ==
  ASSUME LineInv, Grounded, Chained, Following
  PROVE  /\ chain \in Lineages(Top.file) /\ Last(chain) = Current
         /\ Extends(Current) = Referred
<1>1. stage = "extend" /\ chain # <<>> /\ Referred # NoExtends /\ ReadingInv
  BY DEF Following, Resolving, LineInv, VerdictInv
<1> DEFINE n == Len(chain)
<1>2. chain \in Seq(Range(chain))
  BY <1>1 DEF ReadingInv, IsSeq
<1>3. n \in Nat \ {0} /\ DOMAIN chain = 1 .. n /\ n \in 1 .. n /\ Current = chain[n] /\ Last(chain) = chain[n]
  BY <1>1, <1>2 DEF Current, Last
<1>4. n \in 1 .. MaxIncludeDepth
  BY <1>1, <1>3, ImportAssumption DEF ReadingInv, ExtendsStayInside
<1>5. \A k \in 1 .. n : k \in 1 .. n - 1 \/ k = n
  <2> HIDE DEF n
  <2> QED
    BY <1>3
<1>6. ASSUME NEW k \in 1 .. n PROVE DefinitionOf(chain[k]).extends # NoExtends
  <2>1. DefinitionOf(chain[n]).extends # NoExtends
    BY <1>1, <1>3 DEF Referred, Definition
  <2> QED
    BY <1>1, <1>5, <2>1 DEF Chained
<1>7. ASSUME NEW k \in 1 .. n PROVE chain[k] \in Defined
  <2> DEFINE key == chain[k]
  <2>1. OnChain(project, Top.file, Top.merged.services, key)
    BY <1>1 DEF LineInv, ExtendInv
  <2>2. key[2] \in DOMAIN Own(key[1])
    <3>1. \/ key[1] = Top.file /\ key[2] \in DOMAIN OwnIn(project, Top.file)
          \/ key[1] # Top.file
      BY <1>1, <1>6, <2>1, ChainFacts DEF Adds
    <3> QED
      BY <2>1, <3>1 DEF OnChain, Own, OwnIn
  <2>3. key \in Key /\ Readable(key[1])
    BY <1>1, <2>1 DEF OnChain, Grounded, OnGround
  <2> QED
    BY <2>2, <2>3 DEF Defined
<1>8. \A k \in 1 .. n - 1 : Extends(chain[k]) # NoExtends /\ chain[k + 1] = Extended(chain[k])
  <2> SUFFICES ASSUME NEW k \in 1 .. n - 1
               PROVE  Extends(chain[k]) # NoExtends /\ chain[k + 1] = Extended(chain[k])
    OBVIOUS
  <2>1. k \in 1 .. n
    BY <1>3
  <2>2. /\ DefinitionOf(chain[k]).extends = Extends(chain[k])
        /\ ParentOf(chain[k]) = Extended(chain[k])
    BY <1>1, <1>7, <2>1, DefinedFacts
  <2> QED
    BY <1>1, <1>6, <2>1, <2>2 DEF Chained
<1>9. chain[1][1] = Top.file
  BY <1>1 DEF Chained
<1>10. chain \in [1 .. n -> Defined]
  <2>1. chain \in [1 .. n -> Range(chain)] /\ Range(chain) \subseteq Defined
    BY <1>2, <1>3, <1>7 DEF Range
  <2> QED
    BY <2>1
<1>11. chain \in Lineages(Top.file)
  BY <1>4, <1>8, <1>9, <1>10 DEF Lineages
<1>12. Extends(Current) = Referred
  BY <1>1, <1>3, <1>7, DefinedFacts DEF Referred, Definition
<1> QED
  BY <1>3, <1>11, <1>12

\* An extends that is refused with a code includes have is one that leads astray.
LEMMA ExtendsGivesReason ==
  ASSUME LineInv, Grounded, Chained, ExtendsRefused, ParentRefused \in ReadingCodes
  PROVE  Reason(ParentRefused)
<1>1. Following /\ stage = "extend" /\ stack # <<>> /\ ReadingInv /\ chain # <<>>
  BY DEF ExtendsRefused, Following, Resolving, LineInv, VerdictInv, ReadingInv
<1>2. chain \in Lineages(Top.file) /\ Last(chain) = Current /\ Extends(Current) = Referred
  BY <1>1, ChainIsLineage
<1>3. BaseKey[1] = IF Referred.file = None THEN Current[1] ELSE Referred.file
  BY DEF BaseKey, ParentOf, Referred, Definition
<1>4. Uncoded \notin ReadingCodes
  BY DEF Uncoded, ReadingCodes
<1>5. Opened(Current[1]) = "ok"
  <2>1. Len(chain) \in 1 .. Len(chain) /\ Current = chain[Len(chain)]
    <3>1. chain \in Seq(Range(chain))
      BY <1>1 DEF ReadingInv, IsSeq
    <3> QED
      BY <1>1, <3>1 DEF Current, Last
  <2> QED
    BY <1>1, <2>1 DEF Grounded, OnGround, Readable
<1>6. None \notin ReadingCodes
  BY ImportAssumption DEF ReadingCodes
<1>7. LeadsAstray(Top.file, ParentRefused)
  <2>1. Referred.service # None /\ Referred.file # Elsewhere
    BY <1>4 DEF ParentRefused
  <2>2. CASE Referred.file # None /\ Escapes(BaseKey[1], Top.file)
    <3>1. ParentRefused = "import_include_path_escape"
      BY <2>1, <2>2 DEF ParentRefused
    <3> QED
      BY <1>2, <1>3, <2>1, <2>2, <3>1 DEF LeadsAstray
  <2>3. CASE ~ (Referred.file # None /\ Escapes(BaseKey[1], Top.file))
    <3>1. ParentRefused = "import_compose_parse" /\ Opened(BaseKey[1]) = "import_compose_parse"
      BY <1>4, <1>6, <2>1, <2>3 DEF ParentRefused
    <3>2. Referred.file # None
      BY <1>3, <1>5, <3>1
    <3> QED
      BY <1>2, <1>3, <2>1, <2>3, <3>1, <3>2 DEF LeadsAstray
  <2> QED
    BY <2>2, <2>3
<1>8. PICK w \in Walks : Last(w) = Top.file
  <2>1. Top = stack[Len(stack)] /\ Len(stack) \in 1 .. Len(stack)
    BY <1>1, TopFrame
  <2> QED
    BY <1>1, <2>1, StackIsWalk DEF LineInv, Last
<1>9. Readable(Top.file)
  BY <1>1, TopOnGround DEF OnGround
<1> QED
  BY <1>7, <1>8, <1>9 DEF Reason, ExtendsReason

\* How an import is refused.
LEMMA RefusalHasReason ==
  ASSUME LineInv, Grounded, Chained, [ImportNext]_importVars, outcome' # outcome,
         outcome' \in ReadingCodes
  PROVE  Reason(outcome')
<1>1. ASSUME NEW f, Open(f) PROVE outcome' = Opened(f) /\ Opened(f) # "ok"
  BY <1>1 DEF Open, Reject
<1>2. VerdictInv
  BY DEF LineInv
<1>3. CASE OpenPrimary
  <2>1. stage = "begin" /\ Primary # None /\ Open(Primary)
    BY <1>3 DEF OpenPrimary, MayBegin
  <2>2. stack = <<>> /\ Primary \in ComposeFile
    BY <1>2, <2>1, PrimaryIsFile DEF VerdictInv, ReadingInv
  <2> QED
    BY <1>1, <1>2, <2>1, <2>2, OpenGivesReason DEF Reason
<1>4. CASE IncludeOpens
  <2>1. Inside /\ Open(Included.file) /\ Including
    BY <1>4 DEF IncludeOpens, Inside, Local
  <2>2. stack # <<>> /\ Included.file \in ComposeFile /\ Follows(Top.file, Included.file)
    BY <1>2, <2>1, IncludedFacts
  <2> QED
    BY <1>1, <1>2, <2>1, <2>2, OpenGivesReason DEF Reason
<1>5. CASE IncludeUnsupported \/ IncludeEscapes \/ IncludeCycle \/ IncludeTooDeep
  <2>1. PICK code : Reject(code) /\ IncludeReason(code)
    BY <1>2, <1>5, IncludeGivesReason DEF IncludeUnsupported, IncludeEscapes, IncludeCycle,
       IncludeTooDeep
  <2> QED
    BY <2>1 DEF Reject, Reason
<1>6. CASE ExtendsRefused
  <2>1. outcome' = ParentRefused
    BY <1>6 DEF ExtendsRefused, Reject
  <2> QED
    BY <1>6, <2>1, ExtendsGivesReason
<1>7. CASE TargetExists \/ TargetWriteFails \/ TranslateRefused \/ UseDockerfile \/ UseTemplate
  <2>1. outcome' \in {outcome, "init_target_exists", "write", "init_error", "import_contract_error",
                      "dockerfile_discovery_not_found", "codebase_discovery_not_found"}
    BY <1>7 DEF TargetExists, TargetWriteFails, TranslateRefused, UseDockerfile, UseTemplate,
       Produce, Reject, Uncoded
  <2> QED
    BY <2>1 DEF ReadingCodes
<1>8. CASE ToStdout \/ FillTarget
  BY <1>8 DEF ToStdout, FillTarget, ReadingCodes
<1>9. CASE \/ OwnPartWins \/ TakeService \/ StandsAlone \/ Inherit \/ Follow \/ FileDone \/ LoadDone
           \/ Translate \/ OpenTarget \/ SomebodyWrites \/ UNCHANGED importVars
  BY <1>9 DEF OwnPartWins, TakeService, StandsAlone, Inherit, Follow, FileDone, LoadDone, Translate,
     Produce, OpenTarget, SomebodyWrites, importVars
<1> QED
  BY <1>3, <1>4, <1>5, <1>6, <1>7, <1>8, <1>9 DEF ImportNext, Include, Extend

LEMMA AnswerStarts == ImportInit => AnswerInv
<1> SUFFICES ASSUME ImportInit PROVE AnswerInv
  OBVIOUS
<1>1. outcome \notin ReadingCodes
  BY ImportAssumption DEF ImportInit, ReadingCodes
<1> QED
  BY <1>1, LineStarts, GroundedStarts, ChainedStarts DEF AnswerInv

LEMMA AnswerInductive == AnswerInv /\ [ImportNext]_importVars => AnswerInv'
<1> SUFFICES ASSUME AnswerInv, [ImportNext]_importVars PROVE AnswerInv'
  OBVIOUS
<1>1. LineInv' /\ Grounded' /\ Chained'
  BY LineInductive, GroundedInductive, ChainedInductive DEF AnswerInv, LineInv
<1>2. outcome' \in ReadingCodes => Reason(outcome')
  BY RefusalHasReason DEF AnswerInv
<1>3. UNCHANGED <<project, order>>
  BY NothingElseRead
<1>4. outcome' \in ReadingCodes => Reason(outcome)'
  <2>1. \A code : Reason(code)' <=> Reason(code)
    BY <1>3, GraphSame
  <2> QED
    BY <1>2, <2>1 DEF Reason
<1> QED
  BY <1>1, <1>4 DEF AnswerInv

\* Imports are refused on account of what is read exactly when there is a reason: a
\* walk through the include graph, or a line of services extending each other from a
\* file such a walk leads to. The checks made on the way, each of one file against
\* the chain above it, miss no cycle, no file too deep, outside or unreadable, and
\* invent none.
THEOREM VerdictIsRight == ImportSpec => []ImportVerdictIsRight
<1>1. AnswerInv => ImportVerdictIsRight
  <2> SUFFICES ASSUME AnswerInv, stage = "translate", NEW code \in ReadingCodes, Reason(code)
               PROVE  FALSE
    BY DEF AnswerInv, ImportVerdictIsRight
  <2>1. \A w \in Walks : Clean(w) /\ Len(w) \in Nat
    BY WalkFacts, ImportAssumption DEF AnswerInv, LineInv, VerdictInv
  <2>2. \A w \in Walks : Opened(Last(w)) = "ok"
    BY <2>1 DEF Clean, Readable
  <2>3. \A w \in Walks : Simple(w) /\ Len(w) # MaxIncludeDepth + 1
    BY <2>1, ImportAssumption DEF Clean
  <2>4. \A w \in Walks : \A e \in NamedBy(Last(w)) : e.kind = "path" /\ ~ Escapes(e.file, Last(w))
    BY <2>1 DEF Clean
  <2>5. ~ ExtendsReason(code)
    BY <2>1 DEF Clean, ExtendsReason
  <2>6. IncludeReason(code)
    BY <2>5 DEF Reason
  <2>7. CASE code \in {"import_compose_file_not_found", "import_compose_parse"}
    BY <2>2, <2>6, <2>7 DEF IncludeReason
  <2>8. CASE code \in {"import_include_cycle", "import_include_depth"}
    BY <2>3, <2>6, <2>8 DEF IncludeReason
  <2>9. CASE code = "import_include_unsupported"
    BY <2>4, <2>6, <2>9 DEF IncludeReason
  <2>10. CASE code = "import_include_path_escape"
    BY <2>4, <2>6, <2>10 DEF IncludeReason
  <2> QED
    BY <2>7, <2>8, <2>9, <2>10 DEF ReadingCodes
<1> QED
  BY <1>1, AnswerStarts, AnswerInductive, PTL DEF ImportSpec

-----------------------------------------------------------------------------
\* The edges of the contract.

\* The reference's own function after a step.
LEMMA VisibleIsNext == (Visible = VisibleIn(project))'
BY VisibleIs, PTL

\* What the lines of definitions are said by does not change.
LEMMA LinesSame ==
  ASSUME UNCHANGED <<project, order>>
  PROVE  Lines(Primary)' = Lines(Primary)
<1>1. Visible' = Visible
  BY VisibleIs, VisibleIsNext
<1>2. Primary' = Primary
  BY GraphSame
<1> QED
  BY <1>1, <1>2 DEF Lines

\* What a translation makes of services that are right.
LEMMA TranslationEdges ==
  ASSUME LineInv, Translate
  PROVE  ImportedEdgesAreRight'
<1> DEFINE c == Emitted(ToContract)
           lines == Lines(Primary)
           waits(n) == UNION {WaitsFor(lines[n][i]) : i \in DOMAIN lines[n]}
<1>1. product' = c /\ UNCHANGED <<project, order>> /\ stage = "translate" /\ Translatable
  BY DEF Translate, Produce
<1>2. /\ c.services = DOMAIN Services /\ c.networks = Networks
      /\ \A n \in DOMAIN Services :
           /\ c.deps[n] = DependsOnOf(n) /\ c.attached[n] = InferAttachedNetworks(n)
           /\ c.dependents[n] = {m \in DOMAIN Services : \E d \in DependsOnOf(m) : d.service = n}
  BY DEF Emitted, ToContract, Dependents
<1>3. /\ DOMAIN Services = DOMAIN lines
      /\ \A n \in DOMAIN Services : DescendsFrom(Services[n], lines[n])
  <2>1. lines = VisibleIn(project)[MaxIncludeDepth][Primary]
    BY VisibleIs DEF Lines
  <2>2. Matches(Services, lines)
    BY <1>1, <2>1 DEF LineInv
  <2> QED
    BY <2>2 DEF Matches, Adds
<1>4. lines = Lines(Primary)'
  BY <1>1, LinesSame
<1> HIDE DEF c, lines
<1>5. ASSUME NEW n \in DOMAIN Services
      PROVE  {d.service : d \in DependsOnOf(n)} = waits(n) /\ waits(n) \subseteq DOMAIN Services
  <2>1. WaitsFor(Services[n]) = waits(n)
    BY <1>3, <1>5 DEF DescendsFrom
  <2>2. {d.service : d \in DependsOnOf(n)} = WaitsFor(Services[n])
    <3> DEFINE list == Services[n].depends_on
    <3>1. \A d \in DependsOnOf(n) : \E i \in DOMAIN list : d.service = list[i].service
      BY DEF DependsOnOf
    <3>2. ASSUME NEW i \in DOMAIN list
          PROVE  \E d \in DependsOnOf(n) : d.service = list[i].service
      <4> DEFINE e == [service |-> list[i].service, condition |-> NormalCondition[list[i].condition]]
      <4>1. e.service = list[i].service /\ e \in DependsOnOf(n)
        BY DEF DependsOnOf
      <4> QED
        BY <4>1
    <3>3. WaitsFor(Services[n]) = {list[i].service : i \in DOMAIN list}
      BY DEF WaitsFor
    <3> HIDE DEF list
    <3> QED
      BY <3>1, <3>2, <3>3
  <2>3. {d.service : d \in DependsOnOf(n)} \subseteq DOMAIN Services
    BY <1>1, <1>5 DEF Translatable, NameWrong
  <2> QED
    BY <2>1, <2>2, <2>3
<1>6. ASSUME NEW n \in DOMAIN Services
      PROVE  /\ InferAttachedNetworks(n) \subseteq Networks
             /\ Networks # {} => InferAttachedNetworks(n) # {}
  BY <1>1, <1>6 DEF Translatable, NetworkWrong, InferAttachedNetworks
<1> HIDE DEF waits
<1>7. ASSUME NEW n \in DOMAIN Services
      PROVE  c.dependents[n] = {m \in DOMAIN Services : n \in waits(m)}
  <2>1. \A m \in DOMAIN Services : (\E d \in DependsOnOf(m) : d.service = n) <=> n \in waits(m)
    BY <1>5
  <2> QED
    BY <1>2, <2>1
<1>8. /\ c.services = DOMAIN lines
      /\ \A n \in c.services :
           /\ {d.service : d \in c.deps[n]} = waits(n) /\ waits(n) \subseteq c.services
           /\ c.dependents[n] = {m \in c.services : n \in waits(m)}
           /\ c.attached[n] \subseteq c.networks /\ (c.networks # {} => c.attached[n] # {})
  BY <1>2, <1>3, <1>5, <1>6, <1>7
<1> QED
  BY <1>1, <1>4, <1>8 DEF ImportedEdgesAreRight, waits

LEMMA EdgesSame ==
  ASSUME ImportedEdgesAreRight, UNCHANGED <<project, order>>,
         product' = product \/ product' \in {Template, Stub}
  PROVE  ImportedEdgesAreRight'
<1>1. Lines(Primary)' = Lines(Primary)
  BY LinesSame
<1> QED
  BY <1>1 DEF ImportedEdgesAreRight

\* What import and init write has the services the files define and the edges these
\* say: whom a service waits for is what the definitions it descends from wait for,
\* all of them services that list it as a dependent; attached networks are declared.
THEOREM ImportedEdges == ImportSpec => []ImportedEdgesAreRight
<1>1. ImportInit => ImportedEdgesAreRight
  BY DEF ImportInit, ImportedEdgesAreRight
<1>2. AnswerInv /\ ImportedEdgesAreRight /\ [ImportNext]_importVars => ImportedEdgesAreRight'
  <2> SUFFICES ASSUME LineInv, ImportedEdgesAreRight, [ImportNext]_importVars
               PROVE  ImportedEdgesAreRight'
    BY DEF AnswerInv
  <2>1. CASE Translate
    BY <2>1, TranslationEdges
  <2>2. UNCHANGED <<project, order>>
    BY NothingElseRead
  <2>3. ~ Translate => product' = product \/ product' \in {Template, Stub}
    BY OnlyTranslates
  <2> QED
    BY <2>1, <2>2, <2>3, EdgesSame
<1> QED
  BY <1>1, <1>2, AnswerStarts, AnswerInductive, PTL DEF ImportSpec

\* What the type of the import's variables needs besides.
KeysInv ==
  /\ stage \in {"begin", "include", "extend", "translate", "write", "fill", "end"}
  /\ \A c \in 1 .. Len(chain) : chain[c] \in Key
  /\ DOMAIN memo \subseteq Key
  /\ found \in {None, Theirs} /\ target \in {None, Theirs, Truncated, product}
  /\ stage = "end" => outcome # None

TypesInv == LineInv /\ Grounded /\ TargetInv /\ KeysInv

\* The types at first.
LEMMA TypesStart == ImportInit => TypesInv
<1> SUFFICES ASSUME ImportInit PROVE KeysInv
  BY LineStarts, GroundedStarts, TargetStarts DEF TypesInv
<1>1. stage = "begin" /\ chain = <<>> /\ memo = <<>> /\ target \in {None, Theirs} /\ found = target
  BY DEF ImportInit
<1>2. 1 .. Len(chain) = {} /\ DOMAIN memo = {}
  BY <1>1
<1> QED
  BY <1>1, <1>2 DEF KeysInv

\* Every step keeps the types.
LEMMA TypesInductive == TypesInv /\ [ImportNext]_importVars => TypesInv'
<1> SUFFICES ASSUME TypesInv, [ImportNext]_importVars PROVE KeysInv'
  BY LineInductive, GroundedInductive, TargetInductive DEF TypesInv, LineInv
<1>0. LineInv' /\ KeysInv
  BY LineInductive DEF TypesInv
<1>1. ASSUME NEW code, Reject(code), code # None PROVE KeysInv'
  BY <1>0, <1>1 DEF Reject, reading, KeysInv
<1>2. CASE TargetExists \/ TargetWriteFails \/ TranslateRefused \/ UseTemplate \/ UseDockerfile
           \/ Translate
  <2>1. ASSUME NEW c, Produce(c), stage \in {"begin", "translate"} PROVE KeysInv'
    <3>1. target \in {None, Theirs}
      BY <2>1 DEF TypesInv, TargetInv
    <3> QED BY <1>0, <2>1, <3>1 DEF Produce, reading, KeysInv
  <2> QED BY <1>1, <1>2, <2>1, ImportAssumption DEF TargetExists, TargetWriteFails,
          TranslateRefused, UseTemplate, UseDockerfile, Translate, MayBegin, Uncoded
<1>3. CASE IncludeUnsupported \/ IncludeEscapes \/ IncludeCycle \/ IncludeTooDeep \/ ExtendsRefused
  BY <1>1, <1>3, ImportAssumption DEF IncludeUnsupported, IncludeEscapes, IncludeCycle, IncludeTooDeep,
     ExtendsRefused
<1>4. CASE OpenPrimary \/ IncludeOpens
  <2>1. PICK f : Open(f)
    BY <1>4 DEF OpenPrimary, IncludeOpens
  <2>2. Opened(f) # None
    BY ImportAssumption DEF Opened
  <2>3. CASE Opened(f) = "ok"
    BY <1>0, <2>1, <2>3 DEF Open, KeysInv
  <2>4. CASE Opened(f) # "ok"
    BY <1>1, <2>1, <2>2, <2>4 DEF Open
  <2> QED BY <2>3, <2>4
<1>5. CASE OwnPartWins \/ TakeService \/ StandsAlone \/ Inherit \/ Follow
  <2>1. stage' = "extend" /\ UNCHANGED <<found, target, product>>
    BY <1>5 DEF OwnPartWins, TakeService, StandsAlone, Inherit, Follow, Following, Resolving
  <2>2. /\ \A c \in 1 .. Len(chain') : chain'[c] \in Key
        /\ DOMAIN memo' \subseteq Key
    BY <1>0, <2>1 DEF LineInv, ExtendInv, OnChain, InLine
  <2> QED BY <1>0, <2>1, <2>2 DEF KeysInv
<1>6. CASE FileDone \/ LoadDone
  BY <1>0, <1>6 DEF FileDone, LoadDone, KeysInv
<1>7. CASE ToStdout \/ OpenTarget \/ FillTarget \/ SomebodyWrites \/ UNCHANGED importVars
  BY <1>0, <1>7, ImportAssumption DEF ToStdout, OpenTarget, FillTarget, SomebodyWrites, importVars,
     reading, KeysInv
<1> QED
  BY <1>2, <1>3, <1>4, <1>5, <1>6, <1>7 DEF ImportNext, Include, Extend

\* The files being read, what has been merged of them, the services resolved so
\* far, the contract and the outcome are of their types at every step of an
\* import, whatever the files hold.
THEOREM ImportTypeCorrect == ImportSpec => []ImportTypeOK
<1>1. TypesInv => ImportTypeOK
  <2> SUFFICES ASSUME TypesInv PROVE ImportTypeOK
    OBVIOUS
  <2>1. /\ IsSeq(stack) /\ DOMAIN stack = 1 .. Len(stack) /\ Len(stack) <= MaxIncludeDepth
        /\ IsSeq(chain) /\ DOMAIN chain = 1 .. Len(chain) /\ Len(chain) <= MaxIncludeDepth
        /\ project \in Projects /\ order \in Orders
    BY AnySeq DEF TypesInv, LineInv, MemoInv, ReadingInv, IsSeq, IncludesStayInside, ExtendsStayInside
  <2>2. Range(chain) \subseteq Key
    BY <2>1 DEF Range, TypesInv, KeysInv
  <2>3. ASSUME NEW i \in DOMAIN stack
        PROVE  /\ stack[i].file \in ComposeFile /\ stack[i].own = project.files[stack[i].file]
               /\ stack[i].next \in 1 .. Len(stack[i].own.include) + 1
    <3>1. IsFrame(stack[i], project) /\ Sound(stack[i])
      BY <2>1 DEF TypesInv, LineInv, MemoInv, ReadingInv
    <3>2. stack[i].own.include \in Seq(Range(stack[i].own.include))
      BY <2>1, <3>1, ImportAssumption DEF IsFrame, IncludesFiles, Parses
    <3> QED BY <3>1, <3>2 DEF IsFrame, Sound
  <2>4. stage = "end" <=> outcome # None
    BY DEF TypesInv, TargetInv, KeysInv
  <2> QED BY <2>1, <2>2, <2>3, <2>4 DEF TypesInv, KeysInv, ImportTypeOK
<1> QED
  BY <1>1, TypesStart, TypesInductive, PTL DEF ImportSpec
=============================================================================

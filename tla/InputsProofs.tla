--------------------------- MODULE InputsProofs -----------------------------
(***************************************************************************)
(* Proofs about what a deploy reads (module Inputs), for any contracts,    *)
(* env files, edits and order of reading: that no memo shows, and when     *)
(* what the container gets is expanded as documented.                      *)
(***************************************************************************)
EXTENDS Inputs, SequenceTheorems, WellFoundedInduction, TLAPS

\* A set of numbers that is not empty has a least one.
LEMMA LeastNumber ==
  ASSUME NEW S, S \subseteq Nat, S # {}
  PROVE  \E n \in S : \A m \in S : n <= m
<1> DEFINE R == {ss \in Nat \X Nat : ss[1] < ss[2]}
<1>1. IsWellFoundedOn(R, Nat)
  BY NatLessThanWellFounded DEF OpToRel
<1> HIDE DEF R
<1>2. PICK n \in S : \A m \in S : ~ (<<m, n>> \in R)
  BY <1>1, WFMin
<1>3. ASSUME NEW m \in S PROVE n <= m
  <2>1. m < n => <<m, n>> \in R
    BY DEF R
  <2> QED BY <2>1, <1>2
<1> QED
  BY <1>3

-----------------------------------------------------------------------------
\* The map env files add up to.

\* Reading through the memo gives what is in the file.
LEMMA MemoIsTransparent == \A p : EnvText(p) = envDisk[p]
BY DEF EnvText

LEMMA NothingSet == DOMAIN VarsOf(Nothing) = {}
<1>1. VarsOf(Nothing) = <<>>
  BY DEF VarsOf
<1> QED
  BY <1>1

\* No file read: the environment.
LEMMA NoFileYet ==
  ASSUME NEW texts, DOMAIN texts = {}
  PROVE  IsOverlay(OSEnv, texts)
BY DEF IsOverlay

\* The text of one more file goes on top of what there is.
LEMMA OneFileMore ==
  ASSUME NEW n \in Nat, NEW texts, DOMAIN texts = 1 .. n, NEW b, IsOverlay(b, texts), NEW t
  PROVE  IsOverlay(Override(b, VarsOf(t)), [i \in 1 .. n + 1 |-> IF i = n + 1 THEN t ELSE texts[i]])
<1> DEFINE more == [i \in 1 .. n + 1 |-> IF i = n + 1 THEN t ELSE texts[i]]
           F(j) == VarsOf(more[j])
           Old(v) == {j \in 1 .. n : v \in DOMAIN F(j)}
           New(v) == {j \in 1 .. n + 1 : v \in DOMAIN F(j)}
           m == Override(b, VarsOf(t))
<1>1. more[n + 1] = t /\ \A j \in 1 .. n : more[j] = texts[j]
  OBVIOUS
<1> HIDE DEF more
<1>2. DOMAIN m = DOMAIN b \cup DOMAIN F(n + 1)
  BY <1>1 DEF Override
<1>3. \A v \in DOMAIN m : m[v] = IF v \in DOMAIN F(n + 1) THEN F(n + 1)[v] ELSE b[v]
  BY <1>1, <1>2 DEF Override
<1>4. \A v : IF v \in DOMAIN F(n + 1) THEN n + 1 \in New(v) ELSE New(v) = Old(v)
  OBVIOUS
<1>5. \A v : Old(v) \subseteq New(v) /\ (New(v) # {} <=> Old(v) # {} \/ v \in DOMAIN F(n + 1))
  OBVIOUS
<1>6. /\ \A v : v \in DOMAIN b <=> v \in DOMAIN OSEnv \/ Old(v) # {}
      /\ \A v \in DOMAIN b :
           IF Old(v) = {} THEN b[v] = OSEnv[v]
           ELSE \E j \in Old(v) : (\A k \in Old(v) : k <= j) /\ b[v] = F(j)[v]
  <2>1. \A v : Old(v) = {j \in DOMAIN texts : v \in DOMAIN VarsOf(texts[j])}
    BY <1>1
  <2>2. \A v \in DOMAIN b : \A j \in Old(v) : F(j) = VarsOf(texts[j])
    BY <1>1
  <2> HIDE DEF F, Old
  <2> QED BY <2>1, <2>2 DEF IsOverlay
<1>7. \A v : \A k \in New(v) : k <= n + 1
  OBVIOUS
<1>8. DOMAIN more = 1 .. n + 1
  BY DEF more
<1> HIDE DEF F, Old, New, m
<1>9. \A v : v \in DOMAIN m <=> v \in DOMAIN OSEnv \/ New(v) # {}
  BY <1>2, <1>5, <1>6
<1>10. ASSUME NEW v \in DOMAIN m
      PROVE  IF New(v) = {} THEN m[v] = OSEnv[v]
             ELSE \E j \in New(v) : (\A k \in New(v) : k <= j) /\ m[v] = F(j)[v]
  <2>1. CASE v \in DOMAIN F(n + 1)
    BY <2>1, <1>3, <1>4, <1>7
  <2>2. CASE v \notin DOMAIN F(n + 1)
    BY <2>2, <1>2, <1>3, <1>4, <1>6
  <2> QED BY <2>1, <2>2
<1>11. IsOverlay(m, more)
  <2>1. \A v : New(v) = {i \in DOMAIN more : v \in DOMAIN VarsOf(more[i])}
    BY <1>8 DEF F, New
  <2>2. \A v \in DOMAIN m :
           IF New(v) = {} THEN m[v] = OSEnv[v]
           ELSE \E j \in New(v) : (\A k \in New(v) : k <= j) /\ m[v] = VarsOf(more[j])[v]
    BY <1>10 DEF F
  <2>3. DOMAIN m = DOMAIN OSEnv \cup UNION {DOMAIN VarsOf(more[i]) : i \in DOMAIN more}
    BY <1>9, <2>1
  <2> QED BY <2>1, <2>2, <2>3 DEF IsOverlay
<1> QED
  BY <1>11 DEF m, more

-----------------------------------------------------------------------------
\* What expanding a text gives.

\* What a pass makes of s from token i on, when f says that of later ones.
PassAt(s, value, f, i) ==
  CASE i > Len(s) -> <<>>
    [] i < Len(s) /\ s[i] = Dollar /\ s[i + 1] \in DOMAIN value -> value[s[i + 1]] \o f[i + 2]
    [] OTHER -> <<s[i]>> \o f[i + 1]

IsPass(s, value, f) == f = [i \in 1 .. Len(s) + 1 |-> PassAt(s, value, f, i)]

\* The i-th of n tokens is a dollar sign, and it and what follows it are replaced.
Hit(s, value, i, n) == i < n /\ s[i] = Dollar /\ s[i + 1] \in DOMAIN value

\* The recursion over the tokens of a text has a solution, by the same argument.
LEMMA PassUnfolds ==
  ASSUME NEW s, NEW value, NEW n \in Nat, Len(s) = n
  PROVE  \E f : IsPass(s, value, f) /\ Pass(s, value) = f[1]
<1> DEFINE Solves(g, k) == g = [i \in n + 1 - k .. n + 1 |-> PassAt(s, value, g, i)]
           bad == {k \in 0 .. n : \A g : ~ Solves(g, k)}
<1>0. bad \subseteq Nat /\ \A k \in 0 .. n : k \in bad <=> \A g : ~ Solves(g, k)
  OBVIOUS
<1> HIDE DEF bad
<1>1. bad = {}
  <2> SUFFICES ASSUME bad # {} PROVE FALSE
    OBVIOUS
  <2>1. PICK k \in bad : k \in 0 .. n /\ \A m \in bad : k <= m
    BY <1>0, LeastNumber DEF bad
  <2>2. CASE k = 0
    <3> DEFINE g == [i \in n + 1 - 0 .. n + 1 |-> <<>>]
    <3>1. \A i \in n + 1 - 0 .. n + 1 : i \in Nat /\ i > n /\ g[i] = <<>>
      OBVIOUS
    <3>2. g = [i \in n + 1 - 0 .. n + 1 |-> g[i]]
      OBVIOUS
    <3> HIDE DEF g
    <3>3. \A i \in n + 1 - 0 .. n + 1 : PassAt(s, value, g, i) = g[i]
      <4> SUFFICES ASSUME NEW i \in n + 1 - 0 .. n + 1 PROVE PassAt(s, value, g, i) = g[i]
        OBVIOUS
      <4>1. i > Len(s) /\ g[i] = <<>>
        BY <3>1
      <4> QED BY <4>1 DEF PassAt
    <3>4. Solves(g, 0)
      BY <3>2, <3>3
    <3> QED BY <1>0, <2>1, <2>2, <3>4
  <2>3. CASE k # 0
    <3>1. k \in Nat /\ k - 1 \in 0 .. n /\ k - 1 \notin bad
      BY <2>1, <2>3
    <3>2. PICK g : Solves(g, k - 1)
      BY <1>0, <3>1
    <3> DEFINE o == n + 1 - k
               h == [i \in o .. n + 1 |-> IF i = o THEN PassAt(s, value, g, o) ELSE g[i]]
    <3>3. o \in 1 .. n /\ n + 1 - (k - 1) = o + 1
      BY <2>1, <2>3
    <3> HIDE DEF o
    <3>4. \A i \in o + 1 .. n + 1 : h[i] = g[i]
      BY <3>3
    <3>5. ASSUME NEW i \in o .. n + 1 PROVE PassAt(s, value, h, i) = PassAt(s, value, g, i)
      <4>1. i <= n => h[i + 1] = g[i + 1]
        BY <3>3, <3>4
      <4>2. i < n => h[i + 2] = g[i + 2]
        BY <3>3, <3>4
      <4> HIDE DEF h
      <4> QED BY <3>3, <4>1, <4>2 DEF PassAt
    <3>6. ASSUME NEW i \in o .. n + 1 PROVE h[i] = PassAt(s, value, g, i)
      <4>1. CASE i = o
        BY <4>1, <3>3
      <4>2. CASE i # o
        <5>1. i \in o + 1 .. n + 1 /\ h[i] = g[i]
          BY <4>2, <3>3, <3>4
        <5> QED BY <5>1, <3>2, <3>3
      <4> QED BY <4>1, <4>2
    <3>7. h = [i \in o .. n + 1 |-> PassAt(s, value, h, i)]
      BY <3>5, <3>6
    <3> HIDE DEF h
    <3> QED BY <1>0, <2>1, <3>7 DEF o
  <2> QED BY <2>2, <2>3
<1>2. PICK g : Solves(g, n)
  BY <1>0, <1>1
<1>3. IsPass(s, value, g)
  BY <1>2 DEF IsPass
<1>4. Pass(s, value) = (CHOOSE f : f = [i \in 1 .. Len(s) + 1 |-> PassAt(s, value, f, i)])[1]
  BY DEF Pass, PassAt
<1> QED
  BY <1>3, <1>4 DEF IsPass

LEMMA OneToken == ASSUME NEW T, NEW x \in T PROVE <<x>> \in Seq(T)
OBVIOUS

\* What holds after the last of n tokens, and for a token if it does for all
\* later ones, holds for every one.
LEMMA Backwards ==
  ASSUME NEW n \in Nat, NEW S, n + 1 \in S,
         \A i \in 1 .. n : (\A j \in i + 1 .. n + 1 : j \in S) => i \in S
  PROVE  \A i \in 1 .. n + 1 : i \in S
<1> DEFINE bad == {k \in 0 .. n : n + 1 - k \notin S}
<1>1. bad \subseteq Nat
  OBVIOUS
<1>2. bad = {}
  <2> SUFFICES ASSUME bad # {} PROVE FALSE
    OBVIOUS
  <2>1. PICK k \in bad : \A m \in bad : k <= m
    BY <1>1, LeastNumber
  <2> DEFINE o == n + 1 - k
  <2>2. k \in 0 .. n /\ k # 0 /\ o \in 1 .. n /\ o \notin S
    BY <2>1
  <2>3. ASSUME NEW j \in o + 1 .. n + 1 PROVE j \in S
    <3>1. n + 1 - j \in 0 .. n /\ ~ (k <= n + 1 - j) /\ n + 1 - (n + 1 - j) = j
      BY <2>2
    <3>2. n + 1 - j \notin bad
      BY <2>1, <3>1
    <3> QED BY <3>1, <3>2
  <2> QED BY <2>2, <2>3
<1>3. ASSUME NEW i \in 1 .. n + 1 PROVE i \in S
  <2>1. n + 1 - i \in 0 .. n /\ n + 1 - (n + 1 - i) = i
    OBVIOUS
  <2>2. n + 1 - i \notin bad
    BY <1>2
  <2> QED BY <2>1, <2>2
<1> QED
  BY <1>3

\* f says what a pass makes of the n tokens of s from each one on.
Walks(f, s, value, n) ==
  /\ f[n + 1] = <<>>
  /\ \A i \in 1 .. n : f[i] = IF Hit(s, value, i, n) THEN value[s[i + 1]] \o f[i + 2]
                              ELSE <<s[i]>> \o f[i + 1]

\* Every pass is the beginning of such a walk.
LEMMA PassWalks ==
  ASSUME NEW s, NEW value, NEW n \in Nat, Len(s) = n
  PROVE  \E f : Walks(f, s, value, n) /\ Pass(s, value) = f[1]
<1>0. n \in Nat /\ Len(s) = n
  OBVIOUS
<1>1. PICK f : IsPass(s, value, f) /\ Pass(s, value) = f[1]
  BY PassUnfolds
<1>2. ASSUME NEW i \in 1 .. n + 1 PROVE f[i] = PassAt(s, value, f, i)
  BY <1>1 DEF IsPass
<1>5. ASSUME NEW i \in Nat
      PROVE  /\ i > n => PassAt(s, value, f, i) = <<>>
             /\ Hit(s, value, i, n) => PassAt(s, value, f, i) = value[s[i + 1]] \o f[i + 2]
             /\ i <= n /\ ~ Hit(s, value, i, n) => PassAt(s, value, f, i) = <<s[i]>> \o f[i + 1]
  <2> DEFINE A == <<>>
             B == value[s[i + 1]] \o f[i + 2]
             C == <<s[i]>> \o f[i + 1]
             Here == s[i] = Dollar /\ s[i + 1] \in DOMAIN value
  <2>1. PassAt(s, value, f, i) =
          CASE i > Len(s) -> A [] i < Len(s) /\ Here -> B [] OTHER -> C
    BY DEF PassAt
  <2>2. Hit(s, value, i, n) <=> i < n /\ Here
    BY DEF Hit
  <2> HIDE DEF A, B, C, Here
  <2>3. /\ i > n => PassAt(s, value, f, i) = A
        /\ Hit(s, value, i, n) => PassAt(s, value, f, i) = B
        /\ i <= n /\ ~ Hit(s, value, i, n) => PassAt(s, value, f, i) = C
    BY <1>0, <2>1, <2>2
  <2> QED BY <2>3, Zenon DEF A, B, C
<1>3. f[n + 1] = <<>>
  <2>1. n + 1 \in Nat /\ n + 1 > n /\ n + 1 \in 1 .. n + 1
    OBVIOUS
  <2> QED BY <1>2, <1>5, <2>1
<1>4. ASSUME NEW i \in 1 .. n
      PROVE  f[i] = IF Hit(s, value, i, n) THEN value[s[i + 1]] \o f[i + 2]
                    ELSE <<s[i]>> \o f[i + 1]
  <2>1. i \in Nat /\ i <= n /\ f[i] = PassAt(s, value, f, i)
    BY <1>2
  <2>2. CASE Hit(s, value, i, n)
    BY <1>5, <2>1, <2>2
  <2>3. CASE ~ Hit(s, value, i, n)
    BY <1>5, <2>1, <2>3
  <2> QED BY <2>2, <2>3
<1> QED
  BY <1>1, <1>3, <1>4 DEF Walks

\* What a walk makes of the rest of a text is a text.
LEMMA WalkType ==
  ASSUME NEW T, NEW s \in Seq(T), NEW value, \A t \in DOMAIN value : value[t] \in Seq(T),
         NEW n, n = Len(s), NEW f, Walks(f, s, value, n)
  PROVE  n \in Nat /\ \A i \in 1 .. n + 1 : f[i] \in Seq(T)
<1> DEFINE S == {i \in 1 .. n + 1 : f[i] \in Seq(T)}
<1>1. n \in Nat /\ \A i \in 1 .. n : s[i] \in T
  BY LenProperties, ElementOfSeq
<1>2. n + 1 \in S
  <2>1. f[n + 1] = <<>> /\ n + 1 \in 1 .. n + 1
    BY <1>1 DEF Walks
  <2> QED BY <2>1, EmptySeq
<1>3. ASSUME NEW i \in 1 .. n, \A j \in i + 1 .. n + 1 : j \in S PROVE i \in S
  <2>1. i + 1 \in S /\ (i < n => i + 2 \in S)
    BY <1>1, <1>3
  <2> HIDE DEF S
  <2>2. <<s[i]>> \in Seq(T)
    BY <1>1, OneToken
  <2>3. f[i] \in Seq(T)
    <3>1. CASE Hit(s, value, i, n)
      <4>1. f[i] = value[s[i + 1]] \o f[i + 2]
        BY <3>1 DEF Walks
      <4>2. value[s[i + 1]] \in Seq(T) /\ f[i + 2] \in Seq(T)
        BY <2>1, <3>1 DEF Hit, S
      <4> QED BY <4>1, <4>2, ConcatProperties
    <3>2. CASE ~ Hit(s, value, i, n)
      <4>1. f[i] = <<s[i]>> \o f[i + 1]
        BY <3>2 DEF Walks
      <4>2. f[i + 1] \in Seq(T)
        BY <2>1 DEF S
      <4> QED BY <2>2, <4>1, <4>2, ConcatProperties
    <3> QED BY <3>1, <3>2
  <2> QED BY <1>1, <2>3 DEF S
<1> HIDE DEF S
<1>4. \A i \in 1 .. n + 1 : i \in S
  BY <1>1, <1>2, <1>3, Backwards
<1> QED
  BY <1>1, <1>4 DEF S

\* A pass over a text whose values are texts gives a text.
LEMMA PassType ==
  ASSUME NEW T, NEW s \in Seq(T), NEW value, \A t \in DOMAIN value : value[t] \in Seq(T)
  PROVE  Pass(s, value) \in Seq(T)
<1> DEFINE n == Len(s)
<1>1. n \in Nat /\ 1 \in 1 .. n + 1
  BY LenProperties
<1>2. PICK f : Walks(f, s, value, n) /\ Pass(s, value) = f[1]
  BY <1>1, PassWalks
<1>3. \A i \in 1 .. n + 1 : f[i] \in Seq(T)
  BY <1>2, WalkType
<1> QED
  BY <1>1, <1>2, <1>3

LEMMA TextIsTokens == \A s \in Texts : s \in Seq(Token)
BY SeqMonotonic DEF Texts

LEMMA TwoTokens == ASSUME NEW T, NEW x \in T, NEW y \in T PROVE <<x, y>> \in Seq(T)
OBVIOUS

LEMMA GroupsType ==
  ASSUME NEW s \in Seq(Token), NEW m, IsMap(m)
  PROVE  /\ \A t \in DOMAIN Groups(s, m) : Groups(s, m)[t] \in Seq(Token)
         /\ \A t \in DOMAIN BareNames(s, m) : BareNames(s, m)[t] \in Seq(Token)
<1>1. Range(s) \subseteq Token
  BY LenProperties DEF Range
<1>2. \A v \in DOMAIN m : m[v] \in Seq(Token)
  BY TextIsTokens DEF IsMap
<1>3. ASSUME NEW t \in Token, IsBraces(t) PROVE Braced(t, m) \in Seq(Token)
  <2>1. t[4] \in Seq(Token) /\ t[3] \in {"", ":-", "-", ":?", "?", ":+", "+"}
    BY <1>3, TokenAssumption, TextIsTokens
  <2>2. <<Dollar, t>> \in Seq(Token) /\ <<>> \in Seq(Token)
    BY TokenAssumption, TwoTokens, EmptySeq
  <2> HIDE DEF IsEmpty
  <2> QED BY <1>2, <2>1, <2>2 DEF Braced, IsSet
<1> QED
  BY <1>1, <1>2, <1>3 DEF Groups, BareNames, IsSet

LEMMA SubstituteType ==
  ASSUME NEW s \in Texts, NEW m, IsMap(m)
  PROVE  Substitute(s, m) \in Texts
<1> DEFINE escaped  == Pass(s, [t \in {Dollar} |-> <<Kept>>])
           braced   == Pass(escaped, Groups(escaped, m))
           expanded == Pass(braced, BareNames(braced, m))
<1>1. escaped \in Seq(Token)
  <2>1. <<Kept>> \in Seq(Token)
    BY TokenAssumption, OneToken
  <2> QED BY <2>1, PassType, TextIsTokens
<1> HIDE DEF escaped
<1>2. braced \in Seq(Token)
  BY <1>1, GroupsType, PassType
<1> HIDE DEF braced
<1>3. expanded \in Seq(Token)
  BY <1>2, GroupsType, PassType
<1>4. Substitute(s, m) =
        [i \in DOMAIN expanded |-> IF expanded[i] = Kept THEN Dollar ELSE expanded[i]]
  BY DEF Substitute, escaped, braced
<1> HIDE DEF expanded
<1>5. Dollar # Kept
  BY DEF Dollar, Kept
<1>6. /\ Len(expanded) \in Nat /\ DOMAIN expanded = 1 .. Len(expanded)
      /\ \A i \in 1 .. Len(expanded) : expanded[i] \in Token
  BY <1>3, LenProperties, ElementOfSeq
<1> DEFINE back ==
      [i \in 1 .. Len(expanded) |-> IF expanded[i] = Kept THEN Dollar ELSE expanded[i]]
<1>7. Substitute(s, m) = back
  BY <1>4, <1>6
<1>8. \A i \in 1 .. Len(expanded) : back[i] \in Token \ {Kept}
  BY <1>5, <1>6, TokenAssumption
<1>9. back \in [1 .. Len(expanded) -> Token \ {Kept}]
  BY <1>8
<1> HIDE DEF back
<1> QED
  BY <1>6, <1>7, <1>9, SeqDef DEF Texts

-----------------------------------------------------------------------------
\* What every state satisfies: the object of the memo is a contract that parsed
\* with a text for a URL, the substitution is a map to texts.
Objects == [loaded : ContractTexts \ {Garbled, Nothing}, url : Texts]

InputsInv ==
  /\ InputsTypeOK
  /\ contractMemo \in Objects \cup {Nothing}
  /\ IsMap(subst)

LEMMA ParsedIsObject == \A c \in ContractTexts \ {Garbled, Nothing} : Parsed(c) \in Objects
BY InputsAssumption DEF Parsed, Objects

LEMMA ObjectIsSomething == Nothing \notin Objects
BY InputsAssumption DEF Objects

LEMMA LoadMemoizedIsFresh ==
  ASSUME NEW c \in ContractTexts \ {Garbled, Nothing}, contractMemo \in Objects \cup {Nothing}
  PROVE  LoadMemoized(c) \in Objects /\ LoadMemoized(c).loaded = c
<1>1. CASE contractMemo # Nothing /\ contractMemo.loaded = c
  BY <1>1 DEF LoadMemoized
<1>2. CASE ~ (contractMemo # Nothing /\ contractMemo.loaded = c)
  <2>1. LoadMemoized(c) = Parsed(c) /\ Parsed(c).loaded = c
    BY <1>2 DEF LoadMemoized, Parsed
  <2> QED BY <2>1, ParsedIsObject
<1> QED
  BY <1>1, <1>2

LEMMA EnvFilesReadType ==
  ASSUME contractMemo \in Objects
  PROVE  EnvFilesRead \in Seq(EnvPath) /\ ToSet(EnvFilesRead) \subseteq EnvPath
<1>1. EnvFilesRead \in Seq(EnvPath)
  BY InputsAssumption DEF EnvFilesRead, Objects
<1>2. DOMAIN EnvFilesRead = 1 .. Len(EnvFilesRead) /\ EnvFilesRead \in [1 .. Len(EnvFilesRead) -> EnvPath]
  BY <1>1, LenProperties
<1> QED
  BY <1>1, <1>2 DEF ToSet

\* A map stays a map to texts when what an env file sets goes on top.
LEMMA OverlayType ==
  ASSUME NEW m, IsMap(m), NEW t \in (EnvTexts \ {Garbled}) \cup {Nothing}
  PROVE  /\ IsMap(Override(m, VarsOf(t)))
         /\ t = Nothing => Override(m, VarsOf(t)) = m
<1>1. ASSUME NEW v \in DOMAIN VarsOf(t) PROVE VarsOf(t)[v] \in Texts
  <2>1. t \in EnvTexts \ {Garbled, Nothing} /\ VarsOf(t) = t.vars
    BY <1>1, NothingSet DEF VarsOf
  <2> QED BY <2>1, InputsAssumption DEF IsMap
<1>2. IsMap(Override(m, VarsOf(t)))
  BY <1>1 DEF IsMap, Override
<1>3. ASSUME t = Nothing PROVE Override(m, VarsOf(t)) = m
  <2>1. m = [v \in DOMAIN m |-> m[v]]
    BY DEF IsMap
  <2> QED BY <1>3, <2>1, NothingSet DEF Override
<1> QED
  BY <1>2, <1>3

\* Expanding in place leaves a contract with a text for a URL.
LEMMA InPlaceType ==
  ASSUME NEW object \in Objects, NEW m, IsMap(m), NEW n \in {1, 2}
  PROVE  InPlace(object, m, n) \in Objects /\ InPlace(object, m, n).loaded = object.loaded
<1> DEFINE once == Substitute(object.url, m)
           twice == Substitute(once, m)
           IsUrl(f) == f = [i \in 0 .. n |-> IF i = 0 THEN object.url ELSE Substitute(f[i - 1], m)]
           left == CHOOSE f : IsUrl(f)
<1>1. once \in Texts /\ twice \in Texts
  BY SubstituteType DEF Objects
<1> HIDE DEF once, twice
<1>2. \E f : IsUrl(f)
  <2> DEFINE f == [i \in 0 .. n |-> IF i = 0 THEN object.url ELSE IF i = 1 THEN once ELSE twice]
  <2>1. ASSUME NEW i \in 0 .. n
        PROVE  f[i] = IF i = 0 THEN object.url ELSE Substitute(f[i - 1], m)
    <3>1. CASE i = 0
      BY <3>1
    <3>2. CASE i = 1
      <4>1. f[i] = once /\ f[i - 1] = object.url
        BY <3>2
      <4> QED BY <3>2, <4>1 DEF once
    <3>3. CASE i = 2
      <4>1. f[i] = twice /\ f[i - 1] = once
        BY <3>3
      <4> QED BY <3>3, <4>1 DEF twice
    <3> QED BY <3>1, <3>2, <3>3
  <2>2. IsUrl(f)
    BY <2>1
  <2> QED BY <2>2
<1>3. IsUrl(left)
  BY <1>2
<1> HIDE DEF left
<1>4. left[0] = object.url
  BY <1>3
<1>5. left[1] = once
  BY <1>3, <1>4 DEF once
<1>6. n = 2 => left[2] = twice
  BY <1>3, <1>5 DEF twice
<1>7. left[n] \in Texts
  BY <1>1, <1>5, <1>6
<1>8. InPlace(object, m, n) = [object EXCEPT !.url = left[n]]
  BY DEF InPlace, left
<1> HIDE DEF IsUrl
<1> QED
  BY <1>7, <1>8 DEF Objects

-----------------------------------------------------------------------------
\* A load begins with the environment and nothing read.
LEMMA LoadBegins ==
  ASSUME InputsInv, NEW object \in Objects, BeginLoad(object), contractMemo' \in Objects,
         contractMemo'.loaded = object.loaded
  PROVE  /\ subst' = OSEnv /\ read' = 0 /\ looked' \in 0 .. Len(EnvFilesRead') /\ present' = 1 .. looked'
         /\ looked' = IF object.loaded.envFiles = Nothing THEN 0 ELSE Len(EnvFilesRead')
         /\ held' = [p \in EnvPath |-> {envDisk[p]}]
         /\ held' \in [EnvPath -> SUBSET (EnvTexts \cup {Nothing})]
<1>1. envDisk \in [EnvPath -> EnvTexts \cup {Nothing}]
  BY DEF InputsInv, InputsTypeOK
<1>2. held' = [p \in EnvPath |-> {envDisk[p]}] /\ held' \in [EnvPath -> SUBSET (EnvTexts \cup {Nothing})]
  BY <1>1 DEF BeginLoad
<1>3. EnvFilesRead' =
        IF object.loaded.envFiles # Nothing THEN object.loaded.envFiles ELSE DefaultFiles
  BY DEF EnvFilesRead
<1>4. object.loaded.envFiles # Nothing => object.loaded.envFiles \in Seq(EnvPath)
  BY InputsAssumption DEF Objects
<1>5. CASE object.loaded.envFiles = Nothing
  <2>1. Len(EnvFilesRead') \in Nat
    BY <1>3, <1>5, InputsAssumption, LenProperties
  <2> QED BY <1>2, <1>5, <2>1 DEF BeginLoad
<1>6. CASE object.loaded.envFiles # Nothing
  <2>1. /\ Len(object.loaded.envFiles) \in Nat
        /\ DOMAIN object.loaded.envFiles = 1 .. Len(object.loaded.envFiles)
    BY <1>4, <1>6, LenProperties
  <2> QED BY <1>2, <1>3, <1>6, <2>1 DEF BeginLoad
<1> QED
  BY <1>5, <1>6

\* The file whose turn it is.
LEMMA NextFile ==
  ASSUME InputsInv, Loading
  PROVE  /\ contractMemo \in Objects /\ EnvFilesRead \in Seq(EnvPath)
         /\ Len(EnvFilesRead) \in Nat /\ looked \in 0 .. Len(EnvFilesRead) /\ read \in 0 .. looked
         /\ \A i \in 1 .. Len(EnvFilesRead) :
              /\ EnvFilesRead[i] \in EnvPath
              /\ envDisk[EnvFilesRead[i]] \in EnvTexts \cup {Nothing}
<1>1. contractMemo \in Objects
  BY DEF InputsInv, InputsTypeOK, Loading
<1>2. EnvFilesRead \in Seq(EnvPath)
  BY <1>1, EnvFilesReadType
<1>3. Len(EnvFilesRead) \in Nat /\ EnvFilesRead \in [1 .. Len(EnvFilesRead) -> EnvPath]
  BY <1>2, LenProperties
<1>4. looked \in 0 .. Len(EnvFilesRead) /\ read \in 0 .. looked
      /\ envDisk \in [EnvPath -> EnvTexts \cup {Nothing}]
  BY DEF InputsInv, InputsTypeOK
<1> QED
  BY <1>1, <1>2, <1>3, <1>4

\* Reading one file: its text goes on top of the map, or nothing does.
LEMMA OneRead ==
  ASSUME InputsInv, ReadEnvFile
  PROVE  LET t == IF read + 1 \in present THEN envDisk[EnvFilesRead[read + 1]] ELSE Nothing
         IN  /\ t \in (EnvTexts \ {Garbled}) \cup {Nothing}
             /\ subst' = Override(subst, VarsOf(t)) /\ IsMap(subst')
             /\ envMemo' \in [EnvPath -> (EnvTexts \ {Garbled}) \cup {Nothing}]
<1> DEFINE p == EnvFilesRead[read + 1]
           t == IF read + 1 \in present THEN envDisk[p] ELSE Nothing
<1>1. Loading /\ read < Len(EnvFilesRead) /\ IsMap(subst)
      /\ envMemo \in [EnvPath -> (EnvTexts \ {Garbled}) \cup {Nothing}]
  BY DEF ReadEnvFile, InputsInv, InputsTypeOK
<1>2. read + 1 \in 1 .. Len(EnvFilesRead)
  BY <1>1, NextFile
<1>3. p \in EnvPath /\ envDisk[p] \in EnvTexts \cup {Nothing}
  BY <1>1, <1>2, NextFile
<1>4. CASE read + 1 \notin present
  <2>1. t = Nothing /\ subst' = subst /\ envMemo' = envMemo
    BY <1>4 DEF ReadEnvFile
  <2> QED BY <1>1, <2>1, OverlayType
<1>5. CASE read + 1 \in present
  <2>1. t = envDisk[p] /\ EnvText(p) = envDisk[p] /\ envDisk[p] # Garbled
    BY <1>5, MemoIsTransparent DEF ReadEnvFile
  <2>2. subst' = Override(subst, VarsOf(t))
        /\ envMemo' = IF t = Nothing THEN envMemo ELSE [envMemo EXCEPT ![p] = t]
    BY <1>5, <2>1 DEF ReadEnvFile
  <2>3. t \in (EnvTexts \ {Garbled}) \cup {Nothing}
    BY <1>3, <2>1
  <2>4. IsMap(Override(subst, VarsOf(t)))
    BY <1>1, <2>3, OverlayType
  <2>5. envMemo' \in [EnvPath -> (EnvTexts \ {Garbled}) \cup {Nothing}]
    BY <1>1, <1>3, <2>2, <2>3
  <2> HIDE DEF t
  <2>6. t \in (EnvTexts \ {Garbled}) \cup {Nothing} /\ subst' = Override(subst, VarsOf(t))
        /\ IsMap(subst') /\ envMemo' \in [EnvPath -> (EnvTexts \ {Garbled}) \cup {Nothing}]
    BY <2>2, <2>3, <2>4, <2>5
  <2> QED BY <2>6 DEF t
<1> QED
  BY <1>4, <1>5

LEMMA InputsInvInit == InputsInit => InputsInv
<1> SUFFICES ASSUME InputsInit PROVE InputsInv
  OBVIOUS
<1>1. IsMap(<<>>)
  BY DEF IsMap
<1>2. envMemo \in [EnvPath -> (EnvTexts \ {Garbled}) \cup {Nothing}]
  BY DEF InputsInit
<1>3. held \in [EnvPath -> SUBSET (EnvTexts \cup {Nothing})]
  BY DEF InputsInit
<1>4. ~ Loading
  BY DEF InputsInit, Loading
<1> QED
  BY <1>1, <1>2, <1>3, <1>4, InputsAssumption DEF InputsInit, InputsInv, InputsTypeOK

LEMMA InputsInvStep == InputsInv /\ [InputsNext]_inputVars => InputsInv'
<1> SUFFICES ASSUME InputsInv, [InputsNext]_inputVars PROVE InputsInv'
  OBVIOUS
<1> USE DEF InputsInv, InputsTypeOK
<1>1. CASE ResolveArgs
  <2>0. phase' \in {"load", "refused"} /\ ~ Loading'
    BY <1>1 DEF ResolveArgs, Gone, Loading
  <2>1. CASE phase' = "load" /\ UNCHANGED <<contractMemo, envMemo, loading, given, probed>>
    BY <1>1, <2>0, <2>1 DEF ResolveArgs, loading
  <2>2. CASE contractFile \notin {Garbled, Nothing} /\ contractMemo' = LoadMemoized(contractFile)
             /\ phase' \in {"load", "refused"} /\ UNCHANGED <<envMemo, loading, given, probed>>
    <3>1. contractMemo' \in Objects
      BY <2>2, LoadMemoizedIsFresh
    <3>2. contractMemo' # Nothing => contractMemo'.loaded \in ContractTexts \ {Garbled}
      BY <3>1 DEF Objects
    <3> QED BY <1>1, <2>0, <2>2, <3>1, <3>2 DEF ResolveArgs, loading
  <2>3. CASE Gone
    BY <1>1, <2>0, <2>3 DEF ResolveArgs, Gone, loading
  <2> QED BY <1>1, <2>1, <2>2, <2>3 DEF ResolveArgs
<1>2. CASE LoadContract
  <2>1. CASE contractFile \notin {Garbled, Nothing} /\ contractMemo' = LoadMemoized(contractFile)
             /\ phase' = "preflight" /\ BeginLoad(contractMemo') /\ UNCHANGED <<envMemo, given, probed>>
    <3>1. contractMemo' \in Objects
      BY <2>1, LoadMemoizedIsFresh
    <3>2. contractMemo' # Nothing /\ contractMemo'.loaded \in ContractTexts \ {Garbled}
      BY <3>1, ObjectIsSomething DEF Objects
    <3>3. /\ IsMap(subst') /\ read' = 0 /\ looked' \in 0 .. Len(EnvFilesRead') /\ present' = 1 .. looked'
          /\ held' \in [EnvPath -> SUBSET (EnvTexts \cup {Nothing})]
      BY <2>1, <3>1, LoadBegins, InputsAssumption
    <3>4. read' \in 0 .. looked'
      BY <3>3
    <3> QED BY <1>2, <2>1, <3>1, <3>2, <3>3, <3>4 DEF LoadContract
  <2>2. CASE Gone
    <3>1. ~ Loading'
      BY <2>2 DEF Gone, Loading
    <3> QED BY <1>2, <2>2, <3>1 DEF LoadContract, Gone, loading
  <2> QED BY <1>2, <2>1, <2>2 DEF LoadContract
<1>3. CASE Preflight
  <2>1. contractMemo # Nothing /\ contractMemo \in Objects
    BY <1>3 DEF Preflight
  <2>3. contractMemo' \in Objects /\ contractMemo'.loaded = contractMemo.loaded
    BY <1>3, <2>1, InPlaceType DEF Preflight
  <2>4. contractMemo' # Nothing /\ contractMemo'.loaded \in ContractTexts \ {Garbled}
    BY <2>3, ObjectIsSomething DEF Objects
  <2>5. CASE phase' = "prepare" /\ BeginLoad(contractMemo)
    <3>1. /\ IsMap(subst') /\ read' = 0 /\ looked' \in 0 .. Len(EnvFilesRead') /\ present' = 1 .. looked'
          /\ held' \in [EnvPath -> SUBSET (EnvTexts \cup {Nothing})]
      BY <2>1, <2>3, <2>5, LoadBegins, InputsAssumption
    <3>2. read' \in 0 .. looked'
      BY <3>1
    <3> QED BY <1>3, <2>3, <2>4, <2>5, <3>1, <3>2 DEF Preflight
  <2>6. CASE phase' = "refused" /\ UNCHANGED loading
    <3>1. ~ Loading'
      BY <2>6 DEF Loading
    <3> QED BY <1>3, <2>3, <2>4, <2>6, <3>1 DEF Preflight, loading
  <2> QED BY <1>3, <2>5, <2>6 DEF Preflight
<1>4. CASE Prepare
  <2>1. contractMemo # Nothing /\ contractMemo \in Objects
    BY <1>4 DEF Prepare
  <2>3. contractMemo' \in Objects
    BY <1>4, <2>1, InPlaceType DEF Prepare
  <2>4. contractMemo' # Nothing /\ contractMemo'.loaded \in ContractTexts \ {Garbled}
    BY <2>3, ObjectIsSomething DEF Objects
  <2>5. ~ Loading'
    BY <1>4 DEF Prepare, Loading
  <2> QED BY <1>4, <2>3, <2>4, <2>5 DEF Prepare, loading
<1>5. CASE LookForEnvFile
  <2>1. Loading /\ looked < Len(EnvFilesRead) /\ looked' = looked + 1 /\ present' \subseteq present \cup {looked + 1}
        /\ EnvFilesRead' = EnvFilesRead /\ read' = read /\ held' = held /\ IsMap(subst')
    BY <1>5 DEF LookForEnvFile, EnvFilesRead
  <2>2. looked' \in 0 .. Len(EnvFilesRead') /\ read' \in 0 .. looked' /\ present' \subseteq 1 .. looked'
    BY <2>1, NextFile
  <2> QED BY <1>5, <2>1, <2>2 DEF LookForEnvFile
<1>10. CASE ReadEnvFile
  <2>1. Loading /\ looked = Len(EnvFilesRead) /\ read < Len(EnvFilesRead) /\ read' = read + 1
        /\ EnvFilesRead' = EnvFilesRead /\ UNCHANGED <<looked, present, held>>
    BY <1>10 DEF ReadEnvFile, EnvFilesRead
  <2>2. looked' \in 0 .. Len(EnvFilesRead') /\ read' \in 0 .. looked'
    BY <2>1, NextFile
  <2>3. IsMap(subst') /\ envMemo' \in [EnvPath -> (EnvTexts \ {Garbled}) \cup {Nothing}]
    BY <1>10, OneRead
  <2> QED BY <1>10, <2>1, <2>2, <2>3 DEF ReadEnvFile
<1>11. CASE HostUnreadable
  <2>1. ~ Loading'
    BY <1>11 DEF HostUnreadable, Gone, Loading
  <2> QED BY <1>11, <2>1 DEF HostUnreadable, Gone, loading
<1>6. CASE StartContainer
  <2>1. contractMemo # Nothing /\ contractMemo \in Objects
    BY <1>6 DEF StartContainer
  <2>2. contractMemo' \in Objects
    BY <1>6, <2>1, InPlaceType DEF StartContainer
  <2>3. contractMemo' # Nothing /\ contractMemo'.loaded \in ContractTexts \ {Garbled}
    BY <2>2, ObjectIsSomething DEF Objects
  <2>4. probed' # Nothing
    BY <1>6, <2>2, InputsAssumption DEF StartContainer, Objects
  <2>5. contractMemo.loaded.env \in Texts
    BY <2>1, InputsAssumption DEF Objects
  <2>6. given' # Nothing
    BY <1>6, <2>5, SubstituteType, InputsAssumption DEF StartContainer, ContainerEnv
  <2>7. ~ Loading'
    BY <1>6 DEF StartContainer, Loading
  <2> QED BY <1>6, <2>2, <2>3, <2>4, <2>6, <2>7 DEF StartContainer, loading
<1>7. CASE RecordServices
  <2>1. contractMemo # Nothing /\ contractMemo \in Objects
    BY <1>7 DEF RecordServices
  <2>2. contractMemo' \in Objects
    BY <1>7, <2>1, InPlaceType DEF RecordServices
  <2>3. contractMemo' # Nothing /\ contractMemo'.loaded \in ContractTexts \ {Garbled}
    BY <2>2, ObjectIsSomething DEF Objects
  <2>4. ~ Loading'
    BY <1>7 DEF RecordServices, Loading
  <2> QED BY <1>7, <2>2, <2>3, <2>4 DEF RecordServices, loading
<1>8. CASE Edit
  <2>1. held' \in [EnvPath -> SUBSET (EnvTexts \cup {Nothing})]
    BY <1>8 DEF Edit
  <2>2. Loading' = Loading /\ EnvFilesRead' = EnvFilesRead
    BY <1>8 DEF Edit, Loading, EnvFilesRead
  <2> QED BY <1>8, <2>1, <2>2, InputsAssumption DEF Edit
<1>9. CASE UNCHANGED inputVars
  <2>1. Loading' = Loading /\ EnvFilesRead' = EnvFilesRead
    BY <1>9 DEF inputVars, Loading, EnvFilesRead
  <2> QED BY <1>9, <2>1 DEF inputVars, loading
<1> QED
  BY <1>1, <1>2, <1>3, <1>4, <1>5, <1>6, <1>7, <1>8, <1>9, <1>10, <1>11 DEF InputsNext

LEMMA InputsInvHolds == InputsSpec => []InputsInv
BY InputsInvInit, InputsInvStep, PTL DEF InputsSpec

\* No memo ever holds bytes that did not parse, every phase from preflight on has
\* a contract, and a container and its gate get their texts together
\* (internal/spec/load_cache.go, internal/expand).
THEOREM InputsTypeCorrect == InputsSpec => []InputsTypeOK
<1>1. InputsInv => InputsTypeOK
  BY DEF InputsInv
<1> QED
  BY <1>1, InputsInvHolds, PTL

\* What a load has put together so far: of the files it is through with, each
\* contributed a text it held since the load first looked at one.
LoadInv ==
  /\ InputsInv
  /\ Loading =>
       /\ read > 0 => looked = Len(EnvFilesRead)
       /\ contractMemo.loaded.envFiles # Nothing => present = 1 .. Len(EnvFilesRead)
       /\ \A p \in EnvPath : envDisk[p] \in held[p]
       /\ \A i \in 1 .. looked : i \in present \/ Nothing \in held[EnvFilesRead[i]]
       /\ \E texts \in HeldTexts(read) : IsOverlay(subst, texts)

LEMMA LoadInvBegins ==
  ASSUME InputsInv, InputsInv', NEW object \in Objects, BeginLoad(object), contractMemo' \in Objects,
         contractMemo'.loaded = object.loaded, envDisk' = envDisk
  PROVE  LoadInv'
<1>1. /\ subst' = OSEnv /\ read' = 0 /\ present' = 1 .. looked'
      /\ looked' = IF object.loaded.envFiles = Nothing THEN 0 ELSE Len(EnvFilesRead')
      /\ held' = [p \in EnvPath |-> {envDisk[p]}]
  BY LoadBegins
<1>2. <<>> \in HeldTexts(read)' /\ IsOverlay(subst', <<>>)
  <2>1. <<>> \in [1 .. 0 -> EnvTexts \cup {Nothing}] /\ DOMAIN <<>> = {} /\ 1 .. 0 = {}
    OBVIOUS
  <2> QED BY <1>1, <2>1, NoFileYet DEF HeldTexts
<1> QED
  BY <1>1, <1>2 DEF LoadInv

LEMMA LoadInvStep == LoadInv /\ [InputsNext]_inputVars => LoadInv'
<1> SUFFICES ASSUME LoadInv, [InputsNext]_inputVars PROVE LoadInv'
  OBVIOUS
<1>0. InputsInv /\ InputsInv'
  BY InputsInvStep DEF LoadInv
<1>1. CASE LoadContract
  <2>1. CASE contractFile \notin {Garbled, Nothing} /\ contractMemo' = LoadMemoized(contractFile)
             /\ BeginLoad(contractMemo')
    <3>1. contractMemo' \in Objects /\ envDisk' = envDisk
      BY <1>0, <1>1, <2>1, LoadMemoizedIsFresh DEF InputsInv, InputsTypeOK, LoadContract
    <3> QED BY <1>0, <2>1, <3>1, LoadInvBegins
  <2>2. CASE Gone
    BY <1>0, <2>2 DEF LoadInv, Gone, Loading
  <2> QED BY <1>1, <2>1, <2>2 DEF LoadContract
<1>2. CASE Preflight
  <2>1. contractMemo \in Objects /\ IsMap(subst) /\ contractMemo' = InPlace(contractMemo, subst, 2)
        /\ envDisk' = envDisk
    BY <1>0, <1>2 DEF Preflight, InputsInv, InputsTypeOK
  <2>2. contractMemo' \in Objects /\ contractMemo'.loaded = contractMemo.loaded
    BY <2>1, InPlaceType
  <2>3. CASE BeginLoad(contractMemo)
    BY <1>0, <2>1, <2>2, <2>3, LoadInvBegins
  <2>4. CASE phase' = "refused"
    BY <1>0, <2>4 DEF LoadInv, Loading
  <2> QED BY <1>2, <2>3, <2>4 DEF Preflight
<1>3. CASE LookForEnvFile
  <2>1. /\ Loading /\ looked < Len(EnvFilesRead) /\ looked' = looked + 1 /\ EnvFilesRead' = EnvFilesRead
        /\ present' = IF envDisk[EnvFilesRead[looked + 1]] = Nothing THEN present ELSE present \cup {looked + 1}
        /\ UNCHANGED <<envDisk, contractMemo, subst, read, held>>
    BY <1>3 DEF LookForEnvFile, EnvFilesRead
  <2>2. Len(EnvFilesRead) \in Nat /\ looked \in 0 .. Len(EnvFilesRead) /\ read \in 0 .. looked
    BY <1>0, <2>1, NextFile
  <2>3. looked + 1 \in 1 .. Len(EnvFilesRead) /\ EnvFilesRead[looked + 1] \in EnvPath
    BY <1>0, <2>1, <2>2, NextFile
  <2>4. read = 0
    BY <2>1, <2>2 DEF LoadInv
  <2>5. contractMemo.loaded.envFiles # Nothing => present' = 1 .. Len(EnvFilesRead)
    BY <2>1, <2>3 DEF LoadInv
  <2>6. HeldTexts(read)' = HeldTexts(read)
    BY <2>1 DEF HeldTexts
  <2>7. ASSUME NEW i \in 1 .. looked' PROVE i \in present' \/ Nothing \in held'[EnvFilesRead[i]]
    <3>1. CASE i = looked + 1
      BY <2>1, <2>3, <3>1 DEF LoadInv
    <3>2. CASE i # looked + 1
      <4>1. i \in 1 .. looked
        BY <2>1, <2>2, <3>2
      <4> QED BY <2>1, <4>1 DEF LoadInv
    <3> QED BY <3>1, <3>2
  <2>8. \E texts \in HeldTexts(read) : IsOverlay(subst, texts)
    BY <2>1 DEF LoadInv
  <2> QED BY <1>0, <2>1, <2>4, <2>5, <2>6, <2>7, <2>8 DEF LoadInv
<1>4. CASE ReadEnvFile
  <2> DEFINE t == IF read + 1 \in present THEN envDisk[EnvFilesRead[read + 1]] ELSE Nothing
             p == EnvFilesRead[read + 1]
  <2>1. /\ Loading /\ looked = Len(EnvFilesRead) /\ read < Len(EnvFilesRead) /\ read' = read + 1
        /\ EnvFilesRead' = EnvFilesRead /\ UNCHANGED <<envDisk, contractMemo, looked, present, held>>
    BY <1>4 DEF ReadEnvFile, EnvFilesRead
  <2>2. Len(EnvFilesRead) \in Nat /\ read \in Nat /\ read + 1 \in 1 .. looked
        /\ read + 1 \in 1 .. Len(EnvFilesRead)
    BY <1>0, <2>1, NextFile
  <2>3. t \in (EnvTexts \ {Garbled}) \cup {Nothing} /\ subst' = Override(subst, VarsOf(t))
    BY <1>0, <1>4, OneRead
  <2>4. p \in EnvPath /\ t \in held[p] \ {Garbled}
    <3>1. p \in EnvPath
      BY <1>0, <2>1, <2>2, NextFile
    <3>2. t # Garbled
      BY <2>3, InputsAssumption
    <3>3. CASE read + 1 \in present
      BY <2>1, <3>1, <3>2, <3>3 DEF LoadInv
    <3>4. CASE read + 1 \notin present
      BY <2>1, <2>2, <3>1, <3>2, <3>4 DEF LoadInv
    <3> QED BY <3>1, <3>3, <3>4
  <2> HIDE DEF t
  <2>5. PICK texts \in HeldTexts(read) : IsOverlay(subst, texts)
    BY <2>1 DEF LoadInv
  <2> DEFINE more == [i \in 1 .. read + 1 |-> IF i = read + 1 THEN t ELSE texts[i]]
  <2>6. DOMAIN texts = 1 .. read
    BY <2>5 DEF HeldTexts
  <2>7. IsOverlay(subst', more)
    BY <2>2, <2>3, <2>5, <2>6, OneFileMore
  <2>8. more \in HeldTexts(read + 1)
    <3>1. \A i \in 1 .. read : texts[i] \in EnvTexts \cup {Nothing}
                             /\ texts[i] \in held[EnvFilesRead[i]] \ {Garbled}
      BY <2>5 DEF HeldTexts
    <3>2. ASSUME NEW i \in 1 .. read + 1
          PROVE  more[i] \in EnvTexts \cup {Nothing} /\ more[i] \in held[EnvFilesRead[i]] \ {Garbled}
      <4>1. CASE i = read + 1
        BY <2>3, <2>4, <4>1
      <4>2. CASE i # read + 1
        <5>1. i \in 1 .. read
          BY <2>2, <4>2
        <5> QED BY <3>1, <4>2, <5>1
      <4> QED BY <4>1, <4>2
    <3> QED BY <3>2 DEF HeldTexts
  <2>9. HeldTexts(read)' = HeldTexts(read + 1)
    BY <2>1 DEF HeldTexts
  <2> HIDE DEF more
  <2>10. \E x \in HeldTexts(read)' : IsOverlay(subst', x)
    BY <2>7, <2>8, <2>9
  <2> QED BY <1>0, <2>1, <2>10 DEF LoadInv
<1>5. CASE Edit
  <2>1. /\ UNCHANGED <<contractMemo, subst, looked, present, read>> /\ Loading' = Loading
        /\ EnvFilesRead' = EnvFilesRead
    BY <1>5 DEF Edit, Loading, EnvFilesRead
  <2>2. CASE ~ Loading
    BY <1>0, <2>1, <2>2 DEF LoadInv
  <2>3. CASE Loading /\ UNCHANGED <<envDisk, held>>
    <3>1. HeldTexts(read)' = HeldTexts(read)
      BY <2>1, <2>3 DEF HeldTexts
    <3> QED BY <1>0, <2>1, <2>3, <3>1 DEF LoadInv
  <2>4. ASSUME Loading,
               NEW q \in EnvPath, NEW text \in EnvTexts \cup {Nothing},
               envDisk' = [envDisk EXCEPT ![q] = text],
               held' = [held EXCEPT ![q] = IF NotBegun THEN {text} ELSE @ \cup {text}]
        PROVE  LoadInv'
    <3>1. /\ envDisk \in [EnvPath -> EnvTexts \cup {Nothing}]
          /\ held \in [EnvPath -> SUBSET (EnvTexts \cup {Nothing})]
      BY <1>0 DEF InputsInv, InputsTypeOK
    <3>2. \A x \in EnvPath : envDisk'[x] \in held'[x]
      BY <2>4, <3>1 DEF LoadInv
    <3>3. PICK texts \in HeldTexts(read) : IsOverlay(subst, texts)
      BY <2>4 DEF LoadInv
    <3>4. /\ Len(EnvFilesRead) \in Nat /\ looked \in 0 .. Len(EnvFilesRead) /\ read \in 0 .. looked
          /\ \A i \in 1 .. Len(EnvFilesRead) : EnvFilesRead[i] \in EnvPath
      BY <1>0, <2>4, NextFile
    <3>5. CASE NotBegun
      <4>1. read = 0 /\ \A i \in 1 .. looked : i \in present
        BY <2>4, <3>4, <3>5 DEF NotBegun, LoadInv
      <4>2. texts \in HeldTexts(read)'
        BY <2>1, <3>3, <4>1 DEF HeldTexts
      <4> QED BY <1>0, <2>1, <2>4, <3>2, <3>3, <4>1, <4>2 DEF LoadInv
    <3>6. CASE ~ NotBegun
      <4>1. \A x \in EnvPath : held[x] \subseteq held'[x]
        BY <2>4, <3>1, <3>6
      <4>2. texts \in HeldTexts(read)'
        <5>1. \A i \in 1 .. read : i \in 1 .. Len(EnvFilesRead)
          BY <3>4
        <5> QED BY <2>1, <3>3, <3>4, <4>1, <5>1 DEF HeldTexts
      <4>3. \A i \in 1 .. looked : i \in present' \/ Nothing \in held'[EnvFilesRead[i]]
        <5>1. \A i \in 1 .. looked : i \in 1 .. Len(EnvFilesRead)
          BY <3>4
        <5> QED BY <2>1, <2>4, <3>4, <4>1, <5>1 DEF LoadInv
      <4> QED BY <1>0, <2>1, <2>4, <3>2, <3>3, <4>2, <4>3 DEF LoadInv
    <3> QED BY <3>5, <3>6
  <2> QED BY <1>5, <2>2, <2>3, <2>4 DEF Edit
<1>6. CASE ResolveArgs \/ HostUnreadable \/ Prepare \/ StartContainer \/ RecordServices
  <2>1. ~ Loading'
    BY <1>6 DEF ResolveArgs, HostUnreadable, Prepare, StartContainer, RecordServices, Gone, Loading
  <2> QED BY <1>0, <2>1 DEF LoadInv
<1>7. CASE UNCHANGED inputVars
  <2>1. /\ UNCHANGED <<envDisk, contractMemo, subst, looked, present, read, held>> /\ Loading' = Loading
        /\ EnvFilesRead' = EnvFilesRead
    BY <1>7 DEF inputVars, loading, Loading, EnvFilesRead
  <2>2. HeldTexts(read)' = HeldTexts(read)
    BY <2>1 DEF HeldTexts
  <2> QED BY <1>0, <2>1, <2>2 DEF LoadInv
<1> QED
  BY <1>1, <1>2, <1>3, <1>4, <1>5, <1>6, <1>7 DEF InputsNext

LEMMA LoadInvHolds == InputsSpec => []LoadInv
<1>1. InputsInit => LoadInv
  BY InputsInvInit DEF InputsInit, LoadInv, Loading
<1> QED
  BY <1>1, LoadInvStep, PTL DEF InputsSpec

\* Whatever a process has parsed before and whoever edits the files while it
\* reads them, one after another: of every env file, a complete map has a text
\* the file held since the load first looked at one, later files over earlier
\* ones and all of them over the environment; and the contract is the one in its
\* file at the moment of loading (spec.LoadMemoized, expand.LoadHostSubst).
THEOREM LoadsFresh == InputsSpec => LoadsAreFresh
<1> DEFINE Fresh ==
      /\ Loaded => \E texts \in HeldTexts(Len(EnvFilesRead)) : IsOverlay(subst, texts)
      /\ phase = "load" /\ phase' = "preflight" => contractMemo'.loaded = contractFile
<1>1. ASSUME LoadInv, InputsNext PROVE Fresh
  <2>1. Loaded => \E texts \in HeldTexts(Len(EnvFilesRead)) : IsOverlay(subst, texts)
    BY <1>1 DEF LoadInv, Loaded
  <2>2. ASSUME phase = "load", phase' = "preflight" PROVE contractMemo'.loaded = contractFile
    <3>1. contractMemo \in Objects \cup {Nothing} /\ contractFile \in ContractTexts
      BY <1>1 DEF LoadInv, InputsInv, InputsTypeOK
    <3>2. contractFile \notin {Garbled, Nothing} /\ contractMemo' = LoadMemoized(contractFile)
      BY <1>1, <2>2 DEF InputsNext, ResolveArgs, LoadContract, LookForEnvFile, ReadEnvFile,
           HostUnreadable, Preflight, Prepare, StartContainer, RecordServices, Edit, Gone, Loading
    <3> QED BY <3>1, <3>2, LoadMemoizedIsFresh
  <2> QED BY <2>1, <2>2
<1>2. LoadInv /\ [InputsNext]_inputVars => [Fresh]_inputVars
  BY <1>1
<1> QED
  BY <1>2, LoadInvHolds, PTL DEF InputsSpec, LoadsAreFresh
-----------------------------------------------------------------------------
\* Passes over texts, token by token.

\* A pass that finds nothing to replace, or puts back what was there, changes nothing.
LEMMA PassKeeps ==
  ASSUME NEW T, NEW s \in Seq(T), NEW value,
         \A i \in 1 .. Len(s) : Hit(s, value, i, Len(s)) => value[s[i + 1]] = <<Dollar, s[i + 1]>>
  PROVE  Pass(s, value) = s
<1> DEFINE n == Len(s)
<1>1. n \in Nat /\ \A i \in 1 .. n : s[i] \in T
  BY LenProperties, ElementOfSeq
<1>2. PICK f : Walks(f, s, value, n) /\ Pass(s, value) = f[1]
  BY <1>1, PassWalks
<1> DEFINE S == {i \in 1 .. n + 1 : f[i] = SubSeq(s, i, n)}
<1>3. SubSeq(s, n + 1, n) = <<>>
  BY <1>1
<1>4. n + 1 \in S
  <2>1. f[n + 1] = <<>> /\ n + 1 \in 1 .. n + 1
    BY <1>1, <1>2 DEF Walks
  <2> QED BY <1>3, <2>1
<1>5. ASSUME NEW i \in 1 .. n PROVE SubSeq(s, i, n) = <<s[i]>> \o SubSeq(s, i + 1, n)
  BY <1>1
<1>6. ASSUME NEW i \in 1 .. n, i < n PROVE SubSeq(s, i, n) = <<s[i], s[i + 1]>> \o SubSeq(s, i + 2, n)
  BY <1>1, <1>6
<1>7. ASSUME NEW i \in 1 .. n, \A j \in i + 1 .. n + 1 : j \in S PROVE i \in S
  <2>1. i + 1 \in S /\ (i < n => i + 2 \in S)
    BY <1>1, <1>7
  <2> HIDE DEF n
  <2>2. CASE Hit(s, value, i, n)
    <3>1. i < n /\ s[i] = Dollar
      BY <2>2 DEF Hit
    <3>2. f[i] = <<s[i], s[i + 1]>> \o f[i + 2]
      BY <1>2, <2>2, <3>1 DEF Walks, n
    <3>3. f[i + 2] = SubSeq(s, i + 2, n)
      BY <2>1, <3>1
    <3>4. f[i] = SubSeq(s, i, n)
      BY <1>6, <3>1, <3>2, <3>3
    <3> QED BY <1>1, <3>4
  <2>3. CASE ~ Hit(s, value, i, n)
    <3>1. f[i] = <<s[i]>> \o f[i + 1]
      BY <1>2, <2>3 DEF Walks
    <3>3. f[i + 1] = SubSeq(s, i + 1, n)
      BY <2>1
    <3>4. f[i] = SubSeq(s, i, n)
      BY <1>5, <3>1, <3>3
    <3> QED BY <1>1, <3>4
  <2> QED BY <2>2, <2>3
<1> HIDE DEF S
<1>8. 1 \in S
  <2>1. \A i \in 1 .. n + 1 : i \in S
    BY <1>1, <1>4, <1>7, Backwards
  <2> QED BY <1>1, <2>1
<1>9. SubSeq(s, 1, n) = s
  BY <1>1
<1> QED
  BY <1>2, <1>8, <1>9 DEF S

\* Two passes that replace the same by the same make the same of a text.
LEMMA PassesAgree ==
  ASSUME NEW s, NEW v, NEW w, NEW n \in Nat, Len(s) = n,
         \A i \in 1 .. n : /\ Hit(s, v, i, n) <=> Hit(s, w, i, n)
                           /\ Hit(s, v, i, n) => v[s[i + 1]] = w[s[i + 1]]
  PROVE  Pass(s, v) = Pass(s, w)
<1>1. PICK f : Walks(f, s, v, n) /\ Pass(s, v) = f[1]
  BY PassWalks
<1>2. PICK g : Walks(g, s, w, n) /\ Pass(s, w) = g[1]
  BY PassWalks
<1> DEFINE S == {i \in 1 .. n + 1 : f[i] = g[i]}
<1>3. n + 1 \in S
  <2>1. n + 1 \in 1 .. n + 1 /\ f[n + 1] = g[n + 1]
    BY <1>1, <1>2 DEF Walks
  <2> QED BY <2>1
<1>4. ASSUME NEW i \in 1 .. n, \A j \in i + 1 .. n + 1 : j \in S PROVE i \in S
  <2>1. f[i + 1] = g[i + 1] /\ (i < n => f[i + 2] = g[i + 2])
    BY <1>4
  <2>2. f[i] = g[i]
    <3>1. CASE Hit(s, v, i, n)
      <4>1. i < n
        BY <3>1 DEF Hit
      <4> QED BY <1>1, <1>2, <2>1, <3>1, <4>1 DEF Walks
    <3>2. CASE ~ Hit(s, v, i, n)
      BY <1>1, <1>2, <2>1, <3>2 DEF Walks
    <3> QED BY <3>1, <3>2
  <2> QED BY <2>2
<1> HIDE DEF S
<1>5. 1 \in S
  <2>1. \A i \in 1 .. n + 1 : i \in S
    BY <1>3, <1>4, Backwards
  <2> QED BY <2>1
<1> QED
  BY <1>1, <1>2, <1>5 DEF S

\* The last token is no dollar sign.
Ends(s) == s # <<>> => s[Len(s)] # Dollar

\* A pass treats a text that ends in no dollar sign, and one after it, separately.
LEMMA PassJoins ==
  ASSUME NEW T, NEW a \in Seq(T), NEW b \in Seq(T), Ends(a),
         NEW value, \A t \in DOMAIN value : value[t] \in Seq(T)
  PROVE  Pass(a \o b, value) = Pass(a, value) \o Pass(b, value)
<1> DEFINE c == a \o b
           k == Len(a)
           l == Len(b)
           n == k + l
<1>1. /\ k \in Nat /\ l \in Nat /\ n \in Nat
      /\ \A i \in 1 .. k : a[i] \in T
      /\ \A i \in 1 .. l : b[i] \in T
  BY LenProperties, ElementOfSeq
<1>2. /\ c \in Seq(T) /\ Len(c) = n
      /\ \A i \in 1 .. n : c[i] = IF i <= k THEN a[i] ELSE b[i - k]
  BY ConcatProperties
<1>0. k # 0 => a[k] # Dollar
  BY EmptySeq DEF Ends
<1> HIDE DEF c
<1>3. PICK f : Walks(f, a, value, k) /\ Pass(a, value) = f[1]
  BY <1>1, PassWalks
<1>4. PICK g : Walks(g, b, value, l) /\ Pass(b, value) = g[1]
  BY <1>1, PassWalks
<1>5. PICK h : Walks(h, c, value, n) /\ Pass(c, value) = h[1]
  BY <1>1, <1>2, PassWalks
<1>6. \A i \in 1 .. k + 1 : f[i] \in Seq(T)
  BY <1>3, WalkType
<1>7. \A i \in 1 .. l + 1 : g[i] \in Seq(T)
  BY <1>4, WalkType
<1>14. \A i \in 1 .. l : c[k + i] = b[i]
  BY <1>1, <1>2
<1>15. \A i \in 1 .. k : c[i] = a[i]
  BY <1>1, <1>2
<1> HIDE DEF k, l
<1> DEFINE S == {i \in 1 .. l + 1 : h[k + i] = g[i]}
<1>8. l + 1 \in S
  <2>1. k + (l + 1) = n + 1 /\ l + 1 \in 1 .. l + 1
    BY <1>1
  <2>2. h[k + (l + 1)] = g[l + 1]
    BY <1>4, <1>5, <2>1 DEF Walks
  <2> QED BY <2>1, <2>2
<1>9. ASSUME NEW i \in 1 .. l, \A j \in i + 1 .. l + 1 : j \in S PROVE i \in S
  <2>1. h[k + i + 1] = g[i + 1] /\ (i < l => h[k + i + 2] = g[i + 2])
    <3>1. i + 1 \in S /\ (i < l => i + 2 \in S)
      <4>1. i + 1 \in i + 1 .. l + 1 /\ (i < l => i + 2 \in i + 1 .. l + 1)
        BY <1>1
      <4> HIDE DEF S
      <4> QED BY <1>9, <4>1
    <3>2. k + (i + 1) = k + i + 1 /\ k + (i + 2) = k + i + 2
      BY <1>1
    <3> QED BY <3>1, <3>2
  <2>2. k + i \in 1 .. n /\ (k + i < n <=> i < l) /\ c[k + i] = b[i]
        /\ (i < l => c[k + i + 1] = b[i + 1])
    <3>1. i < l => i + 1 \in 1 .. l /\ k + (i + 1) = k + i + 1
      BY <1>1
    <3> QED BY <1>1, <1>14, <3>1
  <2>3. Hit(c, value, k + i, n) <=> Hit(b, value, i, l)
    BY <2>2 DEF Hit
  <2>4. h[k + i] = g[i]
    <3>1. CASE Hit(b, value, i, l)
      <4>1. h[k + i] = value[c[k + i + 1]] \o h[k + i + 2]
        BY <1>5, <2>2, <2>3, <3>1 DEF Walks
      <4>2. g[i] = value[b[i + 1]] \o g[i + 2] /\ i < l
        BY <1>4, <3>1 DEF Walks, Hit
      <4> QED BY <2>1, <2>2, <4>1, <4>2
    <3>2. CASE ~ Hit(b, value, i, l)
      <4>1. h[k + i] = <<c[k + i]>> \o h[k + i + 1]
        BY <1>5, <2>2, <2>3, <3>2 DEF Walks
      <4>2. g[i] = <<b[i]>> \o g[i + 1]
        BY <1>4, <3>2 DEF Walks
      <4> QED BY <2>1, <2>2, <4>1, <4>2
    <3> QED BY <3>1, <3>2
  <2> QED BY <1>1, <2>4
<1> HIDE DEF S
<1>10. h[k + 1] = g[1]
  <2>1. \A i \in 1 .. l + 1 : i \in S
    BY <1>1, <1>8, <1>9, Backwards
  <2>2. 1 \in S
    BY <1>1, <2>1
  <2> QED BY <2>2 DEF S
<1> DEFINE U == {i \in 1 .. k + 1 : h[i] = f[i] \o g[1]}
<1>11. k + 1 \in U
  <2>1. f[k + 1] = <<>> /\ g[1] \in Seq(T) /\ k + 1 \in 1 .. k + 1
    BY <1>1, <1>3, <1>7 DEF Walks
  <2>2. h[k + 1] = f[k + 1] \o g[1]
    BY <1>10, <2>1, ConcatEmptySeq
  <2> QED BY <2>1, <2>2
<1>12. ASSUME NEW i \in 1 .. k, \A j \in i + 1 .. k + 1 : j \in U PROVE i \in U
  <2>1. h[i + 1] = f[i + 1] \o g[1] /\ (i < k => h[i + 2] = f[i + 2] \o g[1])
    <3>1. i + 1 \in i + 1 .. k + 1 /\ (i < k => i + 2 \in i + 1 .. k + 1)
      BY <1>1
    <3>2. i + 1 \in U /\ (i < k => i + 2 \in U)
      <4> HIDE DEF U
      <4> QED BY <1>12, <3>1
    <3> QED BY <3>2
  <2>2. i \in 1 .. n /\ (i < k => i < n) /\ c[i] = a[i] /\ (i < k => c[i + 1] = a[i + 1])
        /\ (i = k => c[i] # Dollar) /\ (i < k \/ i = k)
    BY <1>0, <1>1, <1>15
  <2>3. Hit(c, value, i, n) <=> Hit(a, value, i, k)
    BY <2>2 DEF Hit
  <2>4. g[1] \in Seq(T) /\ f[i + 1] \in Seq(T) /\ (i < k => f[i + 2] \in Seq(T))
    BY <1>1, <1>6, <1>7
  <2>5. h[i] = f[i] \o g[1]
    <3>1. CASE Hit(a, value, i, k)
      <4>1. h[i] = value[c[i + 1]] \o h[i + 2]
        BY <1>5, <2>2, <2>3, <3>1 DEF Walks
      <4>2. f[i] = value[a[i + 1]] \o f[i + 2] /\ i < k /\ value[a[i + 1]] \in Seq(T)
        BY <1>3, <3>1 DEF Walks, Hit
      <4>3. h[i] = value[a[i + 1]] \o (f[i + 2] \o g[1])
        BY <2>1, <2>2, <4>1, <4>2
      <4>4. (value[a[i + 1]] \o f[i + 2]) \o g[1] = value[a[i + 1]] \o (f[i + 2] \o g[1])
        <5>1. value[a[i + 1]] \in Seq(T) /\ f[i + 2] \in Seq(T) /\ g[1] \in Seq(T)
          BY <2>4, <4>2
        <5> DEFINE x == value[a[i + 1]]
                   y == f[i + 2]
                   z == g[1]
        <5>2. x \in Seq(T) /\ y \in Seq(T) /\ z \in Seq(T)
          BY <5>1
        <5> HIDE DEF x, y, z
        <5>3. (x \o y) \o z = x \o (y \o z)
          BY <5>2, ConcatAssociative, SMTT(30)
        <5> QED BY <5>3 DEF x, y, z
      <4> QED BY <4>2, <4>3, <4>4
    <3>2. CASE ~ Hit(a, value, i, k)
      <4>1. h[i] = <<c[i]>> \o h[i + 1]
        BY <1>5, <2>2, <2>3, <3>2 DEF Walks
      <4>2. f[i] = <<a[i]>> \o f[i + 1] /\ <<a[i]>> \in Seq(T)
        BY <1>1, <1>3, <3>2, OneToken DEF Walks
      <4>3. h[i] = <<a[i]>> \o (f[i + 1] \o g[1])
        BY <2>1, <2>2, <4>1
      <4>4. (<<a[i]>> \o f[i + 1]) \o g[1] = <<a[i]>> \o (f[i + 1] \o g[1])
        <5> DEFINE x == <<a[i]>>
                   y == f[i + 1]
                   z == g[1]
        <5>1. x \in Seq(T) /\ y \in Seq(T) /\ z \in Seq(T)
          BY <2>4, <4>2
        <5> HIDE DEF x, y, z
        <5>2. (x \o y) \o z = x \o (y \o z)
          BY <5>1, ConcatAssociative, SMTT(30)
        <5> QED BY <5>2 DEF x, y, z
      <4> QED BY <4>2, <4>3, <4>4
    <3> QED BY <3>1, <3>2
  <2>6. i \in 1 .. k + 1
    BY <1>1
  <2> QED BY <2>5, <2>6
<1> HIDE DEF U
<1>13. 1 \in U
  <2>1. \A i \in 1 .. k + 1 : i \in U
    BY <1>1, <1>11, <1>12, Backwards
  <2> QED BY <1>1, <2>1
<1> QED
  BY <1>3, <1>4, <1>5, <1>13 DEF U, c
-----------------------------------------------------------------------------
\* Texts in which a dollar sign is no puzzle.

NoDollar(s) == \A i \in 1 .. Len(s) : s[i] # Dollar
NoEscape(s) == \A i \in 1 .. Len(s) - 1 : s[i] = Dollar => s[i + 1] # Dollar

\* No value and no default holds a dollar sign.
PlainMap(m) == IsMap(m) /\ \A v \in DOMAIN m : NoDollar(m[v])
PlainDefaults == \A t \in Token : IsBraces(t) => NoDollar(t[4])

\* What the passes replace, whatever text they are over.
GroupsOf(m) == [t \in {u \in Token : IsBraces(u)} |-> Braced(t, m)]
NamesOf(m) == [t \in {u \in Token : IsName(u) /\ IsSet(u[2], m)} |-> m[t[2]]]
MeaningOf(m) ==
  [t \in {u \in Token : u = Dollar \/ IsBraces(u) \/ (IsName(u) /\ IsSet(u[2], m))} |->
     CASE t = Dollar -> <<Dollar>> [] IsBraces(t) -> Braced(t, m) [] IsName(t) -> m[t[2]]]

\* Brace groups, names, dollar signs and the placeholder are different things.
LEMMA TokenKinds ==
  /\ ~ IsBraces(Dollar) /\ ~ IsName(Dollar) /\ ~ IsBraces(Kept) /\ ~ IsName(Kept)
  /\ Dollar # Kept
  /\ \A t : ~ (IsBraces(t) /\ IsName(t))
BY DEF IsBraces, IsName, Dollar, Kept

\* It is enough to say what is replaced of all tokens, not of those of one text.
LEMMA OverAnyText ==
  ASSUME NEW s \in Seq(Token), NEW m
  PROVE  /\ Pass(s, Groups(s, m)) = Pass(s, GroupsOf(m))
         /\ Pass(s, BareNames(s, m)) = Pass(s, NamesOf(m))
         /\ Pass(s, Meaning(s, m)) = Pass(s, MeaningOf(m))
<1> DEFINE n == Len(s)
<1>1. n \in Nat /\ \A i \in 1 .. n : s[i] \in Token /\ s[i] \in Range(s)
  BY LenProperties, ElementOfSeq DEF Range
<1>2. ASSUME NEW i \in 1 .. n, i < n PROVE s[i + 1] \in Token /\ s[i + 1] \in Range(s)
  BY <1>1, <1>2
<1> HIDE DEF n
<1>3. ASSUME NEW i \in 1 .. n
      PROVE  /\ Hit(s, Groups(s, m), i, n) <=> Hit(s, GroupsOf(m), i, n)
             /\ Hit(s, Groups(s, m), i, n) => Groups(s, m)[s[i + 1]] = GroupsOf(m)[s[i + 1]]
  BY <1>2, Zenon DEF Hit, Groups, GroupsOf
<1>4. ASSUME NEW i \in 1 .. n
      PROVE  /\ Hit(s, BareNames(s, m), i, n) <=> Hit(s, NamesOf(m), i, n)
             /\ Hit(s, BareNames(s, m), i, n) => BareNames(s, m)[s[i + 1]] = NamesOf(m)[s[i + 1]]
  BY <1>2, Zenon DEF Hit, BareNames, NamesOf
<1>5. ASSUME NEW i \in 1 .. n
      PROVE  /\ Hit(s, Meaning(s, m), i, n) <=> Hit(s, MeaningOf(m), i, n)
             /\ Hit(s, Meaning(s, m), i, n) => Meaning(s, m)[s[i + 1]] = MeaningOf(m)[s[i + 1]]
  <2> DEFINE M(t) == CASE t = Dollar -> <<Dollar>> [] IsBraces(t) -> Braced(t, m) [] IsName(t) -> m[t[2]]
             P(t) == t = Dollar \/ IsBraces(t) \/ (IsName(t) /\ IsSet(t[2], m))
  <2>1. /\ Meaning(s, m) = [t \in {u \in Range(s) : P(u)} |-> M(t)]
        /\ MeaningOf(m) = [t \in {u \in Token : P(u)} |-> M(t)]
    BY DEF Meaning, MeaningOf
  <2> HIDE DEF M, P
  <2>2. /\ DOMAIN Meaning(s, m) = {u \in Range(s) : P(u)}
        /\ DOMAIN MeaningOf(m) = {u \in Token : P(u)}
        /\ \A t \in DOMAIN Meaning(s, m) : Meaning(s, m)[t] = M(t)
        /\ \A t \in DOMAIN MeaningOf(m) : MeaningOf(m)[t] = M(t)
    BY <2>1, Zenon
  <2>3. ASSUME NEW t \in Range(s), t \in Token
        PROVE  /\ t \in DOMAIN Meaning(s, m) <=> t \in DOMAIN MeaningOf(m)
               /\ t \in DOMAIN Meaning(s, m) => Meaning(s, m)[t] = MeaningOf(m)[t]
    BY <2>2, <2>3
  <2> QED BY <1>2, <2>3 DEF Hit
<1>6. n \in Nat /\ Len(s) = n
  BY <1>1 DEF n
<1> QED
  BY <1>3, <1>4, <1>5, <1>6, PassesAgree

\* Neither a token nor a dollar sign with a token behind it ends in a dollar sign.
LEMMA PairEnds == ASSUME NEW t, t # Dollar PROVE Ends(<<Dollar, t>>) /\ Ends(<<t>>)
BY DEF Ends

\* Nor does a text without one.
LEMMA PlainEnds ==
  ASSUME NEW T, NEW s \in Seq(T), NoDollar(s) PROVE Ends(s)
<1>1. Len(s) \in Nat /\ (s # <<>> => Len(s) # 0)
  BY LenProperties, EmptySeq
<1> QED
  BY <1>1 DEF NoDollar, Ends

\* A brace group stands for a text without dollar signs, or for itself.
LEMMA BracedIsPlain ==
  ASSUME PlainDefaults, NEW m, PlainMap(m), NEW t \in Token, IsBraces(t)
  PROVE  LET b == Braced(t, m)
         IN  /\ b \in Texts /\ Ends(b)
             /\ NoDollar(b) \/ b = <<Dollar, t>>
<1> DEFINE b == Braced(t, m)
<1>1. t[4] \in Texts /\ NoDollar(t[4]) /\ t[3] \in {"", ":-", "-", ":?", "?", ":+", "+"}
  BY TokenAssumption DEF PlainDefaults
<1>2. \A v \in DOMAIN m : m[v] \in Texts /\ NoDollar(m[v])
  BY DEF PlainMap, IsMap
<1>3. <<>> \in Texts /\ NoDollar(<<>>)
  BY EmptySeq DEF Texts, NoDollar
<1>4. <<Dollar, t>> \in Texts
  BY TokenAssumption, TokenKinds, TwoTokens DEF Texts
<1>5. \/ b \in Texts /\ NoDollar(b)
      \/ b = <<Dollar, t>>
  <2> HIDE DEF IsEmpty
  <2> QED BY <1>1, <1>2, <1>3 DEF Braced, IsSet
<1> HIDE DEF b
<1>6. Ends(b)
  BY <1>5, PlainEnds, PairEnds, TokenKinds DEF Texts
<1> QED
  BY <1>4, <1>5, <1>6 DEF b

\* A name that is set stands for a text without dollar signs.
LEMMA NameIsPlain ==
  ASSUME NEW m, PlainMap(m), NEW t, IsSet(t[2], m)
  PROVE  m[t[2]] \in Texts /\ NoDollar(m[t[2]]) /\ Ends(m[t[2]])
BY PlainEnds DEF PlainMap, IsMap, IsSet, Texts

\* The values of the passes, one kind of token at a time.
LEMMA Values ==
  ASSUME PlainDefaults, NEW m, PlainMap(m)
  PROVE  /\ DOMAIN GroupsOf(m) = {t \in Token : IsBraces(t)}
         /\ DOMAIN NamesOf(m) = {t \in Token : IsName(t) /\ IsSet(t[2], m)}
         /\ DOMAIN MeaningOf(m) = DOMAIN GroupsOf(m) \cup DOMAIN NamesOf(m) \cup {Dollar}
         /\ \A t \in DOMAIN GroupsOf(m) : GroupsOf(m)[t] = Braced(t, m) /\ MeaningOf(m)[t] = Braced(t, m)
         /\ \A t \in DOMAIN NamesOf(m) : NamesOf(m)[t] = m[t[2]] /\ MeaningOf(m)[t] = m[t[2]]
         /\ MeaningOf(m)[Dollar] = <<Dollar>>
         /\ \A t \in DOMAIN MeaningOf(m) : MeaningOf(m)[t] \in Texts
<1>1. /\ DOMAIN GroupsOf(m) = {t \in Token : IsBraces(t)}
      /\ DOMAIN NamesOf(m) = {t \in Token : IsName(t) /\ IsSet(t[2], m)}
      /\ DOMAIN MeaningOf(m) =
           {t \in Token : t = Dollar \/ IsBraces(t) \/ (IsName(t) /\ IsSet(t[2], m))}
  BY DEF GroupsOf, NamesOf, MeaningOf
<1>2. DOMAIN MeaningOf(m) = DOMAIN GroupsOf(m) \cup DOMAIN NamesOf(m) \cup {Dollar}
  BY <1>1, TokenAssumption
<1>3. ASSUME NEW t \in Token, IsBraces(t)
      PROVE  GroupsOf(m)[t] = Braced(t, m) /\ MeaningOf(m)[t] = Braced(t, m)
  <2>1. t # Dollar /\ ~ IsName(t)
    BY <1>3, TokenKinds
  <2> HIDE DEF IsBraces, IsName, Braced
  <2> QED BY <1>3, <2>1 DEF GroupsOf, MeaningOf
<1>4. ASSUME NEW t \in Token, IsName(t), IsSet(t[2], m)
      PROVE  NamesOf(m)[t] = m[t[2]] /\ MeaningOf(m)[t] = m[t[2]]
  <2>1. t # Dollar /\ ~ IsBraces(t)
    BY <1>4, TokenKinds
  <2> QED BY <1>4, <2>1 DEF NamesOf, MeaningOf
<1>5. MeaningOf(m)[Dollar] = <<Dollar>>
  BY TokenAssumption, TokenKinds DEF MeaningOf
<1>6. <<Dollar>> \in Texts
  BY TokenAssumption, TokenKinds, OneToken DEF Texts
<1>7. \A t \in DOMAIN MeaningOf(m) : MeaningOf(m)[t] \in Texts
  BY <1>1, <1>2, <1>3, <1>4, <1>5, <1>6, BracedIsPlain, NameIsPlain
<1> QED
  BY <1>1, <1>2, <1>3, <1>4, <1>5, <1>7

\* One token alone is never replaced.
LEMMA OneTokenKept ==
  ASSUME NEW T, NEW x \in T, NEW value PROVE Pass(<<x>>, value) = <<x>>
<1>1. <<x>> \in Seq(T) /\ Len(<<x>>) = 1
  BY OneToken
<1>2. \A i \in 1 .. Len(<<x>>) : ~ Hit(<<x>>, value, i, Len(<<x>>))
  BY <1>1 DEF Hit
<1> QED
  BY <1>1, <1>2, PassKeeps

\* Nor is nothing.
LEMMA NothingKept == ASSUME NEW value PROVE Pass(<<>>, value) = <<>>
<1>1. <<>> \in Seq({}) /\ Len(<<>>) = 0
  OBVIOUS
<1>2. \A i \in 1 .. Len(<<>>) : Hit(<<>>, value, i, Len(<<>>)) => FALSE
  BY <1>1
<1> QED
  BY <1>1, <1>2, PassKeeps

\* Nor anything in a text without dollar signs.
LEMMA PlainKept ==
  ASSUME NEW T, NEW s \in Seq(T), NoDollar(s), NEW value PROVE Pass(s, value) = s
BY PassKeeps DEF NoDollar, Hit

\* A dollar sign and what follows it.
LEMMA PairPassed ==
  ASSUME NEW t \in Token, NEW value, \A u \in DOMAIN value : value[u] \in Seq(Token)
  PROVE  Pass(<<Dollar, t>>, value) = IF t \in DOMAIN value THEN value[t] ELSE <<Dollar, t>>
<1> DEFINE s == <<Dollar, t>>
<1>1. s \in Seq(Token) /\ Len(s) = 2 /\ s[1] = Dollar /\ s[2] = t
  BY TokenAssumption, TwoTokens
<1> HIDE DEF s
<1>2. PICK f : Walks(f, s, value, 2) /\ Pass(s, value) = f[1]
  BY <1>1, PassWalks
<1>3. CASE t \in DOMAIN value
  <2>1. Hit(s, value, 1, 2)
    BY <1>1, <1>3 DEF Hit
  <2>2. f[1] = value[t] \o f[3] /\ f[3] = <<>>
    <3>1. 1 \in 1 .. 2 /\ 1 + 1 = 2 /\ 1 + 2 = 3 /\ 2 + 1 = 3
      OBVIOUS
    <3>2. f[1] = value[s[1 + 1]] \o f[1 + 2] /\ f[2 + 1] = <<>>
      BY <1>2, <2>1, <3>1, Zenon DEF Walks
    <3> QED BY <1>1, <3>1, <3>2, Zenon
  <2> QED BY <1>2, <1>3, <2>2, ConcatEmptySeq DEF s
<1>4. CASE t \notin DOMAIN value
  <2>1. \A i \in 1 .. Len(s) : ~ Hit(s, value, i, Len(s))
    BY <1>1, <1>4 DEF Hit
  <2>2. Pass(s, value) = s
    BY <1>1, <2>1, PassKeeps
  <2> QED BY <1>4, <2>2 DEF s
<1> QED
  BY <1>3, <1>4

\* A walk over a text without "$$", two tokens at a time behind a dollar sign.
Strides(f, s, value, n) ==
  /\ f[n + 1] = <<>>
  /\ \A i \in 1 .. n :
       /\ s[i] # Dollar \/ i = n => f[i] = <<s[i]>> \o f[i + 1]
       /\ s[i] = Dollar /\ i < n =>
            f[i] = (IF s[i + 1] \in DOMAIN value THEN value[s[i + 1]] ELSE <<Dollar, s[i + 1]>>)
                     \o f[i + 2]

\* Two tokens in front, one after the other or at once.
LEMMA PairFirst ==
  ASSUME NEW T, NEW x \in T, NEW y \in T, NEW z \in Seq(T)
  PROVE  <<x>> \o (<<y>> \o z) = <<x, y>> \o z
<1>1. <<x>> \in Seq(T) /\ <<y>> \in Seq(T)
  BY OneToken
<1>2. <<x>> \o <<y>> = <<x, y>>
  <2> DEFINE a == <<x>> \o <<y>>
             b == <<x, y>>
  <2>1. a \in Seq(T) /\ Len(a) = 2 /\ a[1] = x /\ a[2] = y
    BY <1>1, ConcatProperties
  <2>2. b \in Seq(T) /\ Len(b) = 2 /\ b[1] = x /\ b[2] = y
    BY TwoTokens
  <2> HIDE DEF a, b
  <2>3. \A i \in 1 .. Len(a) : a[i] = b[i]
    BY <2>1, <2>2
  <2>4. a = b
    BY <2>1, <2>2, <2>3, SeqEqual
  <2> QED BY <2>4 DEF a, b
<1>3. <<x>> \o (<<y>> \o z) = (<<x>> \o <<y>>) \o z
  BY <1>1, ConcatAssociative
<1> QED
  BY <1>2, <1>3

\* Every pass over such a text is the beginning of one.
LEMMA PassStrides ==
  ASSUME NEW s \in Seq(Token), NoEscape(s), NEW value, \A t \in DOMAIN value : value[t] \in Seq(Token),
         NEW n, n = Len(s)
  PROVE  \E f : /\ Strides(f, s, value, n) /\ Pass(s, value) = f[1]
                /\ \A i \in 1 .. n + 1 : f[i] \in Seq(Token)
<1>1. n \in Nat /\ \A i \in 1 .. n : s[i] \in Token
  BY LenProperties, ElementOfSeq
<1>2. PICK f : Walks(f, s, value, n) /\ Pass(s, value) = f[1]
  BY <1>1, PassWalks
<1>3. \A i \in 1 .. n + 1 : f[i] \in Seq(Token)
  BY <1>2, WalkType
<1>6. ASSUME NEW i \in 1 .. n, s[i] # Dollar \/ i = n PROVE f[i] = <<s[i]>> \o f[i + 1]
  <2>1. ~ Hit(s, value, i, n)
    BY <1>1, <1>6 DEF Hit
  <2> QED BY <1>2, <2>1 DEF Walks
<1>7. ASSUME NEW i \in 1 .. n, s[i] = Dollar, i < n
      PROVE  f[i] = (IF s[i + 1] \in DOMAIN value THEN value[s[i + 1]] ELSE <<Dollar, s[i + 1]>>)
                      \o f[i + 2]
  <2>0. i + 1 \in 1 .. n /\ i + 2 \in 1 .. n + 1 /\ s[i + 1] # Dollar /\ (i + 1) + 1 = i + 2
    BY <1>1, <1>7 DEF NoEscape
  <2>1. CASE s[i + 1] \in DOMAIN value
    <3>1. Hit(s, value, i, n)
      BY <1>7, <2>1 DEF Hit
    <3> QED BY <1>2, <2>1, <3>1 DEF Walks
  <2>2. CASE s[i + 1] \notin DOMAIN value
    <3>1. ~ Hit(s, value, i, n)
      BY <2>2 DEF Hit
    <3>2. f[i] = <<s[i]>> \o f[i + 1]
      BY <1>2, <3>1 DEF Walks
    <3>3. f[i + 1] = <<s[i + 1]>> \o f[i + 2]
      BY <1>6, <2>0
    <3>4. Dollar \in Token /\ s[i + 1] \in Token /\ f[i + 2] \in Seq(Token)
      BY <1>1, <1>3, <2>0, TokenAssumption
    <3>5. <<Dollar>> \o (<<s[i + 1]>> \o f[i + 2]) = <<Dollar, s[i + 1]>> \o f[i + 2]
      BY <3>4, PairFirst
    <3> QED BY <1>7, <2>2, <3>2, <3>3, <3>5, Zenon
  <2> QED BY <2>1, <2>2
<1> QED
  BY <1>2, <1>3, <1>6, <1>7 DEF Walks, Strides

\* Expanding brace groups first and names after that is one pass that does both.
LEMMA OnePass ==
  ASSUME PlainDefaults, NEW m, PlainMap(m), NEW s \in Texts, NoEscape(s)
  PROVE  Pass(Pass(s, GroupsOf(m)), NamesOf(m)) = Pass(s, MeaningOf(m))
<1> DEFINE n == Len(s)
           G == GroupsOf(m)
           B == NamesOf(m)
           M == MeaningOf(m)
<1>0. s \in Seq(Token) /\ n \in Nat /\ \A i \in 1 .. n : s[i] \in Token
  BY TextIsTokens, LenProperties, ElementOfSeq
<1>1. /\ \A t \in DOMAIN G : G[t] \in Seq(Token) /\ G[t] = M[t] /\ Ends(G[t])
                             /\ (NoDollar(G[t]) \/ G[t] = <<Dollar, t>>)
      /\ \A t \in DOMAIN B : B[t] \in Seq(Token) /\ B[t] = M[t]
      /\ \A t \in DOMAIN M : M[t] \in Seq(Token)
      /\ \A t \in Token : t # Dollar => (t \in DOMAIN M <=> t \in DOMAIN G \/ t \in DOMAIN B)
      /\ DOMAIN G \cap DOMAIN B = {} /\ DOMAIN G \subseteq Token
  <2> HIDE DEF G, B, M
  <2>1. /\ DOMAIN G = {t \in Token : IsBraces(t)}
        /\ DOMAIN B = {t \in Token : IsName(t) /\ IsSet(t[2], m)}
        /\ DOMAIN M = DOMAIN G \cup DOMAIN B \cup {Dollar}
        /\ \A t \in DOMAIN G : G[t] = Braced(t, m) /\ M[t] = Braced(t, m)
        /\ \A t \in DOMAIN B : B[t] = m[t[2]] /\ M[t] = m[t[2]]
        /\ \A t \in DOMAIN M : M[t] \in Texts
    BY Values DEF G, B, M
  <2>2. ASSUME NEW t \in DOMAIN G
        PROVE  /\ G[t] \in Seq(Token) /\ G[t] = M[t] /\ Ends(G[t])
               /\ NoDollar(G[t]) \/ G[t] = <<Dollar, t>>
    <3>1. t \in Token /\ IsBraces(t)
      BY <2>1
    <3>2. /\ Braced(t, m) \in Texts /\ Ends(Braced(t, m))
          /\ NoDollar(Braced(t, m)) \/ Braced(t, m) = <<Dollar, t>>
      BY <3>1, BracedIsPlain
    <3> QED BY <2>1, <3>2, TextIsTokens
  <2>3. ASSUME NEW t \in DOMAIN B PROVE B[t] \in Seq(Token) /\ B[t] = M[t]
    <3>1. B[t] = M[t] /\ t \in DOMAIN M
      BY <2>1
    <3> QED BY <2>1, <3>1, TextIsTokens
  <2>4. \A t \in DOMAIN M : M[t] \in Seq(Token)
    BY <2>1, TextIsTokens
  <2>5. \A t \in Token : t # Dollar => (t \in DOMAIN M <=> t \in DOMAIN G \/ t \in DOMAIN B)
    BY <2>1
  <2>6. DOMAIN G \cap DOMAIN B = {} /\ DOMAIN G \subseteq Token
    BY <2>1, TokenKinds
  <2> QED BY <2>2, <2>3, <2>4, <2>5, <2>6
<1> HIDE DEF n, G, B, M
<1>7. \A x, y \in Seq(Token) : Ends(x) => Pass(x \o y, B) = Pass(x, B) \o Pass(y, B)
  BY <1>1, PassJoins
<1>2. PICK f : /\ Strides(f, s, G, n) /\ Pass(s, G) = f[1]
               /\ \A i \in 1 .. n + 1 : f[i] \in Seq(Token)
  BY <1>0, <1>1, PassStrides DEF n
<1>3. PICK g : /\ Strides(g, s, M, n) /\ Pass(s, M) = g[1]
               /\ \A i \in 1 .. n + 1 : g[i] \in Seq(Token)
  BY <1>0, <1>1, PassStrides DEF n
<1> DEFINE S == {i \in 1 .. n + 1 : Pass(f[i], B) = g[i]}
<1>4. n + 1 \in S
  <2>1. n + 1 \in 1 .. n + 1 /\ f[n + 1] = <<>> /\ g[n + 1] = <<>>
    BY <1>0, <1>2, <1>3 DEF Strides
  <2>2. Pass(f[n + 1], B) = g[n + 1]
    BY <2>1, NothingKept
  <2> QED BY <2>1, <2>2
<1>5. ASSUME NEW i \in 1 .. n, \A j \in i + 1 .. n + 1 : j \in S PROVE i \in S
  <2>1. /\ i + 1 \in 1 .. n + 1 /\ Pass(f[i + 1], B) = g[i + 1]
        /\ i < n => i + 2 \in 1 .. n + 1 /\ Pass(f[i + 2], B) = g[i + 2]
    <3>1. i + 1 \in i + 1 .. n + 1 /\ (i < n => i + 2 \in i + 1 .. n + 1)
      BY <1>0
    <3>2. i + 1 \in S /\ (i < n => i + 2 \in S)
      <4> HIDE DEF S
      <4> QED BY <1>5, <3>1
    <3> QED BY <3>2
  <2>2. Pass(f[i], B) = g[i]
    <3>1. CASE s[i] # Dollar
      <4>1. f[i] = <<s[i]>> \o f[i + 1] /\ g[i] = <<s[i]>> \o g[i + 1]
        BY <1>2, <1>3, <3>1 DEF Strides
      <4>2. Ends(<<s[i]>>) /\ <<s[i]>> \in Seq(Token) /\ Pass(<<s[i]>>, B) = <<s[i]>>
        BY <1>0, <3>1, PairEnds, OneToken, OneTokenKept
      <4>3. Pass(<<s[i]>> \o f[i + 1], B) = Pass(<<s[i]>>, B) \o Pass(f[i + 1], B)
        BY <1>2, <1>7, <2>1, <4>2, Zenon
      <4> QED BY <2>1, <4>1, <4>2, <4>3, Zenon
    <3>2. CASE s[i] = Dollar /\ i = n
      <4>1. f[i] = <<s[i]>> \o f[n + 1] /\ g[i] = <<s[i]>> \o g[n + 1]
        BY <1>2, <1>3, <3>2 DEF Strides
      <4>2. f[n + 1] = <<>> /\ g[n + 1] = <<>>
        BY <1>2, <1>3 DEF Strides
      <4>3. s[i] \in Token /\ <<s[i]>> \in Seq(Token) /\ Pass(<<s[i]>>, B) = <<s[i]>>
        BY <1>0, OneToken, OneTokenKept
      <4>4. <<s[i]>> \o <<>> = <<s[i]>>
        BY <4>3, ConcatEmptySeq
      <4> QED BY <4>1, <4>2, <4>3, <4>4, Zenon
    <3>3. CASE s[i] = Dollar /\ i < n
      <4> DEFINE t == s[i + 1]
                 F == IF t \in DOMAIN G THEN G[t] ELSE <<Dollar, t>>
                 H == IF t \in DOMAIN M THEN M[t] ELSE <<Dollar, t>>
      <4>1. t \in Token /\ t # Dollar
        BY <1>0, <3>3 DEF NoEscape, n
      <4>2. f[i] = F \o f[i + 2] /\ g[i] = H \o g[i + 2]
        BY <1>2, <1>3, <3>3 DEF Strides
      <4> HIDE DEF t
      <4>3. <<Dollar, t>> \in Seq(Token) /\ Ends(<<Dollar, t>>)
        BY <4>1, TokenAssumption, TwoTokens, PairEnds
      <4>4. Pass(<<Dollar, t>>, B) = IF t \in DOMAIN B THEN B[t] ELSE <<Dollar, t>>
        BY <1>1, <4>1, PairPassed
      <4>5. F \in Seq(Token) /\ Ends(F)
        BY <1>1, <4>3
      <4>6. Pass(F, B) = H
        <5>1. CASE t \in DOMAIN G
          <6>1. F = G[t] /\ H = G[t] /\ t \notin DOMAIN B
            BY <1>1, <4>1, <5>1
          <6>2. CASE NoDollar(G[t])
            BY <1>1, <5>1, <6>1, <6>2, PlainKept
          <6>3. CASE G[t] = <<Dollar, t>>
            BY <4>4, <6>1, <6>3
          <6> QED BY <1>1, <5>1, <6>2, <6>3
        <5>2. CASE t \notin DOMAIN G
          <6>1. F = <<Dollar, t>> /\ (t \in DOMAIN M <=> t \in DOMAIN B)
            BY <1>1, <4>1, <5>2
          <6>2. H = IF t \in DOMAIN B THEN B[t] ELSE <<Dollar, t>>
            BY <1>1, <6>1
          <6> QED BY <4>4, <6>1, <6>2
        <5> QED BY <5>1, <5>2
      <4> HIDE DEF F, H
      <4>7. Pass(F \o f[i + 2], B) = Pass(F, B) \o Pass(f[i + 2], B)
        BY <1>2, <1>7, <2>1, <3>3, <4>5, Zenon
      <4> QED BY <2>1, <3>3, <4>2, <4>6, <4>7
    <3> QED BY <1>0, <3>1, <3>2, <3>3
  <2>3. i \in 1 .. n + 1
    BY <1>0
  <2> QED BY <2>2, <2>3
<1> HIDE DEF S
<1>6. 1 \in S
  <2>1. \A i \in 1 .. n + 1 : i \in S
    BY <1>0, <1>4, <1>5, Backwards
  <2> QED BY <1>0, <2>1
<1> QED
  BY <1>2, <1>3, <1>6 DEF S, G, B, M

\* Nothing in s is left to be replaced.
Calm(s, value) ==
  \A i \in 1 .. Len(s) - 1 : s[i] = Dollar =>
    s[i + 1] # Dollar /\ (s[i + 1] \in DOMAIN value => value[s[i + 1]] = <<Dollar, s[i + 1]>>)

\* Two texts with nothing left to be replaced, put together.
LEMMA CalmJoins ==
  ASSUME NEW T, NEW a \in Seq(T), NEW b \in Seq(T), Ends(a), NEW value,
         Calm(a, value), Calm(b, value)
  PROVE  Calm(a \o b, value)
<1> DEFINE k == Len(a)
           l == Len(b)
           c == a \o b
<1>1. k \in Nat /\ l \in Nat /\ (k # 0 => a[k] # Dollar)
  BY LenProperties, EmptySeq DEF Ends
<1>2. /\ Len(c) = k + l
      /\ \A i \in 1 .. k + l : c[i] = IF i <= k THEN a[i] ELSE b[i - k]
  BY ConcatProperties
<1>3. /\ \A i \in 1 .. k - 1 : a[i] = Dollar =>
           a[i + 1] # Dollar /\ (a[i + 1] \in DOMAIN value => value[a[i + 1]] = <<Dollar, a[i + 1]>>)
      /\ \A i \in 1 .. l - 1 : b[i] = Dollar =>
           b[i + 1] # Dollar /\ (b[i + 1] \in DOMAIN value => value[b[i + 1]] = <<Dollar, b[i + 1]>>)
  BY DEF Calm
<1> HIDE DEF k, l, c
<1>7. 1 .. Len(c) - 1 = 1 .. k + l - 1
  <2>1. Len(c) = k + l
    BY <1>2
  <2> QED BY <1>1, <2>1
<1> SUFFICES Calm(c, value)
  BY DEF c
<1> SUFFICES ASSUME NEW i \in 1 .. k + l - 1, c[i] = Dollar
             PROVE  /\ c[i + 1] # Dollar
                    /\ c[i + 1] \in DOMAIN value => value[c[i + 1]] = <<Dollar, c[i + 1]>>
  BY <1>7, Zenon DEF Calm
<1>4. CASE i < k
  <2>1. i \in 1 .. k - 1 /\ i + 1 \in 1 .. k /\ i \in 1 .. k + l /\ i + 1 \in 1 .. k + l /\ i <= k /\ i + 1 <= k
    BY <1>1, <1>4
  <2>2. c[i] = a[i] /\ c[i + 1] = a[i + 1]
    BY <1>2, <2>1
  <2> QED BY <1>3, <2>1, <2>2
<1>5. CASE i = k
  <2>1. i \in 1 .. k + l /\ i <= k /\ k # 0
    BY <1>1, <1>5
  <2> QED BY <1>1, <1>2, <1>5, <2>1
<1>6. CASE i > k
  <2> DEFINE j == i - k
  <2>1. /\ j \in 1 .. l - 1 /\ i \in 1 .. k + l /\ i + 1 \in 1 .. k + l /\ ~ (i <= k) /\ ~ (i + 1 <= k)
        /\ (i + 1) - k = j + 1
    BY <1>1, <1>6
  <2>2. c[i] = b[j] /\ c[i + 1] = b[j + 1]
    BY <1>2, <2>1
  <2> HIDE DEF j
  <2> QED BY <1>3, <2>1, <2>2
<1> QED
  BY <1>1, <1>4, <1>5, <1>6

\* One expansion leaves nothing to be replaced.
LEMMA PassSettles ==
  ASSUME PlainDefaults, NEW m, PlainMap(m), NEW s \in Texts, NoEscape(s)
  PROVE  Calm(Pass(s, MeaningOf(m)), MeaningOf(m))
<1> DEFINE n == Len(s)
           G == GroupsOf(m)
           B == NamesOf(m)
           M == MeaningOf(m)
<1>0. s \in Seq(Token) /\ n \in Nat /\ \A i \in 1 .. n : s[i] \in Token
  BY TextIsTokens, LenProperties, ElementOfSeq
<1>1. ASSUME NEW t \in DOMAIN M, t # Dollar
      PROVE  Ends(M[t]) /\ (NoDollar(M[t]) \/ M[t] = <<Dollar, t>>)
  <2>1. CASE t \in DOMAIN G
    <3>1. t \in Token /\ IsBraces(t) /\ M[t] = Braced(t, m)
      BY <2>1, Values
    <3>2. /\ Ends(Braced(t, m))
          /\ NoDollar(Braced(t, m)) \/ Braced(t, m) = <<Dollar, t>>
      BY <3>1, BracedIsPlain
    <3> QED BY <3>1, <3>2
  <2>2. CASE t \in DOMAIN B
    <3>1. IsSet(t[2], m) /\ M[t] = m[t[2]]
      BY <2>2, Values
    <3> QED BY <3>1, NameIsPlain
  <2>0. DOMAIN M = DOMAIN G \cup DOMAIN B \cup {Dollar}
    BY Values
  <2> HIDE DEF G, B, M
  <2>3. t \in DOMAIN G \/ t \in DOMAIN B
    BY <1>1, <2>0
  <2> QED BY <2>1, <2>2, <2>3
<1>2. \A t \in DOMAIN M : M[t] \in Seq(Token)
  BY Values, TextIsTokens
<1> HIDE DEF n, G, B, M
<1>3. PICK g : /\ Strides(g, s, M, n) /\ Pass(s, M) = g[1]
               /\ \A i \in 1 .. n + 1 : g[i] \in Seq(Token)
  BY <1>0, <1>2, PassStrides DEF n
<1>4. \A x, y \in Seq(Token) : Ends(x) /\ Calm(x, M) /\ Calm(y, M) => Calm(x \o y, M)
  BY CalmJoins
<1>5. \A x : NoDollar(x) => Calm(x, M)
  <2> SUFFICES ASSUME NEW x, NoDollar(x), NEW i \in 1 .. Len(x) - 1, x[i] = Dollar PROVE FALSE
    BY DEF Calm
  <2> QED
    BY DEF NoDollar
<1>6. ASSUME NEW t \in Token PROVE Calm(<<t>>, M)
  BY DEF Calm
<1>7. ASSUME NEW t \in Token, t # Dollar, t \in DOMAIN M => M[t] = <<Dollar, t>>
      PROVE  Calm(<<Dollar, t>>, M)
  <2> DEFINE x == <<Dollar, t>>
  <2>1. Len(x) = 2 /\ x[2] = t
    OBVIOUS
  <2> HIDE DEF x
  <2>2. ASSUME NEW i \in 1 .. Len(x) - 1
        PROVE  x[i + 1] # Dollar /\ (x[i + 1] \in DOMAIN M => M[x[i + 1]] = <<Dollar, x[i + 1]>>)
    <3>1. i + 1 = 2
      BY <2>1
    <3> QED BY <1>7, <2>1, <3>1, Zenon
  <2> QED BY <2>2 DEF Calm, x
<1> DEFINE S == {i \in 1 .. n + 1 : Calm(g[i], M)}
<1>8. n + 1 \in S
  <2>1. n + 1 \in 1 .. n + 1 /\ g[n + 1] = <<>>
    BY <1>0, <1>3 DEF Strides
  <2>2. Calm(<<>>, M)
    BY DEF Calm
  <2> QED BY <2>1, <2>2
<1>9. ASSUME NEW i \in 1 .. n, \A j \in i + 1 .. n + 1 : j \in S PROVE i \in S
  <2>1. /\ i + 1 \in 1 .. n + 1 /\ Calm(g[i + 1], M)
        /\ i < n => i + 2 \in 1 .. n + 1 /\ Calm(g[i + 2], M)
    <3>1. i + 1 \in i + 1 .. n + 1 /\ (i < n => i + 2 \in i + 1 .. n + 1)
      BY <1>0
    <3>2. i + 1 \in S /\ (i < n => i + 2 \in S)
      <4> HIDE DEF S
      <4> QED BY <1>9, <3>1
    <3> QED BY <3>2
  <2>2. Calm(g[i], M)
    <3>1. CASE s[i] # Dollar
      <4>1. g[i] = <<s[i]>> \o g[i + 1]
        BY <1>3, <3>1 DEF Strides
      <4>2. Ends(<<s[i]>>) /\ <<s[i]>> \in Seq(Token) /\ Calm(<<s[i]>>, M)
        BY <1>0, <1>6, <3>1, PairEnds, OneToken
      <4> QED BY <1>3, <1>4, <2>1, <4>1, <4>2, Zenon
    <3>2. CASE s[i] = Dollar /\ i = n
      <4>1. g[i] = <<s[i]>> \o <<>>
        BY <1>3, <3>2 DEF Strides
      <4>2. s[i] \in Token /\ <<s[i]>> \in Seq(Token)
        BY <1>0, OneToken
      <4>3. g[i] = <<s[i]>>
        BY <4>1, <4>2, ConcatEmptySeq
      <4> QED BY <1>6, <4>2, <4>3
    <3>3. CASE s[i] = Dollar /\ i < n
      <4> DEFINE t == s[i + 1]
                 H == IF t \in DOMAIN M THEN M[t] ELSE <<Dollar, t>>
      <4>1. t \in Token /\ t # Dollar
        BY <1>0, <3>3 DEF NoEscape, n
      <4>2. g[i] = H \o g[i + 2]
        BY <1>3, <3>3 DEF Strides
      <4> HIDE DEF t
      <4>3. <<Dollar, t>> \in Seq(Token) /\ Ends(<<Dollar, t>>)
        BY <4>1, TokenAssumption, TwoTokens, PairEnds
      <4>4. H \in Seq(Token) /\ Ends(H) /\ (NoDollar(H) \/ (H = <<Dollar, t>> /\ (t \in DOMAIN M => M[t] = H)))
        BY <1>1, <1>2, <4>1, <4>3
      <4>5. Calm(H, M)
        BY <1>5, <1>7, <4>1, <4>4
      <4> HIDE DEF H
      <4> QED BY <1>3, <1>4, <2>1, <3>3, <4>2, <4>4, <4>5, Zenon
    <3> QED BY <1>0, <3>1, <3>2, <3>3
  <2>3. i \in 1 .. n + 1
    BY <1>0
  <2> QED BY <2>2, <2>3
<1> HIDE DEF S
<1>10. 1 \in S
  <2>1. \A i \in 1 .. n + 1 : i \in S
    BY <1>0, <1>8, <1>9, Backwards
  <2> QED BY <1>0, <2>1
<1> QED
  BY <1>3, <1>10 DEF S, M

\* A text without "$$" is expanded as documented, if there are no dollar signs in
\* values and defaults.
LEMMA OnceAsDocumented ==
  ASSUME PlainDefaults, NEW m, PlainMap(m), NEW s \in Texts, NoEscape(s)
  PROVE  /\ Substitute(s, m) = Pass(s, MeaningOf(m))
         /\ AsDocumented(s, m) = Pass(s, MeaningOf(m))
         /\ Pass(s, MeaningOf(m)) \in Texts
<1> DEFINE escapes == [t \in {Dollar} |-> <<Kept>>]
           expanded == Pass(s, MeaningOf(m))
<1>0. s \in Seq(Token) /\ Len(s) \in Nat
  BY TextIsTokens, LenProperties
<1>1. Pass(s, escapes) = s
  <2>1. ASSUME NEW i \in 1 .. Len(s) PROVE ~ Hit(s, escapes, i, Len(s))
    BY <1>0 DEF Hit, NoEscape
  <2> QED BY <1>0, <2>1, PassKeeps
<1>2. Pass(s, Groups(s, m)) = Pass(s, GroupsOf(m))
  BY <1>0, OverAnyText
<1>3. Pass(s, GroupsOf(m)) \in Seq(Token)
  <2>1. \A t \in DOMAIN GroupsOf(m) : GroupsOf(m)[t] \in Seq(Token)
    <3> SUFFICES ASSUME NEW t \in DOMAIN GroupsOf(m) PROVE GroupsOf(m)[t] \in Seq(Token)
      OBVIOUS
    <3>1. t \in Token /\ IsBraces(t) /\ GroupsOf(m)[t] = Braced(t, m)
      BY Values
    <3> QED BY <3>1, BracedIsPlain, TextIsTokens
  <2> QED BY <1>0, <2>1, PassType
<1>4. Pass(Pass(s, GroupsOf(m)), BareNames(Pass(s, GroupsOf(m)), m)) = expanded
  BY <1>3, OverAnyText, OnePass
<1>5. expanded \in Texts
  <2>1. \A t \in DOMAIN MeaningOf(m) : MeaningOf(m)[t] \in Seq(Token \ {Kept})
    BY Values DEF Texts
  <2>2. s \in Seq(Token \ {Kept})
    BY DEF Texts
  <2> HIDE DEF expanded
  <2>3. Pass(s, MeaningOf(m)) \in Seq(Token \ {Kept})
    BY <2>1, <2>2, PassType
  <2> QED BY <2>3 DEF Texts, expanded
<1>6. Substitute(s, m) = [i \in DOMAIN expanded |-> IF expanded[i] = Kept THEN Dollar ELSE expanded[i]]
  BY <1>1, <1>2, <1>4 DEF Substitute
<1> HIDE DEF expanded
<1>7. \A i \in DOMAIN expanded : expanded[i] # Kept
  <2>1. expanded \in Seq(Token \ {Kept})
    BY <1>5 DEF Texts
  <2> QED BY <2>1, LenProperties, ElementOfSeq
<1>8. expanded = [i \in DOMAIN expanded |-> expanded[i]]
  BY <1>5 DEF Texts
<1>9. Substitute(s, m) = expanded
  BY <1>6, <1>7, <1>8
<1>10. AsDocumented(s, m) = expanded
  BY <1>0, OverAnyText DEF AsDocumented, expanded
<1> QED
  BY <1>5, <1>9, <1>10 DEF expanded

\* Twice is then as good as once.
LEMMA TwiceAsDocumented ==
  ASSUME PlainDefaults, NEW m, PlainMap(m), NEW s \in Texts, NoEscape(s)
  PROVE  Substitute(Substitute(s, m), m) = AsDocumented(s, m)
<1> DEFINE r == Pass(s, MeaningOf(m))
<1>1. Substitute(s, m) = r /\ AsDocumented(s, m) = r /\ r \in Texts
  BY OnceAsDocumented
<1>2. Calm(r, MeaningOf(m))
  BY PassSettles
<1> HIDE DEF r
<1>3. NoEscape(r)
  BY <1>2 DEF NoEscape, Calm
<1>4. Substitute(r, m) = Pass(r, MeaningOf(m))
  BY <1>1, <1>3, OnceAsDocumented
<1>5. ASSUME NEW i \in 1 .. Len(r), Hit(r, MeaningOf(m), i, Len(r))
      PROVE  MeaningOf(m)[r[i + 1]] = <<Dollar, r[i + 1]>>
  <2>1. Len(r) \in Nat
    BY <1>1, LenProperties DEF Texts
  <2>2. i \in 1 .. Len(r) - 1 /\ r[i] = Dollar /\ r[i + 1] \in DOMAIN MeaningOf(m)
    BY <1>5, <2>1 DEF Hit
  <2> QED BY <1>2, <2>2 DEF Calm
<1>6. Pass(r, MeaningOf(m)) = r
  BY <1>1, <1>5, PassKeeps DEF Texts
<1> QED
  BY <1>1, <1>4, <1>6

\* Nobody writes "$$", and no value nor default holds a dollar sign.
PlainInputs ==
  /\ PlainDefaults
  /\ \A c \in ContractTexts \ {Garbled, Nothing} : NoEscape(c.env)
  /\ PlainMap(OSEnv)
  /\ \A text \in EnvTexts \ {Garbled, Nothing} : PlainMap(text.vars)

\* The container gets the text of the contract, expanded as documented.
GivenAsDocumented == given # Nothing => given = AsDocumented(contractMemo.loaded.env, subst)

\* Once a deploy has loaded its env files, their values are plain, and what is given
\* is expanded with these values.
GivenInv ==
  /\ InputsInv /\ PlainMap(subst) /\ GivenAsDocumented
  /\ given # Nothing => phase \in {"record", "done"}

\* What a load reads has no dollar signs either.
LEMMA ReadPlain ==
  ASSUME PlainInputs, InputsInv, PlainMap(subst), ReadEnvFile
  PROVE  PlainMap(subst')
<1> DEFINE t == IF read + 1 \in present THEN envDisk[EnvFilesRead[read + 1]] ELSE Nothing
<1>1. t \in (EnvTexts \ {Garbled}) \cup {Nothing} /\ subst' = Override(subst, VarsOf(t)) /\ IsMap(subst')
  BY OneRead
<1> HIDE DEF t
<1>2. ASSUME NEW v \in DOMAIN VarsOf(t) PROVE NoDollar(VarsOf(t)[v])
  <2>1. t \in EnvTexts \ {Garbled, Nothing} /\ VarsOf(t) = t.vars
    BY <1>1, <1>2, NothingSet DEF VarsOf
  <2> QED BY <2>1 DEF PlainInputs, PlainMap
<1>3. \A v \in DOMAIN subst : NoDollar(subst[v])
  BY DEF PlainMap
<1>4. ASSUME NEW v \in DOMAIN subst' PROVE NoDollar(subst'[v])
  BY <1>1, <1>2, <1>3 DEF Override
<1> QED
  BY <1>1, <1>4 DEF PlainMap

\* At first nothing is given.
LEMMA GivenInit == PlainInputs /\ InputsInit => GivenInv
<1> SUFFICES ASSUME PlainInputs, InputsInit PROVE GivenInv
  OBVIOUS
<1>1. PlainMap(<<>>)
  BY DEF PlainMap, IsMap
<1> QED
  BY <1>1, InputsInvInit DEF InputsInit, GivenInv, GivenAsDocumented

\* What is given is given once, expanded as documented.
LEMMA GivenStep ==
  ASSUME PlainInputs, GivenInv, [InputsNext]_inputVars
  PROVE  GivenInv'
<1>0. /\ InputsInv /\ InputsInv' /\ PlainMap(subst) /\ GivenAsDocumented
      /\ given # Nothing => phase \in {"record", "done"}
  BY InputsInvStep DEF GivenInv
<1>1. CASE ResolveArgs \/ HostUnreadable \/ LookForEnvFile \/ Prepare
  <2>1. phase \notin {"record", "done"} /\ UNCHANGED <<subst, given>>
    BY <1>1 DEF ResolveArgs, HostUnreadable, LookForEnvFile, Prepare, Gone, loading, Loading
  <2> QED BY <1>0, <2>1 DEF GivenInv, GivenAsDocumented
<1>2. CASE LoadContract \/ Preflight \/ ReadEnvFile
  <2>1. phase \notin {"record", "done"} /\ UNCHANGED given
    BY <1>2 DEF LoadContract, Preflight, ReadEnvFile, Gone, Loading
  <2>2. PlainMap(subst')
    <3>1. CASE ReadEnvFile
      BY <1>0, <3>1, ReadPlain
    <3>2. CASE LoadContract \/ Preflight
      <4>1. subst' = OSEnv \/ subst' = subst
        BY <3>2 DEF LoadContract, Preflight, BeginLoad, Gone, loading
      <4> QED BY <1>0, <4>1 DEF PlainInputs
    <3> QED BY <1>2, <3>1, <3>2
  <2> QED BY <1>0, <2>1, <2>2 DEF GivenInv, GivenAsDocumented
<1>3. CASE StartContainer
  <2>1. /\ contractMemo \in Objects /\ IsMap(subst) /\ phase' = "record" /\ subst' = subst
        /\ contractMemo' = InPlace(contractMemo, subst, 1)
        /\ given' = ContainerEnv(contractMemo.loaded.env, subst)
    BY <1>0, <1>3 DEF StartContainer, InputsInv, InputsTypeOK, loading
  <2>2. contractMemo'.loaded = contractMemo.loaded
    BY <2>1, InPlaceType
  <2>3. contractMemo.loaded.env \in Texts /\ NoEscape(contractMemo.loaded.env)
    BY <2>1, InputsAssumption DEF Objects, PlainInputs
  <2>4. given' = AsDocumented(contractMemo.loaded.env, subst)
    BY <1>0, <2>1, <2>3, TwiceAsDocumented DEF ContainerEnv, PlainInputs
  <2> QED BY <1>0, <2>1, <2>2, <2>4 DEF GivenInv, GivenAsDocumented
<1>4. CASE RecordServices
  <2>1. /\ contractMemo \in Objects /\ IsMap(subst) /\ phase' = "done" /\ UNCHANGED <<given, subst>>
        /\ contractMemo' = InPlace(contractMemo, subst, 1)
    BY <1>0, <1>4 DEF RecordServices, InputsInv, InputsTypeOK, loading
  <2>2. contractMemo'.loaded = contractMemo.loaded
    BY <2>1, InPlaceType
  <2> QED BY <1>0, <2>1, <2>2 DEF GivenInv, GivenAsDocumented
<1>5. CASE Edit \/ UNCHANGED inputVars
  BY <1>0, <1>5 DEF Edit, inputVars, loading, GivenInv, GivenAsDocumented
<1> QED
  BY <1>1, <1>2, <1>3, <1>4, <1>5 DEF InputsNext

\* Where nobody writes "$$", and neither values nor defaults hold a dollar sign,
\* expanding a value a second time changes nothing: the container gets its
\* environment as the list of forms documents it, whoever edits the files
\* meanwhile (expand.ExpandService and runner.containerEnv both expand).
THEOREM PlainTextsAsDocumented == PlainInputs => (InputsSpec => []GivenAsDocumented)
<1> SUFFICES ASSUME PlainInputs PROVE InputsSpec => []GivenAsDocumented
  OBVIOUS
<1>1. InputsInit => GivenInv
  BY GivenInit
<1>2. GivenInv /\ [InputsNext]_inputVars => GivenInv'
  BY GivenStep
<1>3. GivenInv => GivenAsDocumented
  BY DEF GivenInv
<1> QED
  BY <1>1, <1>2, <1>3, PTL DEF InputsSpec
=============================================================================

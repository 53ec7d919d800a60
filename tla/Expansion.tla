----------------------------- MODULE Expansion ------------------------------
(***************************************************************************)
(* Variable substitution (internal/expand/env.go), on strings cut into     *)
(* tokens: a dollar sign, a name that could follow one, a brace group      *)
(* {VAR}, {VAR:-arg}, ... and any other text.  A value is a sequence of    *)
(* tokens again, and may hold dollar signs of its own.                     *)
(***************************************************************************)
EXTENDS Naturals, Sequences, FiniteSets, SequencesExt

CONSTANT Token                                  \* what texts are made of

Dollar == <<"$">>
Kept == <<"kept">>                              \* the placeholder for "$$"
VarName(v) == <<"name", v>>
Braces(v, op, arg) == <<"braces", v, op, arg>>
Text(t) == <<"text", t>>

IsName(t) == t[1] = "name"
IsBraces(t) == t[1] = "braces"

\* What files and the environment hold; the placeholder is made of bytes they
\* cannot.
Texts == Seq(Token \ {Kept})

\* The code looks for "$$" inside a brace group too; arguments with one in them
\* are left out.
ASSUME TokenAssumption ==
  /\ {Dollar, Kept} \subseteq Token
  /\ \A t \in Token : IsBraces(t) =>
       /\ t[3] \in {"", ":-", "-", ":?", "?", ":+", "+"} /\ t[4] \in Texts
       /\ \A i \in 1 .. Len(t[4]) - 1 : t[4][i] = Dollar => t[4][i + 1] # Dollar

\* One pass over s, left to right: every dollar sign followed by a token of
\* value's domain becomes its value there, which is not looked at again.
Pass(s, value) ==
  LET from[i \in 1 .. Len(s) + 1] ==
        CASE i > Len(s) -> <<>>
          [] i < Len(s) /\ s[i] = Dollar /\ s[i + 1] \in DOMAIN value
               -> value[s[i + 1]] \o from[i + 2]
          [] OTHER -> <<s[i]>> \o from[i + 1]
  IN  from[1]

-----------------------------------------------------------------------------
IsSet(v, m) == v \in DOMAIN m
IsEmpty(v, m) == ~ IsSet(v, m) \/ m[v] = <<>>

\* What a brace group stands for.
Braced(t, m) ==
  LET v     == t[2]
      arg   == t[4]
      value == IF IsSet(v, m) THEN m[v] ELSE <<>>
  IN  CASE t[3] = ""   -> IF IsSet(v, m) THEN value ELSE <<Dollar, t>>
        [] t[3] = ":-" -> IF IsEmpty(v, m) THEN arg ELSE value
        [] t[3] = "-"  -> IF IsSet(v, m) THEN value ELSE arg
        [] t[3] \in {":?", "?"} -> value
        [] t[3] = ":+" -> IF IsEmpty(v, m) THEN <<>> ELSE arg
        [] t[3] = "+"  -> IF IsSet(v, m) THEN arg ELSE <<>>

Groups(s, m) == [t \in {u \in Range(s) : IsBraces(u)} |-> Braced(t, m)]
BareNames(s, m) == [t \in {u \in Range(s) : IsName(u) /\ IsSet(u[2], m)} |-> m[t[2]]]

\* Brace groups first, then bare names over the result: a braced value, or a
\* default, that holds $NAME is expanded again.
Substitute(s, m) ==
  LET escaped  == Pass(s, [t \in {Dollar} |-> <<Kept>>])
      braced   == Pass(escaped, Groups(escaped, m))
      expanded == Pass(braced, BareNames(braced, m))
  IN  [i \in DOMAIN expanded |-> IF expanded[i] = Kept THEN Dollar ELSE expanded[i]]

\* What the comment above the expressions says: "$$" is a dollar sign, and a
\* variable stands for its value.  A value is a value, not a text to expand.
Meaning(s, m) ==
  [t \in {u \in Range(s) : u = Dollar \/ IsBraces(u) \/ (IsName(u) /\ IsSet(u[2], m))} |->
     CASE t = Dollar -> <<Dollar>> [] IsBraces(t) -> Braced(t, m) [] IsName(t) -> m[t[2]]]

AsDocumented(s, m) == Pass(s, Meaning(s, m))
=============================================================================

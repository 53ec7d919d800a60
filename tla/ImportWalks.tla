----------------------------- MODULE ImportWalks -----------------------------
(***************************************************************************)
(* Which imports are refused while files are read, said without a stack:   *)
(* by the walks through the include graph and what the services of the     *)
(* files there extend.                                                     *)
(***************************************************************************)
EXTENDS ComposeImport

\* The local includes of a file that stay under its directory.
Follows(f, g) ==
  \E e \in Range(project.files[f].include) :
    e.kind = "path" /\ e.file = g /\ ~ Escapes(g, f)

Readable(f) == Opened(f) = "ok"

\* The ways down the include graph from the primary file, up to one file more
\* than may be on a chain; only the last file may be unreadable.
Walks ==
  {w \in UNION {[1 .. n -> ComposeFile] : n \in 1 .. MaxIncludeDepth + 1} :
     /\ w[1] = Primary
     /\ \A i \in 1 .. Len(w) - 1 : Readable(w[i]) /\ Follows(w[i], w[i + 1])}

Simple(w) == \A i, j \in DOMAIN w : w[i] = w[j] => i = j

\* What a readable file includes.
NamedBy(f) == IF Readable(f) THEN Range(project.files[f].include) ELSE {}

\* Why an import may be refused on account of its includes.
IncludeReason(code) ==
  \E w \in Walks :
    CASE code \in {"import_compose_file_not_found", "import_compose_parse"} -> Opened(Last(w)) = code
      [] code = "import_include_cycle" -> ~ Simple(w)
      [] code = "import_include_depth" -> Simple(w) /\ Len(w) = MaxIncludeDepth + 1
      [] code = "import_include_unsupported" -> \E e \in NamedBy(Last(w)) : e.kind = "url"
      [] code = "import_include_path_escape" ->
           \E e \in NamedBy(Last(w)) : e.kind = "path" /\ Escapes(e.file, Last(w))

\* The services the files define themselves, and the ways from one of f's along
\* what they extend.
Own(f) == project.files[f].services
Defined == {key \in Key : Readable(key[1]) /\ key[2] \in DOMAIN Own(key[1])}
Extends(key) == Own(key[1])[key[2]].extends
Extended(key) == <<IF Extends(key).file = None THEN key[1] ELSE Extends(key).file, Extends(key).service>>

Lineages(f) ==
  {c \in UNION {[1 .. n -> Defined] : n \in 1 .. MaxIncludeDepth} :
     /\ c[1][1] = f
     /\ \A i \in 1 .. Len(c) - 1 : Extends(c[i]) # NoExtends /\ c[i + 1] = Extended(c[i])}

\* A service that one of f's descends from names a file outside the directory of
\* f, or one that does not parse.
LeadsAstray(f, code) ==
  \E c \in Lineages(f) :
    LET e == Extends(Last(c))
    IN  /\ e.file \notin {None, Elsewhere} /\ e.service # None
        /\ CASE code = "import_include_path_escape" -> Escapes(e.file, f)
             [] code = "import_compose_parse" -> ~ Escapes(e.file, f) /\ Opened(e.file) = code
             [] OTHER -> FALSE

\* Why it may be refused on account of what its services extend, with the codes
\* that includes have.
ExtendsReason(code) == \E w \in Walks : Readable(Last(w)) /\ LeadsAstray(Last(w), code)

Reason(code) == IncludeReason(code) \/ ExtendsReason(code)

ReadingCodes ==
  {"import_compose_file_not_found", "import_compose_parse", "import_include_cycle",
   "import_include_depth", "import_include_unsupported", "import_include_path_escape"}

\* An import is refused with one of these codes for a reason that the includes or
\* the services of the files give, and one that gets as far as the translation had
\* none: the places that check for cycles, depth, paths and files that do not
\* parse miss nothing and make nothing up (include.go:138-168, extends.go:281-308).
ImportVerdictIsRight ==
  /\ outcome \in ReadingCodes => Reason(outcome)
  /\ stage = "translate" => \A code \in ReadingCodes : ~ Reason(code)
=============================================================================

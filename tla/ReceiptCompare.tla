--------------------------- MODULE ReceiptCompare ---------------------------
(***************************************************************************)
(* Deploy receipts as values: which of them may be written and read back   *)
(* (internal/receipt/receipt.go, Validate) and how two of them compare     *)
(* (compare.go, "podbay diff a.json b.json", and handoff.go).              *)
(*                                                                         *)
(* A receipt is a record                                                   *)
(*   version, time, path, project, digest, id, status : as in the JSON     *)
(*   profiles : the profiles deployed, a sequence                          *)
(*   services : its service records, a sequence                            *)
(*   failure  : NoFailure, or what the failed health gate said             *)
(* A field the JSON omits is Unset.  An env or mounts list is Unset when   *)
(* the receipt does not record one: an empty list is not the same.         *)
(***************************************************************************)
EXTENDS Naturals, Sequences, Bags, SequencesExt

CONSTANTS
  Unset,      \* an omitted field
  Digest      \* contract digests with the prefix "sha256:"

\* A service record and a list of them, in a receipt that has been decoded.
IsRecord(x) ==
  x = [service |-> x.service, name |-> x.name, image |-> x.image, container |-> x.container,
       env |-> x.env, mounts |-> x.mounts]
IsReceipt(r) ==
  /\ r # Unset /\ r.time \in Nat
  /\ r.services \in Seq(Range(r.services))
  /\ \A x \in Range(r.services) : IsRecord(x)

CurrentFormatVersion == 1

NoFailure == [service |-> Unset, class |-> Unset, probe |-> Unset]

ValidFailure(f) ==
  f.class \in {Unset, "timeout", "probe_error"} /\ f.probe \in {Unset, "http", "exec"}

\* What Encode asks of a receipt before it is written, and Decode of one read.
Valid(r) ==
  /\ r.version = CurrentFormatVersion
  /\ r.time # 0
  /\ r.path # Unset /\ r.project # Unset
  /\ \A i \in DOMAIN r.services :
       r.services[i].service # Unset /\ r.services[i].name # Unset
  /\ r.status \in {Unset, "ok", "failed"}
  /\ ValidFailure(r.failure)
  /\ r.digest \in Digest \cup {Unset}

\* A status filter; "ok" lets receipts without a status pass, which predate it.
MatchStatus(status, filter) ==
  \/ filter = Unset
  \/ status = filter
  \/ filter = "ok" /\ status = Unset

-----------------------------------------------------------------------------
\* Lists whose order does not matter: sorted copies are compared.
SameItems(s, t) == ToBag(s) = ToBag(t)

Names(r) == {r.services[i].service : i \in DOMAIN r.services}

\* The last record of a service is the one that counts.
LastRecord(r, s) ==
  LET at == {i \in DOMAIN r.services : r.services[i].service = s}
  IN  r.services[CHOOSE i \in at : \A j \in at : j <= i]

Code(condition, code) == IF condition THEN {code} ELSE {}

\* env and mounts: only compared when both receipts record them.
ListCodes(x, y, incomparable, changed) ==
  IF (x = Unset) # (y = Unset) THEN {incomparable}
  ELSE Code(x # Unset /\ ~ SameItems(x, y), changed)

\* Mutant: which container it is does not count.
RecordCodesNoId(x, y) ==
  Code(x.image # y.image, "image_changed")
    \cup Code(x.name # y.name, "container_name_changed")
    \cup ListCodes(x.env, y.env, "env_incomparable", "env_changed")
    \cup ListCodes(x.mounts, y.mounts, "mounts_incomparable", "mounts_changed")

RecordCodes(x, y) ==
  Code(x.image # y.image, "image_changed")
    \cup Code(x.name # y.name, "container_name_changed")
    \cup Code(x.container # y.container, "container_id_changed")
    \cup ListCodes(x.env, y.env, "env_incomparable", "env_changed")
    \cup ListCodes(x.mounts, y.mounts, "mounts_incomparable", "mounts_changed")

ServiceCodes(a, b, s) ==
  IF s \notin Names(a) THEN {"service_added"}
  ELSE IF s \notin Names(b) THEN {"service_removed"}
  ELSE RecordCodes(LastRecord(a, s), LastRecord(b, s))

DigestCodes(a, b) ==
  IF (a.digest = Unset) # (b.digest = Unset) THEN {"digest_incomparable"}
  ELSE Code(a.digest # b.digest, "digest_mismatch")

\* The delta codes of CompareReceipts(a, b), as handoff lists them.
DiffCodes(a, b) ==
  Code(a.project # b.project, "project_mismatch")
    \cup Code(a.path # b.path, "contract_path_mismatch")
    \cup DigestCodes(a, b)
    \cup Code(~ SameItems(a.profiles, b.profiles), "profiles_mismatch")
    \cup UNION {ServiceCodes(a, b, s) : s \in Names(a) \cup Names(b)}

\* Something only one receipt recorded is a warning.
WarnOnly == {"digest_incomparable", "env_incomparable", "mounts_incomparable"}

Drift(a, b) == DiffCodes(a, b) \ WarnOnly # {}
=============================================================================

---------------------------- MODULE AtomicStore -----------------------------
(***************************************************************************)
(* What internal/receipt promises of a store of receipts: a receipt is     *)
(* there as a whole or not at all, and what a power loss takes away is the *)
(* last changes, never part of a receipt.                                  *)
(***************************************************************************)
CONSTANTS Path, Receipt, Absent

VARIABLES
  visible,    \* Path -> the receipt a reader finds there, or Absent
  stable      \* what a reader would find after a power loss

Place == [Path -> Receipt \cup {Absent}]

StoreInit == visible \in Place /\ stable = visible

\* A whole receipt replaces whatever was there.
Put ==
  /\ \E p \in Path, r \in Receipt : visible' = [visible EXCEPT ![p] = r]
  /\ stable' \in {stable, visible'}

Take ==
  /\ \E p \in Path : visible' = [visible EXCEPT ![p] = Absent]
  /\ UNCHANGED stable

Settle == stable' = visible /\ UNCHANGED visible

PowerLoss == visible' = stable /\ UNCHANGED stable

StoreSpec ==
  StoreInit /\ [][Put \/ Take \/ Settle \/ PowerLoss]_<<visible, stable>>
=============================================================================

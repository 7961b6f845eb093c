--------------------------- MODULE MCSnapshotNode ---------------------------
(***************************************************************************)
(* Instances of SnapshotNode for TLC: entries of two terms.                *)
(***************************************************************************)
EXTENDS SnapshotNode

TwoTerms == [i \in 1..MaxIndex |-> IF i <= 2 THEN 1 ELSE 2]
=============================================================================

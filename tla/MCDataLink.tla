----------------------------- MODULE MCDataLink -----------------------------
(* Instances of DataLink for TLC: sets of model values and the bounds. *)
EXTENDS DataLink, TLC

\* CC and CISS allow seven transactions, MM and LCE one; two are enough for the
\* allocation of transaction values to matter.
TvOneCall == [p \in Protocol \cup {"LCE"} |-> 1]
TvTwoCalls == [p \in Protocol \cup {"LCE"} |-> IF p = "CC" THEN 2 ELSE 1]

LinkSymmetry == Permutations(Link)
=============================================================================

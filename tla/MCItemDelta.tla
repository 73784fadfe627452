----------------------------- MODULE MCItemDelta -----------------------------
(* Small instances of ItemDelta. *)
EXTENDS ItemDelta, TLC

CONSTANTS i1, i2

Least(S) == CHOOSE x \in S : \A y \in S : x <= y

Legacy(s, i, n) ==
    [seq |-> s, item |-> i, rev |-> n, live |-> TRUE, size |-> Least(Sizes), group |-> None]

(* A workspace with rows older than change groups, and an empty one. *)
OldRows(i, j) == {Legacy(1, i, 1), Legacy(2, j, 1)}
Old == {OldRows(i1, i2)}
OldAndNew == {OldRows(i1, i2), OldRows(i2, i1), {}}

DeltaSymmetry == Permutations(Writers) \cup Permutations(Items)

==============================================================================

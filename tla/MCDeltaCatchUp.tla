--------------------------- MODULE MCDeltaCatchUp ---------------------------
(***************************************************************************)
(* The instance of ItemDelta for liveness, and the algorithm that cuts the *)
(* pages on its own.                                                       *)
(***************************************************************************)
EXTENDS MCItemDelta

(* The loop that cuts a page (delivery_bounded_delta_prefix_len) against   *)
(* its definition, on every sequence of rows that the fetch may return for *)
(* a limit, of unequal sizes and in groups of every shape, whether or not  *)
(* a workspace of this instance holds it.                                  *)
ASSUME CutPagesAreLargest ==
    \A limit \in 1 .. 3 : \A n \in 0 .. limit + GroupCap :
        \A groups \in [1 .. n -> {None} \cup 1 .. 3], sizes \in [1 .. n -> 1 .. 2] :
            GroupsFit(groups, sizes) =>
                BoundedPrefix(groups, sizes, limit) = LargestPage(groups, sizes, limit)

=============================================================================

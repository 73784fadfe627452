------------------------------ MODULE DeltaPage ------------------------------
(***************************************************************************)
(* How a page of the item delta is cut (items/repository.rs).  A page is a *)
(* prefix of the rows that were fetched; it holds about as many rows as    *)
(* were asked for, it never holds a part of a change group, and its        *)
(* payload is bounded.  Rows are given by two sequences, the group of each *)
(* row (None for rows older than groups) and the size of each.             *)
(***************************************************************************)
EXTENDS Integers, Sequences, FiniteSets, FiniteSetsExt

CONSTANTS
    None,
    GroupCap,    \* MAX_ITEM_CHANGE_GROUP_SIZE
    PageBytes    \* MAX_ITEM_DELTA_PAGE_PAYLOAD_BYTES

ASSUME PageAssumption ==
    /\ GroupCap \in Nat \ {0}
    /\ PageBytes \in Nat

TooLarge == -1

MaxExpanded(limit) == limit + GroupCap - 1

Bytes(sizes, from, to) == MapThenSumSet(LAMBDA k : sizes[k], from .. to)

(* One past the rows from index k on that have group g. *)
RunEnd(groups, g, k) ==
    Min({n \in k .. Len(groups) : groups[n] # g} \cup {Len(groups) + 1})

(* Mutant: the page ends where the request says, inside a group or not. *)
AtomicPrefixAsRequested(groups, limit) ==
    Min({Len(groups), limit})

(* The requested number of rows, and then the rest of a group cut there.   *)
AtomicPrefix(groups, limit) ==
    IF Len(groups) <= limit THEN Len(groups)
    ELSE IF groups[limit] = None THEN limit
    ELSE LET start == Max({n \in 1 .. limit : groups[n] # groups[limit]} \cup {0})
             end == RunEnd(groups, groups[limit], limit + 1) - 1
         IN  IF end - start > GroupCap \/ end > MaxExpanded(limit)
             THEN TooLarge ELSE end

(* validate_atomic_delta_groups *)
GroupsFit(groups, sizes) ==
    \A g \in {groups[n] : n \in DOMAIN groups} \ {None} :
        LET at == {n \in DOMAIN groups : groups[n] = g}
        IN  /\ at = Min(at) .. Max(at)
            /\ Cardinality(at) <= GroupCap
            /\ Bytes(sizes, Min(at), Max(at)) <= PageBytes

(* Mutant: the payload bound is forgotten once the groups have been checked. *)
BoundedPrefixByCount(groups, sizes, limit) ==
    LET prefix == AtomicPrefix(groups, limit)
    IN  IF prefix = TooLarge \/ ~ GroupsFit(SubSeq(groups, 1, prefix), sizes)
        THEN TooLarge ELSE prefix

(* The end of the unit that starts after row n: a unit is a group, or a    *)
(* row that has none.                                                      *)
UnitEnd(groups, n) ==
    IF groups[n + 1] = None THEN n + 1
    ELSE RunEnd(groups, groups[n + 1], n + 2) - 1

(* The loop over the units: how many rows are taken, when n are. *)
Selected(groups, sizes) ==
    LET select[n \in 0 .. Len(groups)] ==
            IF n = Len(groups) THEN n
            ELSE IF Bytes(sizes, n + 1, UnitEnd(groups, n)) > PageBytes THEN TooLarge
            ELSE IF Bytes(sizes, 1, UnitEnd(groups, n)) > PageBytes THEN n
            ELSE select[UnitEnd(groups, n)]
    IN  select[0]

(* A page of at most about `limit` rows that is not empty when there are any. *)
BoundedPrefix(groups, sizes, limit) ==
    LET prefix == AtomicPrefix(groups, limit)
        cut == SubSeq(groups, 1, prefix)
        taken == Selected(cut, sizes)
    IN  IF prefix = TooLarge \/ ~ GroupsFit(cut, SubSeq(sizes, 1, prefix))
        THEN TooLarge
        ELSE IF prefix > 0 /\ taken = 0 THEN TooLarge ELSE taken

(***************************************************************************)
(* What a page has to be, without the loop: a page may end where no group  *)
(* is cut and the payload fits, and it ends at the last such place that    *)
(* the number of rows asked for justifies.                                 *)
(***************************************************************************)
PageEnds(groups, sizes) ==
    {n \in 0 .. Len(groups) :
        /\ Bytes(sizes, 1, n) <= PageBytes
        /\ n \in 1 .. Len(groups) - 1 =>
               groups[n] = None \/ groups[n] # groups[n + 1]}

LargestPage(groups, sizes, limit) ==
    LET enough == {n \in PageEnds(groups, sizes) : n >= limit}
    IN  IF enough = {} THEN Max(PageEnds(groups, sizes)) ELSE Min(enough)

(* The rows of a bootstrap page: as many as fit, of at most rowCap. *)
BootstrapPrefix(sizes, rowCap) ==
    LET last == Min({Len(sizes), rowCap})
        fit == Max({0} \cup {n \in 1 .. last : Bytes(sizes, 1, n) <= PageBytes})
    IN  IF fit < last /\ sizes[fit + 1] > PageBytes THEN TooLarge ELSE fit

==============================================================================

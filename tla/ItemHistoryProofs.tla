-------------------------- MODULE ItemHistoryProofs --------------------------
(***************************************************************************)
(* Histories of item changes and what is read from them: the lemmas that   *)
(* ItemDeltaProofs rests on.  A history is a set of rows; a cursor is at a *)
(* place in it that divides no group; a page is a stretch of the history   *)
(* after a place, and takes a client that has the state at that place to   *)
(* the state at its own end; a snapshot holds the last row of every live   *)
(* item at its head, and copying it gives the state there.                 *)
(***************************************************************************)
EXTENDS ItemDelta, FiniteSetTheorems, TLAPS

(* Zenon does the leaves; SMT is named where one needs arithmetic. *)
USE Zenon

------------------------------------------------------------------------------
(* Rows and their order. *)

(* A set of numbers that is not empty has a least one. *)
LEMMA LeastNumber ==
    ASSUME NEW S \in SUBSET Nat, S # {}
    PROVE  Min(S) \in S /\ \A y \in S : Min(S) <= y
<1> DEFINE Less == OpToRel(<, Nat)
<1>1. \E x \in S : \A y \in S : ~ (<<y, x>> \in Less)
  <2> HIDE DEF Less
  <2>1. IsWellFoundedOn(Less, Nat)
    BY NatLessThanWellFounded DEF Less
  <2> QED
    BY <2>1, WFMin
<1>2. \A x, y \in Nat : ~ (<<y, x>> \in Less) => x <= y
  BY SMT DEF OpToRel
<1>3. \E x \in S : \A y \in S : x <= y
  BY <1>1, <1>2
<1> QED
  BY <1>3 DEF Min

(* A bounded set of numbers that is not empty has a greatest one. *)
LEMMA GreatestNumber ==
    ASSUME NEW S \in SUBSET Nat, S # {}, NEW b \in Nat, \A y \in S : y <= b
    PROVE  Max(S) \in S /\ \A y \in S : y <= Max(S)
<1> DEFINE T == {b - y : y \in S}
<1>1. T \in SUBSET Nat /\ T # {}
  <2>1. \A y \in S : b - y \in Nat
    BY SMT
  <2>2. T \subseteq Nat
    BY <2>1
  <2>3. PICK y \in S : TRUE
    OBVIOUS
  <2>4. b - y \in T
    OBVIOUS
  <2> QED
    BY <2>2, <2>4
<1>2. Min(T) \in T /\ \A z \in T : Min(T) <= z
  <2> HIDE DEF T
  <2> QED
    BY <1>1, LeastNumber
<1>3. PICK x \in S : Min(T) = b - x
  BY <1>2
<1>4. \A y \in S : x >= y
  <2>1. \A y \in S : Min(T) <= b - y
    BY <1>2
  <2> HIDE DEF T
  <2> QED
    BY SMT, <1>3, <2>1
<1>5. \E u \in S : \A y \in S : u >= y
  BY <1>4
<1> QED
  BY <1>5 DEF Max


(* Rows that their numbers tell apart, below a bound (the key of           *)
(* item_changes).                                                          *)
Keyed(R) ==
    /\ \A q, r \in R : q.seq = r.seq => q = r
    /\ \E n \in Nat : \A r \in R : r.seq \in Nat /\ r.seq <= n

Rank(R, r) == Cardinality({q \in R : q.seq <= r.seq})

(* Rows that have a key are finitely many. *)
LEMMA FiniteRows == ASSUME NEW R, Keyed(R) PROVE IsFiniteSet(R)
<1>1. PICK n \in Nat : \A r \in R : r.seq \in Nat /\ r.seq <= n
  BY DEF Keyed
<1> DEFINE f == [r \in R |-> r.seq]
<1>2. f \in Injection(R, 0 .. n)
  BY SMT, <1>1 DEF Keyed, Injection, IsInjective
<1>3. IsFiniteSet(0 .. n)
  BY SMT, FS_Interval
<1> HIDE DEF f
<1> QED
  BY <1>2, <1>3, FS_Injection

(* A row's rank is its place among the rows, and every place is taken. *)
LEMMA RankIs ==
    ASSUME NEW R, Keyed(R)
    PROVE  /\ Cardinality(R) \in Nat
           /\ \A r \in R : Rank(R, r) \in 1 .. Cardinality(R)
           /\ \A q, r \in R : q.seq < r.seq => Rank(R, q) < Rank(R, r)
           /\ \A n \in 1 .. Cardinality(R) : \E r \in R : Rank(R, r) = n
<1> DEFINE Below(r) == {q \in R : q.seq <= r.seq}
<1>n. \A r \in R : r.seq \in Nat
  BY DEF Keyed
<1>1. IsFiniteSet(R)
  BY FiniteRows
<1>2. Cardinality(R) \in Nat
  BY <1>1, FS_CardinalityType
<1>3. ASSUME NEW r \in R PROVE Rank(R, r) \in 1 .. Cardinality(R) /\ IsFiniteSet(Below(r))
  <2>1. Below(r) \in SUBSET R /\ r \in Below(r)
    BY SMT, <1>n
  <2>2. IsFiniteSet(Below(r)) /\ Cardinality(Below(r)) <= Cardinality(R)
    BY <1>1, <2>1, FS_Subset
  <2>3. Cardinality(Below(r)) \in Nat /\ Cardinality(Below(r)) # 0
    BY <2>1, <2>2, FS_CardinalityType, FS_EmptySet
  <2> QED
    BY SMT, <1>2, <2>2, <2>3 DEF Rank
<1>4. ASSUME NEW q \in R, NEW r \in R, q.seq < r.seq PROVE Rank(R, q) < Rank(R, r)
  <2>1. Below(q) \in SUBSET Below(r) /\ r \in Below(r) /\ r \notin Below(q)
    BY SMT, <1>n, <1>4
  <2>2. IsFiniteSet(Below(r))
    BY <1>3
  <2> HIDE DEF Below
  <2>3. /\ Cardinality(Below(q)) <= Cardinality(Below(r))
        /\ Cardinality(Below(r)) # Cardinality(Below(q))
    BY <2>1, <2>2, FS_Subset
  <2>4. Rank(R, q) = Cardinality(Below(q)) /\ Rank(R, r) = Cardinality(Below(r))
    BY DEF Rank, Below
  <2> QED
    BY SMT, <1>2, <1>3, <2>3, <2>4
<1> DEFINE f == [r \in R |-> Rank(R, r)]
<1>5. f \in Injection(R, 1 .. Cardinality(R))
  <2>1. f \in [R -> 1 .. Cardinality(R)]
    BY <1>3
  <2>2. ASSUME NEW q \in R, NEW r \in R, Rank(R, q) = Rank(R, r) PROVE q = r
    <3>0. Rank(R, q) \in 1 .. Cardinality(R) /\ Rank(R, r) \in 1 .. Cardinality(R)
      BY <1>3
    <3>1. ~ (q.seq < r.seq) /\ ~ (r.seq < q.seq)
      <4>1. q.seq < r.seq => Rank(R, q) < Rank(R, r)
        BY <1>4
      <4>2. r.seq < q.seq => Rank(R, r) < Rank(R, q)
        BY <1>4
      <4> QED
        BY SMT, <1>2, <2>2, <3>0, <4>1, <4>2
    <3> QED
      BY SMT, <1>n, <3>1 DEF Keyed
  <2> QED
    BY <2>1, <2>2 DEF Injection, IsInjective
<1>6. f \in Surjection(R, 1 .. Cardinality(R))
  <2> HIDE DEF f
  <2>1. IsFiniteSet(1 .. Cardinality(R)) /\ Cardinality(1 .. Cardinality(R)) = Cardinality(R)
    BY SMT, <1>2, FS_Interval
  <2> QED
    BY <1>5, <2>1, FS_Injection
<1>7. \A n \in 1 .. Cardinality(R) : \E r \in R : Rank(R, r) = n
  BY <1>6 DEF Surjection
<1> QED
  BY <1>2, <1>3, <1>4, <1>7

(* InOrder lists the rows, each once, by their numbers (the ORDER BY of     *)
(* delta and of read_page).                                                 *)
LEMMA InOrderIs ==
    ASSUME NEW R, Keyed(R)
    PROVE  /\ InOrder(R) \in Seq(R)
           /\ Len(InOrder(R)) = Cardinality(R)
           /\ \A n \in 1 .. Len(InOrder(R)) : InOrder(R)[n] \in R
           /\ \A m, n \in 1 .. Len(InOrder(R)) : m < n => InOrder(R)[m].seq < InOrder(R)[n].seq
           /\ \A r \in R : \E n \in 1 .. Len(InOrder(R)) : InOrder(R)[n] = r
<1> DEFINE k == Cardinality(R)
           At(n) == CHOOSE r \in R : Rank(R, r) = n
<1>1. /\ k \in Nat
      /\ \A r \in R : Rank(R, r) \in 1 .. k
      /\ \A q, r \in R : q.seq < r.seq => Rank(R, q) < Rank(R, r)
      /\ \A n \in 1 .. k : \E r \in R : Rank(R, r) = n
  BY RankIs
<1>2. InOrder(R) = [n \in 1 .. k |-> At(n)]
  BY DEF InOrder, Rank
<1>3. \A n \in 1 .. k : At(n) \in R /\ Rank(R, At(n)) = n
  BY <1>1
<1>n. \A q, r \in R : q.seq \in Nat /\ (q.seq = r.seq => q = r)
  BY DEF Keyed
<1> HIDE DEF k, At
<1>4. InOrder(R) \in [1 .. k -> R]
  BY <1>2, <1>3
<1>5. InOrder(R) \in Seq(R)
  BY SMT, <1>1, <1>4
<1>6. Len(InOrder(R)) = k
  BY SMT, <1>1, <1>4, <1>5
<1>7. ASSUME NEW m \in 1 .. k, NEW n \in 1 .. k, m < n PROVE At(m).seq < At(n).seq
  <2>1. At(m) # At(n) /\ ~ (At(n).seq < At(m).seq)
    BY SMT, <1>1, <1>3, <1>7
  <2> QED
    BY SMT, <1>3, <1>n, <2>1
<1>8. ASSUME NEW r \in R PROVE \E n \in 1 .. k : At(n) = r
  <2>1. Rank(R, r) \in 1 .. k /\ At(Rank(R, r)) \in R /\ Rank(R, At(Rank(R, r))) = Rank(R, r)
    BY <1>1, <1>3
  <2>2. ~ (At(Rank(R, r)).seq < r.seq) /\ ~ (r.seq < At(Rank(R, r)).seq)
    BY SMT, <1>1, <2>1
  <2>3. At(Rank(R, r)) = r
    BY SMT, <1>n, <2>1, <2>2
  <2> QED
    BY <2>1, <2>3
<1>9. \A n \in 1 .. k : InOrder(R)[n] = At(n)
  BY <1>2
<1> QED
  BY SMT, <1>3, <1>5, <1>6, <1>7, <1>8, <1>9 DEF k

------------------------------------------------------------------------------
(* Histories, and the places in them that a cursor may have. *)

(* A history as the table keeps it: numbers are a key, the revisions of an *)
(* item grow with them, and so do the groups, after the rows that have     *)
(* none.                                                                   *)
Sound(H) ==
    /\ Keyed(H)
    /\ \A r \in H : r.seq # 0 /\ r.rev \in Nat /\ (r.group # None => r.group \in Nat)
    /\ \E b \in Nat : \A r \in H : r.rev <= b
    /\ \A q, r \in H : q.item = r.item /\ q.seq < r.seq => q.rev < r.rev
    /\ \A q, r \in H :
           q.seq < r.seq /\ q.group # None => r.group # None /\ q.group <= r.group

(* What a commit makes of a history. *)
Extends(H, K) ==
    /\ H \subseteq K
    /\ \A q \in H, r \in K \ H : q.seq < r.seq /\ q.group # r.group

UpTo(H, s) == {r \in H : r.seq <= s}

(* A place in a history that a cursor may have: at a row or before all of  *)
(* them, and not inside a group.                                           *)
Whole(H, s) ==
    /\ s \in Nat
    /\ s = 0 \/ \E r \in H : r.seq = s
    /\ \A q, r \in H : q.seq <= s /\ s < r.seq => q.group = None \/ q.group # r.group

(* What comes before a place stays as it is. *)
LEMMA PlacesStay ==
    ASSUME NEW H, NEW K, Sound(H), Sound(K), Extends(H, K), NEW s, Whole(H, s)
    PROVE  Whole(K, s) /\ UpTo(K, s) = UpTo(H, s)
<1>1. ASSUME NEW r \in K \ H PROVE r.seq \in Nat /\ s < r.seq
  <2>1. r.seq \in Nat /\ r.seq # 0
    BY DEF Sound, Keyed
  <2>2. CASE s = 0
    BY SMT, <2>1, <2>2
  <2>3. CASE \E q \in H : q.seq = s
    BY <2>1, <2>3 DEF Extends
  <2> QED
    BY <2>2, <2>3 DEF Whole
<1>2. UpTo(K, s) = UpTo(H, s)
  BY SMT, <1>1 DEF UpTo, Extends, Whole
<1>3. ASSUME NEW q \in K, NEW r \in K, q.seq <= s, s < r.seq
      PROVE  q.group = None \/ q.group # r.group
  <2>1. q \in H
    BY SMT, <1>1, <1>3 DEF Whole
  <2>2. CASE r \in H
    BY <1>3, <2>1, <2>2 DEF Whole
  <2>3. CASE r \notin H
    BY <2>1, <2>3 DEF Extends
  <2> QED
    BY <2>2, <2>3
<1> QED
  BY <1>2, <1>3 DEF Whole, Extends

(* The head of a history is a place, and nothing comes after it            *)
(* (delta_head).                                                           *)
LEMMA HeadIs ==
    ASSUME NEW H, Sound(H)
    PROVE  Whole(H, HeadOf(H)) /\ UpTo(H, HeadOf(H)) = H
<1>1. PICK n \in Nat : \A r \in H : r.seq \in Nat /\ r.seq <= n
  BY DEF Sound, Keyed
<1> DEFINE S == {r.seq : r \in H} \cup {0}
<1>2. S \in SUBSET Nat /\ S # {} /\ \A y \in S : y <= n
  BY SMT, <1>1
<1>3. Max(S) \in S /\ \A y \in S : y <= Max(S)
  <2> HIDE DEF S
  <2> QED
    BY <1>2, GreatestNumber
<1>4. HeadOf(H) = Max(S)
  BY DEF HeadOf
<1>5. HeadOf(H) \in Nat /\ \A r \in H : r.seq <= HeadOf(H)
  BY <1>2, <1>3, <1>4
<1>6. HeadOf(H) = 0 \/ \E r \in H : r.seq = HeadOf(H)
  BY <1>3, <1>4
<1> QED
  BY SMT, <1>1, <1>5, <1>6 DEF Whole, UpTo

(* The state of an item is that of its last row (items holds the current   *)
(* revision, which record_mutation wrote last).                            *)
LEMMA LastRowIsState ==
    ASSUME NEW H, Sound(H), NEW r \in H, \A q \in H : q.item = r.item => q.seq <= r.seq
    PROVE  /\ Revision(H, r.item) = r.rev
           /\ Current(H, r.item) = r
           /\ LiveIn(H, r.item) <=> r.live
<1> DEFINE S == {q.rev : q \in OfItem(H, r.item)} \cup {0}
<1>1. PICK b \in Nat : \A q \in H : q.rev <= b
  BY DEF Sound
<1>2. S \in SUBSET Nat /\ S # {} /\ \A y \in S : y <= b
  BY SMT, <1>1 DEF OfItem, Sound
<1>3. Max(S) \in S /\ \A y \in S : y <= Max(S)
  <2> HIDE DEF S
  <2> QED
    BY <1>2, GreatestNumber
<1>4. r \in OfItem(H, r.item)
  BY DEF OfItem
<1>5. ASSUME NEW q \in OfItem(H, r.item) PROVE q.rev <= r.rev /\ (q.rev = r.rev => q = r)
  <2>1. q \in H /\ q.item = r.item
    BY <1>5 DEF OfItem
  <2>2. q.seq \in Nat /\ r.seq \in Nat /\ q.rev \in Nat /\ r.rev \in Nat
    BY <2>1 DEF Sound, Keyed
  <2>3. CASE q.seq = r.seq
    BY SMT, <2>1, <2>2, <2>3 DEF Sound, Keyed
  <2>4. CASE q.seq < r.seq
    <3>1. q.rev < r.rev
      BY <2>1, <2>4 DEF Sound
    <3> QED
      BY SMT, <2>2, <3>1
  <2>5. q.seq <= r.seq
    BY <2>1
  <2> QED
    BY SMT, <2>2, <2>3, <2>4, <2>5
<1>6. Revision(H, r.item) = Max(S)
  BY DEF Revision
<1>7. r.rev \in S /\ r.rev \in Nat
  BY <1>4 DEF Sound
<1>8. \A y \in S : y <= r.rev
  BY SMT, <1>5, <1>7
<1>9. Max(S) = r.rev
  <2> HIDE DEF S
  <2>1. Max(S) \in Nat /\ Max(S) <= r.rev /\ r.rev <= Max(S)
    BY <1>2, <1>3, <1>7, <1>8
  <2> QED
    BY SMT, <1>7, <2>1
<1>10. Current(H, r.item) = r
  BY <1>4, <1>5, <1>6, <1>9 DEF Current
<1> QED
  BY <1>4, <1>6, <1>9, <1>10 DEF LiveIn

(* Every item with rows has a last one. *)
LEMMA LastRow ==
    ASSUME NEW H, Sound(H), NEW i, OfItem(H, i) # {}
    PROVE  /\ Current(H, i) \in H /\ Current(H, i).item = i
           /\ \A q \in H : q.item = i => q.seq <= Current(H, i).seq
<1> DEFINE S == {q.seq : q \in OfItem(H, i)}
<1>1. PICK n \in Nat : \A q \in H : q.seq \in Nat /\ q.seq <= n
  BY DEF Sound, Keyed
<1>2. S \in SUBSET Nat /\ S # {} /\ \A y \in S : y <= n
  BY <1>1 DEF OfItem
<1>3. Max(S) \in S /\ \A y \in S : y <= Max(S)
  <2> HIDE DEF S
  <2> QED
    BY <1>2, GreatestNumber
<1>4. PICK r \in OfItem(H, i) : r.seq = Max(S)
  BY <1>3
<1>5. r \in H /\ r.item = i /\ \A q \in H : q.item = i => q.seq <= r.seq
  BY <1>3, <1>4 DEF OfItem
<1>6. Current(H, r.item) = r
  BY <1>5, LastRowIsState
<1> QED
  BY <1>5, <1>6

(* An item without rows is not live. *)
LEMMA NoRowIsNoState ==
    ASSUME NEW H, NEW i, OfItem(H, i) = {}
    PROVE  ~ LiveIn(H, i)
BY DEF LiveIn

------------------------------------------------------------------------------
(* Pages are cut between groups. *)

(* A set that goes down from L goes down to 0. *)
LEMMA Downwards ==
    ASSUME NEW L \in Nat, NEW M \in SUBSET (0 .. L), L \in M,
           \A m \in 0 .. L - 1 : m + 1 \in M => m \in M
    PROVE  0 \in M
<1>1. M \in SUBSET Nat /\ M # {}
  BY SMT
<1>2. Min(M) \in M /\ \A y \in M : Min(M) <= y
  BY <1>1, LeastNumber
<1>3. ASSUME Min(M) # 0 PROVE FALSE
  <2>0. Min(M) \in 0 .. L
    BY <1>2
  <2>1. Min(M) - 1 \in 0 .. L - 1 /\ (Min(M) - 1) + 1 = Min(M)
    BY SMT, <1>3, <2>0
  <2>2. Min(M) - 1 \in M
    <3>1. (Min(M) - 1) + 1 \in M
      BY <1>2, <2>1
    <3> QED
      BY <2>1, <3>1
  <2> QED
    BY SMT, <1>2, <2>1, <2>2
<1> QED
  BY <1>2, <1>3

(* Where a page may end: not between two rows of a group. *)
Boundary(groups, n) ==
    /\ n \in 0 .. Len(groups)
    /\ n \in 1 .. Len(groups) - 1 => groups[n] = None \/ groups[n] # groups[n + 1]

(* RunEnd is one past a run of rows of the group. *)
LEMMA RunEndIs ==
    ASSUME NEW G, NEW groups \in Seq(G), NEW g, NEW k \in 1 .. Len(groups) + 1
    PROVE  /\ RunEnd(groups, g, k) \in k .. Len(groups) + 1
           /\ \A n \in k .. RunEnd(groups, g, k) - 1 : groups[n] = g
           /\ RunEnd(groups, g, k) <= Len(groups) => groups[RunEnd(groups, g, k)] # g
<1> DEFINE S == {n \in k .. Len(groups) : groups[n] # g} \cup {Len(groups) + 1}
<1>0. Len(groups) \in Nat
  BY SMT
<1>1. S \in SUBSET (k .. Len(groups) + 1) /\ S # {} /\ S \in SUBSET Nat
  BY SMT, <1>0
<1>2. Min(S) \in S /\ \A y \in S : Min(S) <= y
  <2> HIDE DEF S
  <2> QED
    BY <1>1, LeastNumber
<1>3. RunEnd(groups, g, k) = Min(S)
  BY DEF RunEnd
<1>4. Min(S) \in k .. Len(groups) + 1
  BY <1>1, <1>2
<1>5. ASSUME NEW n \in k .. Min(S) - 1 PROVE groups[n] = g
  <2>1. n \in k .. Len(groups) /\ ~ (Min(S) <= n)
    BY SMT, <1>0, <1>4
  <2>2. n \notin S
    BY <1>2, <2>1
  <2> QED
    BY <2>1, <2>2
<1>6. Min(S) <= Len(groups) => groups[Min(S)] # g
  BY SMT, <1>0, <1>2
<1> QED
  BY <1>3, <1>4, <1>5, <1>6

(* A unit has a row, and it ends where a page may end. *)
LEMMA UnitEndIs ==
    ASSUME NEW G, NEW groups \in Seq(G), NEW n \in 0 .. Len(groups) - 1
    PROVE  UnitEnd(groups, n) \in n + 1 .. Len(groups) /\ Boundary(groups, UnitEnd(groups, n))
<1>0. Len(groups) \in Nat
  BY SMT
<1>1. CASE groups[n + 1] = None
  BY SMT, <1>0, <1>1 DEF UnitEnd, Boundary
<1>2. CASE groups[n + 1] # None
  <2> DEFINE e == RunEnd(groups, groups[n + 1], n + 2)
  <2>0. n + 2 \in 1 .. Len(groups) + 1
    BY SMT, <1>0
  <2>1. /\ e \in n + 2 .. Len(groups) + 1
        /\ \A m \in n + 2 .. e - 1 : groups[m] = groups[n + 1]
        /\ e <= Len(groups) => groups[e] # groups[n + 1]
    BY <2>0, RunEndIs
  <2>2. UnitEnd(groups, n) = e - 1
    BY <1>2 DEF UnitEnd
  <2> HIDE DEF e
  <2>3. e - 1 \in n + 1 .. Len(groups) /\ (e - 1) + 1 = e
    BY SMT, <1>0, <2>1
  <2>4. groups[e - 1] = groups[n + 1]
    <3>1. e - 1 = n + 1 \/ e - 1 \in n + 2 .. e - 1
      BY SMT, <1>0, <2>1
    <3> QED
      BY <2>1, <3>1
  <2> QED
    BY SMT, <1>0, <2>1, <2>2, <2>3, <2>4 DEF Boundary
<1> QED
  BY <1>1, <1>2

(* The loop over the units takes whole units, or refuses (the loop of      *)
(* delivery_bounded_delta_prefix_len).                                     *)
LEMMA SelectedIs ==
    ASSUME NEW G, NEW groups \in Seq(G), NEW sizes
    PROVE  Selected(groups, sizes) = TooLarge \/ Boundary(groups, Selected(groups, sizes))
<1> DEFINE L == Len(groups)
           End(n) == UnitEnd(groups, n)
           Body(f, n) == IF n = L THEN n
                         ELSE IF Bytes(sizes, n + 1, End(n)) > PageBytes THEN TooLarge
                         ELSE IF Bytes(sizes, 1, End(n)) > PageBytes THEN n
                         ELSE f[End(n)]
           select == CHOOSE f : f = [n \in 0 .. L |-> Body(f, n)]
           Defined == {m \in 0 .. L : \E f : f = [n \in m .. L |-> Body(f, n)]}
<1>1. Selected(groups, sizes) = select[0]
  BY DEF Selected
<1>2. L \in Nat
  BY SMT
<1>3. \A n \in 0 .. L - 1 : End(n) \in n + 1 .. L /\ Boundary(groups, End(n))
  BY UnitEndIs
<1>4. Boundary(groups, 0) /\ Boundary(groups, L)
  BY SMT, <1>2 DEF Boundary
<1> HIDE DEF L, End
<1>5. select = [n \in 0 .. L |-> Body(select, n)]
  <2>1. L \in Defined
    <3>1. \A f : [n \in L .. L |-> Body(f, n)] = [n \in L .. L |-> L]
      BY SMT, <1>2
    <3> DEFINE f == [n \in L .. L |-> L]
    <3>2. f = [n \in L .. L |-> Body(f, n)]
      BY <3>1
    <3>3. L \in 0 .. L
      BY SMT, <1>2
    <3> HIDE DEF f, Body
    <3> QED
      BY <3>2, <3>3
  <2>2. ASSUME NEW m \in 0 .. L - 1, m + 1 \in Defined PROVE m \in Defined
    <3>1. PICK f : f = [n \in m + 1 .. L |-> Body(f, n)]
      BY <2>2
    <3> DEFINE h == [n \in m .. L |-> IF n = m THEN Body(f, m) ELSE f[n]]
    <3>2. \A n \in m + 1 .. L : h[n] = f[n] /\ n # m
      BY SMT, <1>2
    <3>3. \A n \in m .. L : Body(h, n) = Body(f, n)
      <4> TAKE n \in m .. L
      <4>1. CASE n = L
        BY <4>1
      <4>2. CASE n # L
        <5>1. n \in 0 .. L - 1 /\ End(n) \in n + 1 .. L
          BY SMT, <1>2, <1>3, <4>2
        <5>2. h[End(n)] = f[End(n)]
          BY SMT, <1>2, <3>2, <5>1
        <5> HIDE DEF h
        <5> QED
          BY <5>2
      <4> QED
        BY <4>1, <4>2
    <3>4. ASSUME NEW n \in m .. L PROVE h[n] = Body(h, n)
      <4>1. CASE n = m
        <5>1. h[n] = Body(f, m)
          BY <4>1
        <5> HIDE DEF h, Body
        <5> QED
          BY <3>3, <4>1, <5>1
      <4>2. CASE n # m
        <5>1. n \in m + 1 .. L
          BY SMT, <1>2, <4>2
        <5>2. h[n] = f[n]
          BY <4>2
        <5> HIDE DEF h, Body
        <5>3. f[n] = Body(f, n)
          BY <3>1, <5>1
        <5> QED
          BY <3>3, <5>2, <5>3
      <4> QED
        BY <4>1, <4>2
    <3>5. h = [n \in m .. L |-> Body(h, n)]
      <4> HIDE DEF Body
      <4>1. h = [n \in m .. L |-> h[n]]
        OBVIOUS
      <4> HIDE DEF h
      <4> QED
        BY <3>4, <4>1
    <3> HIDE DEF h, Body
    <3> QED
      BY SMT, <1>2, <3>5
  <2>3. 0 \in Defined
    <3>1. Defined \in SUBSET (0 .. L)
      OBVIOUS
    <3> HIDE DEF Defined
    <3> QED
      BY <1>2, <2>1, <2>2, <3>1, Downwards
  <2> HIDE DEF Body
  <2>4. \E f : f = [n \in 0 .. L |-> Body(f, n)]
    BY <2>3
  <2> QED
    BY <2>4
<1> HIDE DEF select
<1> DEFINE Good(n) == Boundary(groups, n) => select[n] = TooLarge \/ Boundary(groups, select[n])
           Done == {m \in 0 .. L : \A n \in m .. L : Good(n)}
<1>6. \A n \in 0 .. L : select[n] = Body(select, n)
  <2> HIDE DEF Body
  <2> QED
    BY <1>5
<1>7. L \in Done
  <2>1. select[L] = L
    BY SMT, <1>2, <1>6
  <2> QED
    BY SMT, <1>2, <1>4, <2>1
<1>8. ASSUME NEW m \in 0 .. L - 1, m + 1 \in Done PROVE m \in Done
  <2>1. m \in 0 .. L /\ End(m) \in m + 1 .. L /\ Boundary(groups, End(m)) /\ m # L
    BY SMT, <1>2, <1>3
  <2>2. select[m] \in {TooLarge, m, select[End(m)]}
    BY <1>6, <2>1
  <2>3. Good(End(m))
    BY <1>8, <2>1
  <2>4. Good(m)
    BY <2>1, <2>2, <2>3
  <2>5. \A n \in m .. L : n = m \/ n \in m + 1 .. L
    BY SMT, <1>2
  <2> HIDE DEF Good
  <2> QED
    BY <1>8, <2>1, <2>4, <2>5
<1>9. 0 \in Done
  <2>1. Done \in SUBSET (0 .. L)
    OBVIOUS
  <2> HIDE DEF Done
  <2> QED
    BY <1>2, <1>7, <1>8, <2>1, Downwards
<1> QED
  BY <1>1, <1>2, <1>4, <1>9

(* The rows asked for, and the rest of a group that they cut               *)
(* (atomic_delta_prefix_len).                                              *)
LEMMA AtomicPrefixIs ==
    ASSUME NEW G, NEW groups \in Seq(G), NEW limit \in Nat \ {0},
           AtomicPrefix(groups, limit) # TooLarge
    PROVE  /\ Boundary(groups, AtomicPrefix(groups, limit))
           /\ AtomicPrefix(groups, limit) = Len(groups) => Len(groups) <= MaxExpanded(limit)
<1>0. Len(groups) \in Nat /\ limit \in Nat /\ limit # 0
  BY SMT
<1>m. limit <= MaxExpanded(limit) /\ MaxExpanded(limit) \in Nat
  BY SMT, <1>0, PageAssumption DEF MaxExpanded
<1>1. CASE Len(groups) <= limit
  BY SMT, <1>0, <1>1, <1>m DEF AtomicPrefix, Boundary
<1>2. CASE ~ (Len(groups) <= limit) /\ groups[limit] = None
  BY SMT, <1>0, <1>2 DEF AtomicPrefix, Boundary
<1>3. CASE ~ (Len(groups) <= limit) /\ groups[limit] # None
  <2> DEFINE g == groups[limit]
             e == RunEnd(groups, g, limit + 1)
  <2>0. limit + 1 \in 1 .. Len(groups) + 1
    BY SMT, <1>0, <1>3
  <2>1. /\ e \in limit + 1 .. Len(groups) + 1
        /\ \A m \in limit + 1 .. e - 1 : groups[m] = g
        /\ e <= Len(groups) => groups[e] # g
    BY <2>0, RunEndIs
  <2>2. AtomicPrefix(groups, limit) = e - 1 /\ ~ (e - 1 > MaxExpanded(limit))
    BY <1>3 DEF AtomicPrefix
  <2> HIDE DEF e
  <2>3. e - 1 \in limit .. Len(groups) /\ (e - 1) + 1 = e
    BY SMT, <1>0, <2>1
  <2>4. groups[e - 1] = g
    <3>1. e - 1 = limit \/ e - 1 \in limit + 1 .. e - 1
      BY SMT, <1>0, <2>1
    <3> QED
      BY <2>1, <3>1
  <2>5. Boundary(groups, e - 1)
    BY SMT, <1>0, <2>1, <2>3, <2>4 DEF Boundary
  <2>6. e - 1 = Len(groups) => Len(groups) <= MaxExpanded(limit)
    BY SMT, <1>0, <1>m, <2>2, <2>3
  <2> QED
    BY <2>2, <2>5, <2>6
<1> QED
  BY <1>1, <1>2, <1>3

(* A page ends where no group is cut, and it takes all the rows that were  *)
(* fetched only when they are fewer than one asked the table for           *)
(* (delivery_bounded_delta_prefix_len).                                    *)
LEMMA BoundedPrefixIs ==
    ASSUME NEW G, NEW groups \in Seq(G), NEW sizes, NEW limit \in Nat \ {0},
           BoundedPrefix(groups, sizes, limit) # TooLarge
    PROVE  /\ Boundary(groups, BoundedPrefix(groups, sizes, limit))
           /\ BoundedPrefix(groups, sizes, limit) = Len(groups)
                 => Len(groups) <= MaxExpanded(limit)
<1> DEFINE prefix == AtomicPrefix(groups, limit)
           cut == SubSeq(groups, 1, prefix)
           taken == Selected(cut, sizes)
<1>0. Len(groups) \in Nat /\ \A n \in 1 .. Len(groups) : groups[n] \in G
  BY SMT
<1>1. prefix # TooLarge /\ BoundedPrefix(groups, sizes, limit) = taken /\ taken # TooLarge
  BY DEF BoundedPrefix
<1>2. Boundary(groups, prefix) /\ (prefix = Len(groups) => Len(groups) <= MaxExpanded(limit))
  BY <1>1, AtomicPrefixIs
<1> HIDE DEF prefix
<1>3. prefix \in 0 .. Len(groups)
  BY <1>2 DEF Boundary
<1>4. cut \in Seq(G) /\ Len(cut) = prefix /\ \A n \in 1 .. prefix : cut[n] = groups[n]
  <2>1. /\ cut \in Seq(G)
        /\ Len(cut) = IF 1 <= prefix THEN prefix - 1 + 1 ELSE 0
        /\ \A n \in 1 .. prefix - 1 + 1 : cut[n] = groups[1 + n - 1]
    BY SMT, <1>0, <1>3
  <2> HIDE DEF cut
  <2> QED
    BY SMT, <1>0, <1>3, <2>1
<1>5. Boundary(cut, taken)
  BY <1>1, <1>4, SelectedIs
<1> HIDE DEF cut, taken
<1>6. Boundary(groups, taken)
  <2>1. CASE taken = prefix
    BY <1>2, <2>1
  <2>2. CASE taken # prefix
    <3>1. taken \in 0 .. prefix - 1
      BY SMT, <1>0, <1>3, <1>4, <1>5, <2>2 DEF Boundary
    <3>2. CASE taken = 0
      BY SMT, <1>0, <3>2 DEF Boundary
    <3>3. CASE taken # 0
      <4>1. taken \in 1 .. prefix - 1 /\ taken \in 1 .. prefix /\ taken + 1 \in 1 .. prefix
        BY SMT, <1>0, <1>3, <3>1, <3>3
      <4>2. cut[taken] = None \/ cut[taken] # cut[taken + 1]
        BY <1>4, <1>5, <4>1 DEF Boundary
      <4>3. groups[taken] = None \/ groups[taken] # groups[taken + 1]
        BY <1>4, <4>1, <4>2
      <4> QED
        BY SMT, <1>0, <1>3, <4>1, <4>3 DEF Boundary
    <3> QED
      BY <3>2, <3>3
  <2> QED
    BY <2>1, <2>2
<1>7. taken = Len(groups) => prefix = Len(groups)
  BY SMT, <1>0, <1>3, <1>4, <1>5 DEF Boundary
<1> QED
  BY <1>1, <1>2, <1>6, <1>7

------------------------------------------------------------------------------
(* Stretches of a history. *)

(* A sequence of rows that follows a place without a gap. *)
Stretch(H, from, s) ==
    /\ s \in Seq(H)
    /\ \A n \in 1 .. Len(s) : from < s[n].seq
    /\ \A m, n \in 1 .. Len(s) : m < n => s[m].seq < s[n].seq
    /\ \A n \in 1 .. Len(s) : \A r \in H :
           from < r.seq /\ r.seq <= s[n].seq => \E m \in 1 .. n : s[m] = r

EndOf(from, s) == IF s = <<>> THEN from ELSE s[Len(s)].seq

(* A part of a history is sound when the whole is. *)
LEMMA SoundPart == ASSUME NEW H, Sound(H), NEW S \in SUBSET H PROVE Sound(S) /\ Keyed(S)
BY DEF Sound, Keyed

(* Later commits do not come between the rows of a stretch. *)
LEMMA StretchStays ==
    ASSUME NEW H, NEW K, Sound(H), Sound(K), Extends(H, K), NEW from, NEW s, Stretch(H, from, s)
    PROVE  Stretch(K, from, s)
<1>1. s \in Seq(K)
  BY SMT DEF Stretch, Extends
<1>2. ASSUME NEW n \in 1 .. Len(s), NEW r \in K, from < r.seq, r.seq <= s[n].seq
      PROVE  \E m \in 1 .. n : s[m] = r
  <2>1. s[n] \in H /\ s[n].seq \in Nat /\ r.seq \in Nat
    BY SMT DEF Stretch, Sound, Keyed
  <2>2. r \in H
    BY SMT, <1>2, <2>1 DEF Extends
  <2> QED
    BY <1>2, <2>2 DEF Stretch
<1> QED
  BY <1>1, <1>2 DEF Stretch

(* The first rows of a stretch are one. *)
LEMMA StretchPrefix ==
    ASSUME NEW H, NEW from, NEW s, Stretch(H, from, s), NEW p \in 0 .. Len(s)
    PROVE  /\ Stretch(H, from, SubSeq(s, 1, p))
           /\ Len(SubSeq(s, 1, p)) = p
           /\ \A n \in 1 .. p : SubSeq(s, 1, p)[n] = s[n]
           /\ EndOf(from, SubSeq(s, 1, p)) = IF p = 0 THEN from ELSE s[p].seq
<1> DEFINE t == SubSeq(s, 1, p)
<1>0. Len(s) \in Nat /\ \A n \in 1 .. Len(s) : s[n] \in H
  BY SMT DEF Stretch
<1>1. t \in Seq(H) /\ Len(t) = p /\ \A n \in 1 .. p : t[n] = s[n]
  <2>1. /\ t \in Seq(H)
        /\ Len(t) = IF 1 <= p THEN p - 1 + 1 ELSE 0
        /\ \A n \in 1 .. p - 1 + 1 : t[n] = s[1 + n - 1]
    BY SMT, <1>0
  <2> HIDE DEF t
  <2> QED
    BY SMT, <1>0, <2>1
<1> HIDE DEF t
<1>2. Stretch(H, from, t)
  <2>1. \A n \in 1 .. p : n \in 1 .. Len(s) /\ \A m \in 1 .. n : m \in 1 .. p
    BY SMT, <1>0
  <2>2. ASSUME NEW n \in 1 .. p, NEW r \in H, from < r.seq, r.seq <= t[n].seq
        PROVE  \E m \in 1 .. n : t[m] = r
    <3>1. PICK m \in 1 .. n : s[m] = r
      BY <1>1, <2>1, <2>2 DEF Stretch
    <3> QED
      BY <1>1, <2>1, <3>1
  <2>3. \A n \in 1 .. p : from < t[n].seq
    BY <1>1, <2>1 DEF Stretch
  <2>4. \A m, n \in 1 .. p : m < n => t[m].seq < t[n].seq
    BY <1>1, <2>1 DEF Stretch
  <2> QED
    BY <1>1, <2>2, <2>3, <2>4 DEF Stretch
<1>3. t = <<>> <=> p = 0
  BY SMT, <1>0, <1>1
<1>4. EndOf(from, t) = IF p = 0 THEN from ELSE s[p].seq
  <2>1. p # 0 => p \in 1 .. p
    BY SMT, <1>0
  <2> QED
    BY <1>1, <1>3, <2>1 DEF EndOf
<1> QED
  BY <1>1, <1>2, <1>4 DEF t

(* The rows after a place, in order, up to a number of them; when there    *)
(* are fewer, nothing comes after them (the second statement of delta).    *)
LEMMA FetchedIs ==
    ASSUME NEW H, Sound(H), NEW from, Whole(H, from), NEW k \in Nat \ {0}
    PROVE  LET later == InOrder({r \in H : r.seq > from})
               s == SubSeq(later, 1, Min({Len(later), k}))
           IN  /\ Stretch(H, from, s)
               /\ Len(s) < k => Whole(H, EndOf(from, s))
<1> DEFINE R == {r \in H : r.seq > from}
           later == InOrder(R)
           p == Min({Len(later), k})
<1>1. /\ later \in Seq(R)
      /\ \A n \in 1 .. Len(later) : later[n] \in R
      /\ \A m, n \in 1 .. Len(later) : m < n => later[m].seq < later[n].seq
      /\ \A r \in R : \E n \in 1 .. Len(later) : later[n] = r
  <2>1. Keyed(R)
    BY SoundPart
  <2> QED
    BY <2>1, InOrderIs
<1>n. from \in Nat /\ \A r \in H : r.seq \in Nat
  BY DEF Whole, Sound, Keyed
<1> HIDE DEF later
<1>0. Len(later) \in Nat
  BY SMT, <1>1
<1>2. Stretch(H, from, later)
  <2>1. later \in Seq(H)
    BY SMT, <1>1
  <2>2. \A n \in 1 .. Len(later) : from < later[n].seq
    BY <1>1, <1>n
  <2>3. ASSUME NEW n \in 1 .. Len(later), NEW r \in H, from < r.seq, r.seq <= later[n].seq
        PROVE  \E m \in 1 .. n : later[m] = r
    <3>1. r \in R
      BY <1>n, <2>3
    <3>2. PICK m \in 1 .. Len(later) : later[m] = r
      BY <1>1, <3>1
    <3>3. later[n].seq \in Nat /\ r.seq \in Nat
      BY <1>1, <1>n
    <3>4. ~ (n < m)
      <4>1. n < m => later[n].seq < later[m].seq
        BY <1>1
      <4> QED
        BY SMT, <2>3, <3>2, <3>3, <4>1
    <3> QED
      BY SMT, <1>0, <3>2, <3>4
  <2> QED
    BY <1>1, <2>1, <2>2, <2>3 DEF Stretch
<1>3. p \in 0 .. Len(later) /\ (p < k => p = Len(later))
  <2>1. {Len(later), k} \in SUBSET Nat /\ {Len(later), k} # {}
    BY <1>0
  <2>2. p \in {Len(later), k} /\ \A y \in {Len(later), k} : p <= y
    BY <2>1, LeastNumber
  <2> HIDE DEF p
  <2> QED
    BY SMT, <1>0, <2>2
<1> HIDE DEF p
<1> DEFINE s == SubSeq(later, 1, p)
<1>4. /\ Stretch(H, from, s)
      /\ Len(s) = p
      /\ EndOf(from, s) = IF p = 0 THEN from ELSE later[p].seq
  BY SMT, <1>2, <1>3, StretchPrefix
<1> HIDE DEF s
<1>5. ASSUME p < k PROVE Whole(H, EndOf(from, s))
  <2>1. CASE p = 0
    BY <1>4, <2>1
  <2>2. CASE p # 0
    <3>1. p \in 1 .. Len(later) /\ later[p] \in H /\ EndOf(from, s) = later[p].seq
      BY SMT, <1>0, <1>1, <1>3, <1>4, <2>2
    <3>2. ASSUME NEW r \in H PROVE ~ (later[p].seq < r.seq)
      <4>1. CASE r \in R
        <5>1. PICK m \in 1 .. Len(later) : later[m] = r
          BY <1>1, <4>1
        <5>2. m = p \/ m < p
          BY SMT, <1>0, <1>3, <1>5
        <5>3. m < p => later[m].seq < later[p].seq
          BY <1>1, <3>1
        <5>4. r.seq \in Nat /\ later[p].seq \in Nat
          BY <1>n, <3>1
        <5> QED
          BY SMT, <5>1, <5>2, <5>3, <5>4
      <4>2. CASE r \notin R
        BY SMT, <1>n, <1>2, <3>1, <4>2 DEF Stretch
      <4> QED
        BY <4>1, <4>2
    <3> QED
      BY <1>n, <3>1, <3>2 DEF Whole
  <2> QED
    BY <2>1, <2>2
<1> QED
  BY <1>4, <1>5 DEF s, p, later

------------------------------------------------------------------------------
(* What a stretch makes of a client. *)

(* A stretch that is cut where no group is divided ends at a place. *)
LEMMA StretchCut ==
    ASSUME NEW H, Sound(H), NEW from, Whole(H, from), NEW s, Stretch(H, from, s),
           NEW p, Boundary(GroupsOf(s), p), p # Len(s)
    PROVE  p \in 0 .. Len(s) /\ Whole(H, EndOf(from, SubSeq(s, 1, p)))
<1>0. Len(s) \in Nat /\ \A n \in 1 .. Len(s) : s[n] \in H
  BY SMT DEF Stretch
<1>1. Len(GroupsOf(s)) = Len(s) /\ \A n \in 1 .. Len(s) : GroupsOf(s)[n] = s[n].group
  <2>1. s \in Seq(H) /\ DOMAIN s = 1 .. Len(s)
    BY SMT DEF Stretch
  <2> DEFINE G == {r.group : r \in H}
  <2>2. GroupsOf(s) \in [1 .. Len(s) -> G] /\ \A n \in 1 .. Len(s) : GroupsOf(s)[n] = s[n].group
    BY <1>0, <2>1 DEF GroupsOf
  <2> HIDE DEF G
  <2>3. GroupsOf(s) \in Seq(G) /\ DOMAIN GroupsOf(s) = 1 .. Len(s)
    BY SMT, <1>0, <2>2
  <2> QED
    BY SMT, <1>0, <2>2, <2>3
<1>2. /\ p \in 0 .. Len(s)
      /\ p \in 1 .. Len(s) - 1 => s[p].group = None \/ s[p].group # s[p + 1].group
  BY SMT, <1>0, <1>1 DEF Boundary
<1>3. EndOf(from, SubSeq(s, 1, p)) = IF p = 0 THEN from ELSE s[p].seq
  BY SMT, <1>2, StretchPrefix
<1>4. CASE p = 0
  BY <1>2, <1>3, <1>4
<1>5. CASE p # 0
  <2>1. p \in 1 .. Len(s) /\ p + 1 \in 1 .. Len(s) /\ p \in 1 .. Len(s) - 1 /\ p < p + 1
    BY SMT, <1>0, <1>2, <1>5
  <2> DEFINE a == s[p]
             b == s[p + 1]
  <2>2. a \in H /\ b \in H /\ a.seq < b.seq /\ from < a.seq /\ (a.group = None \/ a.group # b.group)
    BY <1>0, <1>2, <2>1 DEF Stretch
  <2>3. \A r \in H : /\ r.seq \in Nat /\ (r.group # None => r.group \in Nat)
                     /\ \A q \in H : /\ q.seq = r.seq => q = r
                                     /\ q.seq < r.seq /\ q.group # None
                                           => r.group # None /\ q.group <= r.group
    BY DEF Sound, Keyed
  <2>4. ASSUME NEW r \in H, a.seq < r.seq PROVE b.seq <= r.seq
    <3>1. ASSUME r.seq < b.seq PROVE FALSE
      <4>1. from \in Nat /\ from < r.seq /\ r.seq <= b.seq
        BY SMT, <2>2, <2>3, <2>4, <3>1 DEF Whole
      <4>2. PICK m \in 1 .. p + 1 : s[m] = r
        BY <2>1, <4>1 DEF Stretch
      <4>3. m = p + 1 \/ m = p \/ m < p
        BY SMT, <1>0, <2>1
      <4>4. m < p => s[m].seq < a.seq
        <5>1. m \in 1 .. Len(s)
          BY SMT, <1>0, <2>1
        <5> QED
          BY <2>1, <5>1 DEF Stretch
      <4> QED
        BY SMT, <2>2, <2>3, <2>4, <3>1, <4>2, <4>3, <4>4
    <3> QED
      BY SMT, <2>2, <2>3, <3>1
  <2>5. ASSUME NEW q \in H, NEW r \in H, q.seq <= a.seq, a.seq < r.seq,
               q.group # None, q.group = r.group
        PROVE  FALSE
    <3> HIDE DEF a, b
    <3>1. a.group # None /\ a.group \in Nat /\ q.group \in Nat /\ q.group <= a.group
      <4>1. q = a \/ q.seq < a.seq
        BY SMT, <2>2, <2>3, <2>5
      <4>2. CASE q = a
        BY <2>2, <2>3, <2>5, <4>2
      <4>3. CASE q.seq < a.seq
        BY <2>2, <2>3, <2>5, <4>3
      <4> QED
        BY <4>1, <4>2, <4>3
    <3>2. b.group # None /\ b.group \in Nat /\ a.group <= b.group
      BY <2>2, <2>3, <3>1
    <3>3. b.group <= r.group /\ r.group \in Nat
      <4>1. r = b \/ b.seq < r.seq
        BY SMT, <2>2, <2>3, <2>4, <2>5
      <4>2. CASE r = b
        BY SMT, <3>2, <4>2
      <4>3. CASE b.seq < r.seq
        BY <2>2, <2>3, <3>2, <4>3
      <4> QED
        BY <4>1, <4>2, <4>3
    <3> QED
      BY SMT, <2>2, <2>5, <3>1, <3>2, <3>3
  <2> QED
    BY <1>2, <1>3, <1>5, <2>2, <2>3, <2>5 DEF Whole
<1> QED
  BY <1>4, <1>5

(* What a page makes of an item: the last row about it decides            *)
(* (applyDeltaChange, row by row).                                         *)
LEMMA AppliedIs ==
    ASSUME NEW c, NEW R, NEW page \in Seq(R), NEW i \in Items
    PROVE  /\ (\A n \in 1 .. Len(page) : page[n].item # i) => Applied(c, page)[i] = work[c][i]
           /\ \A n \in 1 .. Len(page) :
                 /\ page[n].item = i
                 /\ \A m \in 1 .. Len(page) : page[m].item = i => m <= n
                 => Applied(c, page)[i] = [rev |-> page[n].rev, live |-> page[n].live]
<1> DEFINE at == {n \in DOMAIN page : page[n].item = i}
<1>1. Len(page) \in Nat /\ DOMAIN page = 1 .. Len(page)
  BY SMT
<1>2. Applied(c, page)[i] = IF at = {} THEN work[c][i]
                            ELSE [rev |-> page[Max(at)].rev, live |-> page[Max(at)].live]
  BY DEF Applied
<1>3. ASSUME NEW n \in 1 .. Len(page), page[n].item = i,
             \A m \in 1 .. Len(page) : page[m].item = i => m <= n
      PROVE  at # {} /\ Max(at) = n
  <2>1. at \in SUBSET Nat /\ n \in at /\ n \in Nat /\ \A m \in at : m <= n
    BY SMT, <1>1, <1>3
  <2> HIDE DEF at
  <2>2. Max(at) \in at /\ n <= Max(at)
    BY <2>1, GreatestNumber
  <2>3. Max(at) \in Nat /\ Max(at) <= n
    BY <2>1, <2>2
  <2> QED
    BY SMT, <2>1, <2>2, <2>3
<1>4. (\A n \in 1 .. Len(page) : page[n].item # i) => at = {}
  BY <1>1
<1> HIDE DEF at
<1> QED
  BY <1>2, <1>3, <1>4

(* The last row about an item in a page. *)
LEMMA LastAbout ==
    ASSUME NEW R, NEW page \in Seq(R), NEW i, NEW k \in 1 .. Len(page), page[k].item = i
    PROVE  \E n \in 1 .. Len(page) :
              page[n].item = i /\ \A m \in 1 .. Len(page) : page[m].item = i => m <= n
<1> DEFINE at == {n \in 1 .. Len(page) : page[n].item = i}
<1>1. Len(page) \in Nat
  BY SMT
<1>2. at \in SUBSET Nat /\ at # {} /\ \A m \in at : m <= Len(page)
  BY SMT, <1>1
<1>3. Max(at) \in at /\ \A m \in at : m <= Max(at)
  <2> HIDE DEF at
  <2> QED
    BY <1>1, <1>2, GreatestNumber
<1>4. Max(at) \in 1 .. Len(page) /\ page[Max(at)].item = i
  BY <1>3
<1>5. \A m \in 1 .. Len(page) : page[m].item = i => m <= Max(at)
  BY <1>3
<1> QED
  BY <1>4, <1>5

(* The state of an item depends on its rows alone. *)
LEMMA StateOfItem ==
    ASSUME NEW H, NEW K, NEW i \in Items, OfItem(H, i) = OfItem(K, i)
    PROVE  State(H)[i] = State(K)[i]
BY DEF State, LiveIn, Current, Revision

(* A client that has the state at one place and applies the stretch after  *)
(* it has the state at the end of the stretch (loadDeltaPages).            *)
LEMMA DeltaApplied ==
    ASSUME NEW H, Sound(H), NEW from, Whole(H, from), NEW page, Stretch(H, from, page), NEW c,
           LiveRevisions(work[c]) = State(UpTo(H, from))
    PROVE  LiveRevisions(Applied(c, page)) = State(UpTo(H, EndOf(from, page)))
<1> DEFINE end == EndOf(from, page)
           L == Len(page)
           A == UpTo(H, from)
           B == UpTo(H, end)
<1>1. L \in Nat /\ page \in Seq(H) /\ \A n \in 1 .. L : page[n] \in H
  BY SMT DEF Stretch
<1>2. from \in Nat /\ \A r \in H : r.seq \in Nat
  BY DEF Whole, Sound, Keyed
<1>3. /\ end \in Nat /\ from <= end /\ \A n \in 1 .. L : page[n].seq <= end
      /\ \A r \in H : from < r.seq /\ r.seq <= end => \E m \in 1 .. L : page[m] = r
  <2>1. CASE L = 0
    <3>1. page = <<>>
      BY SMT, <1>1, <2>1
    <3> QED
      BY SMT, <1>2, <2>1, <3>1 DEF EndOf
  <2>2. CASE L # 0
    <3>1. page # <<>> /\ L \in 1 .. L
      BY SMT, <1>1, <2>2
    <3>2. end = page[L].seq /\ page[L] \in H
      BY <1>1, <3>1 DEF EndOf
    <3>3. from < end /\ end \in Nat
      BY <1>2, <3>1, <3>2 DEF Stretch
    <3>4. ASSUME NEW n \in 1 .. L PROVE page[n].seq <= end
      <4>1. n = L \/ n < L
        BY SMT, <1>1
      <4>2. n < L => page[n].seq < page[L].seq
        BY <3>1 DEF Stretch
      <4>3. page[n].seq \in Nat
        BY <1>1, <1>2
      <4> QED
        BY SMT, <3>2, <3>3, <4>1, <4>2, <4>3
    <3>5. \A r \in H : from < r.seq /\ r.seq <= end => \E m \in 1 .. L : page[m] = r
      BY <3>1, <3>2 DEF Stretch
    <3> QED
      BY SMT, <1>2, <3>3, <3>4, <3>5
  <2> QED
    BY <2>1, <2>2
<1> HIDE DEF end
<1>4. ASSUME NEW i \in Items
      PROVE  LiveRevisions(Applied(c, page))[i] = State(B)[i]
  <2>1. CASE \A n \in 1 .. L : page[n].item # i
    <3>1. Applied(c, page)[i] = work[c][i]
      BY SMT, <1>1, <2>1, AppliedIs
    <3>2. OfItem(A, i) = OfItem(B, i)
      <4>1. A \subseteq B
        BY SMT, <1>2, <1>3 DEF UpTo
      <4>2. ASSUME NEW r \in B, r.item = i PROVE r \in A
        <5>1. r \in H /\ r.seq <= end
          BY DEF UpTo
        <5>2. ~ (from < r.seq)
          BY <1>3, <2>1, <4>2, <5>1
        <5> QED
          BY SMT, <1>2, <5>1, <5>2 DEF UpTo
      <4> QED
        BY <4>1, <4>2 DEF OfItem
    <3>3. State(B)[i] = State(A)[i]
      BY <3>2, StateOfItem
    <3>4. LiveRevisions(Applied(c, page))[i] = LiveRevisions(work[c])[i]
      BY <3>1 DEF LiveRevisions
    <3> QED
      BY <3>3, <3>4
  <2>2. CASE \E n \in 1 .. L : page[n].item = i
    <3>1. PICK n \in 1 .. L : page[n].item = i /\ \A m \in 1 .. L : page[m].item = i => m <= n
      BY <1>1, <2>2, LastAbout
    <3>2. Applied(c, page)[i] = [rev |-> page[n].rev, live |-> page[n].live]
      BY SMT, <1>1, <3>1, AppliedIs
    <3>3. LiveRevisions(Applied(c, page))[i] = IF page[n].live THEN page[n].rev ELSE 0
      BY SMT, <3>2 DEF LiveRevisions
    <3>4. page[n] \in B /\ Sound(B)
      <4>1. B \subseteq H
        BY DEF UpTo
      <4>2. page[n] \in B
        BY <1>1, <1>3 DEF UpTo
      <4> QED
        BY <4>1, <4>2, SoundPart
    <3>5. ASSUME NEW q \in B, q.item = page[n].item PROVE q.seq <= page[n].seq
      <4>1. q \in H /\ q.seq <= end /\ q.seq \in Nat /\ page[n].seq \in Nat /\ from < page[n].seq
        BY <1>1, <1>2 DEF UpTo, Stretch
      <4>2. CASE q.seq <= from
        BY SMT, <1>2, <4>1, <4>2
      <4>3. CASE from < q.seq
        <5>1. PICK m \in 1 .. L : page[m] = q
          BY <1>3, <4>1, <4>3
        <5>2. m = n \/ m < n
          BY SMT, <1>1, <3>1, <3>5, <5>1
        <5>3. m < n => page[m].seq < page[n].seq
          BY DEF Stretch
        <5> QED
          BY SMT, <4>1, <5>1, <5>2, <5>3
      <4> QED
        BY SMT, <1>2, <4>1, <4>2, <4>3
    <3>6. Revision(B, i) = page[n].rev /\ (LiveIn(B, i) <=> page[n].live)
      BY <3>1, <3>4, <3>5, LastRowIsState
    <3> QED
      BY <3>3, <3>6 DEF State
  <2> QED
    BY <2>1, <2>2
<1> QED
  BY <1>4 DEF LiveRevisions, State, end

------------------------------------------------------------------------------
(* Bootstrap snapshots. *)

(* The rows of a snapshot, and what they are: for some items, all that are *)
(* live among them, the row that was the current one at the head.          *)
MemberRows(H, t) == {r \in H : r.seq \in t.members}

Snapshot(H, t) ==
    /\ Whole(H, t.head)
    /\ \E J \in SUBSET Items :
          /\ \A i \in J : OfItem(UpTo(H, t.head), i) # {}
          /\ \A i \in Items \ J : ~ LiveIn(UpTo(H, t.head), i)
          /\ t.members = {Current(UpTo(H, t.head), i).seq : i \in J}

(* A snapshot taken under the lock is one (capture). *)
LEMMA SnapshotTaken ==
    ASSUME Sound(changes), NEW id
    PROVE  Snapshot(changes, [id |-> id, head |-> HeadOf(changes), members |-> Members])
<1> DEFINE J == {j \in Items : OfItem(changes, j) # {} /\ (LiveIn(changes, j) \/ j \notin aged)}
           t == [id |-> id, head |-> HeadOf(changes), members |-> Members]
<1>1. t.head = HeadOf(changes) /\ t.members = Members
  OBVIOUS
<1>2. Whole(changes, t.head) /\ UpTo(changes, t.head) = changes
  BY <1>1, HeadIs
<1>3. J \in SUBSET Items /\ (\A i \in J : OfItem(changes, i) # {})
  OBVIOUS
<1>4. \A i \in Items \ J : ~ LiveIn(changes, i)
  BY DEF LiveIn
<1>5. t.members = {Current(changes, i).seq : i \in J}
  BY <1>1 DEF Members
<1> HIDE DEF J, t
<1> QED
  BY <1>2, <1>3, <1>4, <1>5 DEF Snapshot, t

(* Later commits change nothing about a snapshot. *)
LEMMA SnapshotStays ==
    ASSUME NEW H, NEW K, Sound(H), Sound(K), Extends(H, K), NEW t, Snapshot(H, t)
    PROVE  Snapshot(K, t) /\ MemberRows(K, t) = MemberRows(H, t)
<1> DEFINE U == UpTo(H, t.head)
<1>1. Whole(K, t.head) /\ UpTo(K, t.head) = U
  BY PlacesStay DEF Snapshot
<1>2. Snapshot(K, t)
  BY <1>1 DEF Snapshot
<1>3. U \in SUBSET H /\ Sound(U)
  <2>1. U \in SUBSET H
    BY DEF UpTo
  <2> QED
    BY <2>1, SoundPart
<1>4. ASSUME NEW r \in K \ H, r.seq \in t.members PROVE FALSE
  <2>1. PICK i \in Items : OfItem(U, i) # {} /\ r.seq = Current(U, i).seq
    BY <1>4 DEF Snapshot
  <2>2. Current(U, i) \in H
    BY <1>3, <2>1, LastRow
  <2>3. Current(U, i).seq < r.seq /\ r.seq \in Nat
    BY <2>2 DEF Extends, Sound, Keyed
  <2> QED
    BY SMT, <2>1, <2>3
<1>5. MemberRows(K, t) = MemberRows(H, t)
  BY <1>4 DEF MemberRows, Extends
<1> QED
  BY <1>2, <1>5

(* A member for every live item, the last row of the item at the head, and *)
(* as many rows as members.                                                *)
LEMMA SnapshotRows ==
    ASSUME NEW H, Sound(H), NEW t, Snapshot(H, t),
           NEW s, s = InOrder(MemberRows(H, t)), NEW U, U = UpTo(H, t.head)
    PROVE  /\ s \in Seq(H) /\ Len(s) = Cardinality(t.members)
           /\ \A n \in 1 .. Len(s) :
                 /\ s[n] \in U /\ s[n].item \in Items
                 /\ \A q \in U : q.item = s[n].item => q.seq <= s[n].seq
           /\ \A m, n \in 1 .. Len(s) : s[m].item = s[n].item => m = n
           /\ \A i \in Items : LiveIn(U, i) => \E n \in 1 .. Len(s) : s[n].item = i
<1> DEFINE R == MemberRows(H, t)
<1>1. R \in SUBSET H /\ U \in SUBSET H /\ Keyed(R) /\ Sound(U)
  <2>1. R \in SUBSET H /\ U \in SUBSET H
    BY DEF MemberRows, UpTo
  <2> QED
    BY <2>1, SoundPart
<1>2. /\ s \in Seq(R) /\ Len(s) = Cardinality(R)
      /\ \A n \in 1 .. Len(s) : s[n] \in R
      /\ \A m, n \in 1 .. Len(s) : m < n => s[m].seq < s[n].seq
      /\ \A r \in R : \E n \in 1 .. Len(s) : s[n] = r
  BY <1>1, InOrderIs
<1>3. PICK J \in SUBSET Items :
          /\ \A i \in J : OfItem(U, i) # {}
          /\ \A i \in Items \ J : ~ LiveIn(U, i)
          /\ t.members = {Current(U, i).seq : i \in J}
  BY DEF Snapshot
<1>4. ASSUME NEW i \in J
      PROVE  /\ Current(U, i) \in R /\ Current(U, i) \in U /\ Current(U, i).item = i
             /\ \A q \in U : q.item = i => q.seq <= Current(U, i).seq
  <2>1. /\ Current(U, i) \in U /\ Current(U, i).item = i
        /\ \A q \in U : q.item = i => q.seq <= Current(U, i).seq
    BY <1>1, <1>3, LastRow
  <2>2. Current(U, i).seq \in t.members
    BY <1>3
  <2> QED
    BY <1>1, <2>1, <2>2 DEF MemberRows
<1>5. ASSUME NEW r \in R PROVE \E i \in J : r = Current(U, i)
  <2>1. PICK i \in J : r.seq = Current(U, i).seq
    BY <1>3 DEF MemberRows
  <2> QED
    BY <1>1, <1>4, <2>1 DEF Keyed
<1> HIDE DEF R
<1>6. Len(s) \in Nat /\ s \in Seq(H)
  BY SMT, <1>1, <1>2
<1>7. Len(s) = Cardinality(t.members)
  <2> DEFINE f == [r \in R |-> r.seq]
  <2>1. f \in Bijection(R, t.members)
    <3>1. \A r \in R : r.seq \in t.members
      BY DEF R, MemberRows
    <3>2. \A q, r \in R : q.seq = r.seq => q = r
      BY <1>1 DEF Keyed
    <3>3. \A x \in t.members : \E r \in R : r.seq = x
      BY <1>3, <1>4
    <3> QED
      BY <3>1, <3>2, <3>3 DEF Bijection, Injection, Surjection, IsInjective
  <2>2. IsFiniteSet(R)
    BY <1>1, FiniteRows
  <2> HIDE DEF f
  <2> QED
    BY <1>2, <2>1, <2>2, FS_Bijection DEF ExistsBijection
<1>8. ASSUME NEW n \in 1 .. Len(s)
      PROVE  /\ s[n] \in U /\ s[n].item \in Items
             /\ \A q \in U : q.item = s[n].item => q.seq <= s[n].seq
  <2>1. PICK i \in J : s[n] = Current(U, i)
    BY <1>2, <1>5
  <2> QED
    BY SMT, <1>4, <2>1
<1>9. ASSUME NEW m \in 1 .. Len(s), NEW n \in 1 .. Len(s), s[m].item = s[n].item PROVE m = n
  <2>1. s[m].seq <= s[n].seq /\ s[n].seq <= s[m].seq
    BY <1>8, <1>9
  <2>2. s[m].seq \in Nat /\ s[n].seq \in Nat
    BY <1>1, <1>2 DEF Keyed
  <2>3. (m < n => s[m].seq < s[n].seq) /\ (n < m => s[n].seq < s[m].seq)
    BY <1>2
  <2> QED
    BY SMT, <1>6, <2>1, <2>2, <2>3
<1>10. ASSUME NEW i \in Items, LiveIn(U, i) PROVE \E n \in 1 .. Len(s) : s[n].item = i
  <2>1. i \in J
    BY <1>3, <1>10
  <2>2. Current(U, i) \in R /\ Current(U, i).item = i
    BY <1>4, <2>1
  <2> QED
    BY SMT, <1>2, <2>2
<1> QED
  BY <1>6, <1>7, <1>8, <1>9, <1>10

(* The first n members have been copied, and nothing else. *)
Copied(s, n, w) ==
    /\ n \in 0 .. Len(s)
    /\ \A m \in 1 .. n : w[s[m].item] = [rev |-> s[m].rev, live |-> s[m].live]
    /\ \A i \in Items : (\A m \in 1 .. n : s[m].item # i) => w[i] = Unknown

(* A client that has copied all members has the state at the head. *)
LEMMA AllCopied ==
    ASSUME NEW H, Sound(H), NEW t, Snapshot(H, t), NEW w,
           Copied(InOrder(MemberRows(H, t)), Cardinality(t.members), w)
    PROVE  LiveRevisions(w) = State(UpTo(H, t.head))
<1> DEFINE s == InOrder(MemberRows(H, t))
           U == UpTo(H, t.head)
<1>0. s = InOrder(MemberRows(H, t)) /\ U = UpTo(H, t.head)
  OBVIOUS
<1> HIDE DEF s, U
<1>1. /\ s \in Seq(H) /\ Len(s) = Cardinality(t.members)
      /\ \A n \in 1 .. Len(s) :
            /\ s[n] \in U /\ s[n].item \in Items
            /\ \A q \in U : q.item = s[n].item => q.seq <= s[n].seq
      /\ \A i \in Items : LiveIn(U, i) => \E n \in 1 .. Len(s) : s[n].item = i
  BY SMT, <1>0, SnapshotRows
<1>2. Sound(U)
  <2>1. U \in SUBSET H
    BY DEF U, UpTo
  <2> QED
    BY <2>1, SoundPart
<1>3. /\ \A m \in 1 .. Len(s) : w[s[m].item] = [rev |-> s[m].rev, live |-> s[m].live]
      /\ \A i \in Items : (\A m \in 1 .. Len(s) : s[m].item # i) => w[i] = Unknown
  BY <1>1 DEF Copied, s
<1>4. ASSUME NEW i \in Items PROVE LiveRevisions(w)[i] = State(U)[i]
  <2>1. CASE \A m \in 1 .. Len(s) : s[m].item # i
    <3>1. ~ LiveIn(U, i) /\ w[i] = Unknown
      BY <1>1, <1>3, <2>1
    <3> QED
      BY SMT, <3>1 DEF LiveRevisions, State, Unknown
  <2>2. CASE \E m \in 1 .. Len(s) : s[m].item = i
    <3>1. PICK m \in 1 .. Len(s) : s[m].item = i
      BY <2>2
    <3>2. w[i] = [rev |-> s[m].rev, live |-> s[m].live]
      BY <1>3, <3>1
    <3>3. Revision(U, i) = s[m].rev /\ (LiveIn(U, i) <=> s[m].live)
      BY <1>1, <1>2, <3>1, LastRowIsState
    <3> QED
      BY SMT, <3>2, <3>3 DEF LiveRevisions, State
  <2> QED
    BY <2>1, <2>2
<1> QED
  BY <1>4 DEF LiveRevisions, State, U

------------------------------------------------------------------------------
(* Recorded rows, and bootstrap pages. *)

(* No revision of an item exceeds the current one. *)
LEMMA RevisionIs ==
    ASSUME NEW H, Sound(H), NEW i
    PROVE  Revision(H, i) \in Nat /\ \A q \in H : q.item = i => q.rev <= Revision(H, i)
<1> DEFINE S == {q.rev : q \in OfItem(H, i)} \cup {0}
<1>1. PICK b \in Nat : \A q \in H : q.rev <= b
  BY DEF Sound
<1>2. S \in SUBSET Nat /\ S # {} /\ \A y \in S : y <= b
  BY SMT, <1>1 DEF OfItem, Sound
<1>3. Max(S) \in S /\ \A y \in S : y <= Max(S)
  <2> HIDE DEF S
  <2> QED
    BY <1>2, GreatestNumber
<1>4. \A q \in H : q.item = i => q.rev \in S
  BY DEF OfItem
<1>5. Revision(H, i) = Max(S)
  BY DEF Revision
<1> HIDE DEF S
<1> QED
  BY <1>2, <1>3, <1>4, <1>5

(* A recorded row keeps a history sound: it comes last, with the next      *)
(* revision of its item, in a group that no other exceeds                  *)
(* (record_mutation).                                                      *)
LEMMA RecordedIsSound ==
    ASSUME NEW H, Sound(H), NEW n, n.seq \in Nat \ {0}, \A q \in H : q.seq < n.seq,
           n.rev = Revision(H, n.item) + 1, n.group \in Nat,
           \A q \in H : q.group # None => q.group <= n.group
    PROVE  Sound(H \cup {n})
<1> DEFINE K == H \cup {n}
<1>0. /\ Revision(H, n.item) \in Nat /\ n.rev \in Nat
      /\ \A q \in H : q.seq \in Nat /\ q.rev \in Nat /\ (q.item = n.item => q.rev < n.rev)
  <2>1. Revision(H, n.item) \in Nat /\ \A q \in H : q.item = n.item => q.rev <= Revision(H, n.item)
    BY RevisionIs
  <2>2. \A q \in H : q.seq \in Nat /\ q.rev \in Nat
    BY DEF Sound, Keyed
  <2> QED
    BY SMT, <2>1, <2>2
<1>1. Keyed(K)
  <2>1. \A q, r \in K : q.seq = r.seq => q = r
    BY SMT, <1>0 DEF Sound, Keyed
  <2>2. \A r \in K : r.seq \in Nat /\ r.seq <= n.seq
    BY SMT, <1>0
  <2> QED
    BY <2>1, <2>2 DEF Keyed
<1>2. \A r \in K : r.seq # 0 /\ r.rev \in Nat /\ (r.group # None => r.group \in Nat)
  BY <1>0 DEF Sound
<1>3. \E b \in Nat : \A r \in K : r.rev <= b
  <2>1. PICK b \in Nat : \A r \in H : r.rev <= b
    BY DEF Sound
  <2>2. b + n.rev \in Nat /\ \A r \in K : r.rev <= b + n.rev
    BY SMT, <1>0, <2>1
  <2> QED
    BY <2>2
<1>4. ASSUME NEW q \in K, NEW r \in K, q.item = r.item, q.seq < r.seq PROVE q.rev < r.rev
  <2>1. q \in H
    BY SMT, <1>0, <1>4
  <2>2. CASE r \in H
    BY <1>4, <2>1, <2>2 DEF Sound
  <2>3. CASE r = n
    BY <1>0, <1>4, <2>1, <2>3
  <2> QED
    BY <2>2, <2>3
<1>5. ASSUME NEW q \in K, NEW r \in K, q.seq < r.seq, q.group # None
      PROVE  r.group # None /\ q.group <= r.group
  <2>1. q \in H
    BY SMT, <1>0, <1>5
  <2>2. CASE r \in H
    BY <1>5, <2>1, <2>2 DEF Sound
  <2>3. CASE r = n
    BY <1>5, <2>1, <2>3, DeltaAssumption
  <2> QED
    BY <2>2, <2>3
<1> QED
  BY <1>1, <1>2, <1>3, <1>4, <1>5 DEF Sound

(* An identifier that nothing refers to is left for a new snapshot. *)
LEMMA FreshIdIs ==
    ASSUME IsFiniteSet(tickets), Cardinality(tickets) < MaxTickets
    PROVE  (\A t \in tickets : t.id # FreshId) /\ (\A c \in Clients : ticket[c] # FreshId)
<1> DEFINE A == {t.id : t \in tickets}
           B == {ticket[c] : c \in Clients}
           f == [t \in tickets |-> t.id]
           g == [c \in Clients |-> ticket[c]]
<1>1. IsFiniteSet(A) /\ Cardinality(A) <= Cardinality(tickets)
  <2>1. f \in Surjection(tickets, A)
    BY DEF Surjection
  <2> HIDE DEF f, A
  <2> QED
    BY <2>1, FS_Surjection
<1>2. IsFiniteSet(B) /\ Cardinality(B) <= Cardinality(Clients)
  <2>1. g \in Surjection(Clients, B)
    BY DEF Surjection
  <2> HIDE DEF g, B
  <2> QED
    BY <2>1, FS_Surjection, DeltaAssumption
<1> HIDE DEF A, B
<1>3. /\ Cardinality(A) \in Nat /\ Cardinality(B) \in Nat
      /\ Cardinality(tickets) \in Nat /\ Cardinality(Clients) \in Nat
  BY <1>1, <1>2, DeltaAssumption, FS_CardinalityType
<1>4. IsFiniteSet(A \cup B) /\ Cardinality(A \cup B) <= Cardinality(A) + Cardinality(B)
  <2>1. /\ IsFiniteSet(A \cup B) /\ IsFiniteSet(A \cap B)
        /\ Cardinality(A \cup B) = Cardinality(A) + Cardinality(B) - Cardinality(A \cap B)
    BY <1>1, <1>2, FS_Union, FS_Intersection
  <2>2. Cardinality(A \cap B) \in Nat
    BY <2>1, FS_CardinalityType
  <2> QED
    BY SMT, <1>3, <2>1, <2>2
<1>5. Cardinality(TicketIds) = MaxTickets + Cardinality(Clients) /\ TicketIds \subseteq Nat
  <2> DEFINE m == MaxTickets + Cardinality(Clients)
  <2>1. m \in Nat /\ TicketIds = 1 .. m
    BY SMT, <1>3, DeltaAssumption DEF TicketIds
  <2> HIDE DEF m
  <2>2. Cardinality(1 .. m) = IF 1 > m THEN 0 ELSE m - 1 + 1
    BY SMT, <2>1, FS_Interval
  <2>3. Cardinality(TicketIds) = m /\ TicketIds \subseteq Nat
    BY SMT, <2>1, <2>2
  <2> QED
    BY <2>3 DEF m
<1>6. TicketIds \ (A \cup B) # {}
  <2>1. ASSUME TicketIds \ (A \cup B) = {} PROVE FALSE
    <3>1. TicketIds \in SUBSET (A \cup B)
      BY <2>1
    <3>2. Cardinality(TicketIds) <= Cardinality(A \cup B) /\ Cardinality(A \cup B) \in Nat
      BY <1>4, <3>1, FS_Subset, FS_CardinalityType
    <3> QED
      BY SMT, <1>1, <1>2, <1>3, <1>4, <1>5, <3>2, DeltaAssumption
  <2> QED
    BY <2>1
<1>7. FreshId \in TicketIds \ (A \cup B)
  <2>1. TicketIds \ (A \cup B) \in SUBSET Nat
    BY <1>5
  <2>2. FreshId = Min(TicketIds \ (A \cup B))
    BY DEF FreshId, A, B
  <2> QED
    BY <1>6, <2>1, <2>2, LeastNumber
<1> QED
  BY <1>7 DEF A, B

(* A bootstrap page is cut from the members that are left. *)
LEMMA BootstrapPrefixIs ==
    ASSUME NEW sizes, Len(sizes) \in Nat
    PROVE  BootstrapPrefix(sizes, RowCap) \in {TooLarge} \cup 0 .. Len(sizes)
<1> DEFINE last == Min({Len(sizes), RowCap})
           S == {0} \cup {n \in 1 .. last : Bytes(sizes, 1, n) <= PageBytes}
<1>1. last \in 0 .. Len(sizes)
  <2>1. {Len(sizes), RowCap} \in SUBSET Nat /\ {Len(sizes), RowCap} # {}
    BY DeltaAssumption
  <2>2. last \in {Len(sizes), RowCap} /\ \A y \in {Len(sizes), RowCap} : last <= y
    BY <2>1, LeastNumber
  <2> HIDE DEF last
  <2> QED
    BY SMT, <2>1, <2>2
<1> HIDE DEF last
<1>2. S \in SUBSET Nat /\ S # {} /\ last \in Nat /\ \A y \in S : y <= last
  BY SMT, <1>1
<1>3. Max(S) \in S
  <2> HIDE DEF S
  <2> QED
    BY <1>2, GreatestNumber
<1>4. Max(S) \in 0 .. Len(sizes)
  BY SMT, <1>1, <1>3
<1>5. BootstrapPrefix(sizes, RowCap) \in {TooLarge, Max(S)}
  BY DEF BootstrapPrefix, last
<1> QED
  BY <1>4, <1>5

(* A page of a snapshot holds the members after the ones that were copied  *)
(* (read_page).                                                            *)
LEMMA BootstrapPageIs ==
    ASSUME NEW t, NEW s, s = InOrder(MemberRows(changes, t)), NEW R, s \in Seq(R),
           NEW from \in 0 .. Len(s)
    PROVE  LET page == BootstrapPage(t, from)
           IN  /\ page \in Seq(R) /\ from + Len(page) \in 0 .. Len(s)
               /\ \A n \in 1 .. Len(page) : page[n] = s[from + n]
<1> DEFINE left == SubSeq(s, from + 1, Len(s))
           p == BootstrapPrefix(SizesOf(left), RowCap)
           page == SubSeq(left, 1, p)
<1>0. Len(s) \in Nat /\ \A n \in 1 .. Len(s) : s[n] \in R
  BY SMT
<1>1. BootstrapPage(t, from) = page
  BY DEF BootstrapPage, MemberRows
<1>2. /\ left \in Seq(R) /\ Len(left) = Len(s) - from
      /\ \A n \in 1 .. Len(left) : left[n] = s[from + n]
  <2>1. /\ left \in Seq(R)
        /\ Len(left) = IF from + 1 <= Len(s) THEN Len(s) - (from + 1) + 1 ELSE 0
        /\ \A n \in 1 .. Len(s) - (from + 1) + 1 : left[n] = s[from + 1 + n - 1]
    BY SMT, <1>0
  <2> HIDE DEF left
  <2>2. Len(left) = Len(s) - from
    BY SMT, <1>0, <2>1
  <2>3. ASSUME NEW n \in 1 .. Len(left) PROVE left[n] = s[from + n]
    <3>1. n \in 1 .. Len(s) - (from + 1) + 1 /\ from + 1 + n - 1 = from + n
      BY SMT, <1>0, <2>2
    <3> QED
      BY <2>1, <3>1
  <2> QED
    BY <2>1, <2>2, <2>3
<1> HIDE DEF left
<1>3. p \in {TooLarge} \cup 0 .. Len(left)
  <2>1. Len(left) \in Nat /\ DOMAIN left = 1 .. Len(left)
    BY SMT, <1>2
  <2>2. SizesOf(left) = [n \in 1 .. Len(left) |-> left[n].size]
    BY <2>1 DEF SizesOf
  <2>3. Len(SizesOf(left)) = Len(left)
    BY SMT, <2>1, <2>2
  <2> QED
    BY <2>1, <2>3, BootstrapPrefixIs
<1> HIDE DEF p
<1>4. /\ page \in Seq(R) /\ Len(page) \in 0 .. Len(left)
      /\ \A n \in 1 .. Len(page) : page[n] = left[n]
  <2>1. p \in -1 .. Len(left) /\ Len(left) \in Nat
    BY SMT, <1>0, <1>2, <1>3 DEF TooLarge
  <2>2. /\ page \in Seq(R)
        /\ Len(page) = IF 1 <= p THEN p - 1 + 1 ELSE 0
        /\ \A n \in 1 .. p - 1 + 1 : page[n] = left[1 + n - 1]
    BY SMT, <1>2, <2>1
  <2> HIDE DEF page
  <2>3. \A n \in 1 .. Len(page) : n \in 1 .. p - 1 + 1 /\ 1 + n - 1 = n
    BY SMT, <2>1, <2>2
  <2> QED
    BY SMT, <2>1, <2>2, <2>3
<1> HIDE DEF page
<1>5. from + Len(page) \in 0 .. Len(s)
  BY SMT, <1>0, <1>2, <1>4
<1>6. \A n \in 1 .. Len(page) : page[n] = s[from + n]
  <2>1. \A n \in 1 .. Len(page) : n \in 1 .. Len(left)
    BY SMT, <1>0, <1>2, <1>4
  <2> QED
    BY <1>2, <1>4, <2>1
<1> QED
  BY <1>1, <1>4, <1>5, <1>6

(* A client that applies the page has copied that much more. *)
LEMMA PageCopied ==
    ASSUME NEW R, NEW s \in Seq(R),
           \A n \in 1 .. Len(s) : s[n].item \in Items,
           \A m, n \in 1 .. Len(s) : s[m].item = s[n].item => m = n,
           NEW c, NEW from, Copied(s, from, work[c]),
           NEW page \in Seq(R), from + Len(page) \in 0 .. Len(s),
           \A n \in 1 .. Len(page) : page[n] = s[from + n]
    PROVE  Copied(s, from + Len(page), Applied(c, page))
<1> DEFINE L == Len(page)
           w == Applied(c, page)
<1>0. Len(s) \in Nat /\ L \in Nat /\ from \in 0 .. Len(s)
  BY SMT DEF Copied
<1>n. \A n \in 1 .. L : from + n \in 1 .. Len(s)
  BY SMT, <1>0
<1>1. ASSUME NEW m \in 1 .. from + L PROVE w[s[m].item] = [rev |-> s[m].rev, live |-> s[m].live]
  <2>0. m \in 1 .. Len(s) /\ s[m].item \in Items
    BY SMT, <1>0
  <2>1. CASE m <= from
    <3>1. \A n \in 1 .. L : page[n].item # s[m].item
      <4>1. \A n \in 1 .. L : from + n # m
        BY SMT, <1>0, <2>1
      <4> QED
        BY <1>n, <2>0, <4>1
    <3>2. ASSUME NEW i \in Items, i = s[m].item PROVE w[i] = work[c][i]
      <4>1. \A n \in 1 .. L : page[n].item # i
        BY <3>1, <3>2
      <4> QED
        BY SMT, <4>1, AppliedIs
    <3>3. m \in 1 .. from
      BY SMT, <1>0, <2>1
    <3> QED
      BY <2>0, <3>2, <3>3 DEF Copied
  <2>2. CASE ~ (m <= from)
    <3>1. m - from \in 1 .. L /\ from + (m - from) = m
      BY SMT, <1>0, <2>2
    <3>2. page[m - from] = s[m]
      BY <3>1
    <3>3. ASSUME NEW k \in 1 .. L, page[k].item = s[m].item PROVE k <= m - from
      <4>1. from + k = m
        BY <1>n, <2>0, <3>3
      <4> QED
        BY SMT, <1>0, <4>1
    <3> DEFINE n == m - from
    <3>4. /\ n \in 1 .. L /\ page[n] = s[m] /\ page[n].item = s[m].item
          /\ \A k \in 1 .. L : page[k].item = s[m].item => k <= n
      BY <3>1, <3>2, <3>3
    <3> HIDE DEF n
    <3>5. ASSUME NEW i \in Items, i = s[m].item
          PROVE  w[i] = [rev |-> page[n].rev, live |-> page[n].live]
      <4>1. /\ n \in 1 .. L /\ page[n].item = i
            /\ \A k \in 1 .. L : page[k].item = i => k <= n
        BY <3>4, <3>5
      <4> QED
        BY SMT, <4>1, AppliedIs
    <3> QED
      BY <2>0, <3>4, <3>5
  <2> QED
    BY <2>1, <2>2
<1>2. ASSUME NEW i \in Items, \A m \in 1 .. from + L : s[m].item # i PROVE w[i] = Unknown
  <2>1. /\ \A n \in 1 .. L : from + n \in 1 .. from + L
        /\ \A m \in 1 .. from : m \in 1 .. from + L
    BY SMT, <1>0
  <2>2. \A n \in 1 .. L : page[n].item # i
    BY <1>2, <2>1
  <2>3. w[i] = work[c][i]
    BY SMT, <2>2, AppliedIs
  <2> QED
    BY <1>2, <2>1, <2>3 DEF Copied
<1> QED
  BY <1>1, <1>2 DEF Copied

==============================================================================

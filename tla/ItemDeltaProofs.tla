--------------------------- MODULE ItemDeltaProofs ---------------------------
(***************************************************************************)
(* What ItemDelta guarantees, for any number of writers, items, groups and *)
(* clients.  The writers: the history grows at its end, and every group in *)
(* it is a run of rows that fits a page.  The readers: what a client has   *)
(* persisted is the state at its cursor, and no cursor divides a group.    *)
(***************************************************************************)
EXTENDS ItemHistoryProofs

(* Zenon does the leaves; SMT is named where one needs arithmetic. *)
USE Zenon

(* One transaction at a time holds the lock, and only it has written rows. *)
LockInv ==
    /\ holders \subseteq Writers
    /\ \A v, w \in holders : v = w
    /\ written = [w \in Writers |-> written[w]]
    /\ group \in [Writers -> Nat \cup {None}]
    /\ \A w \in Writers \ holders : written[w] = {} /\ group[w] = None

(* Numbers are handed out in order, and what a transaction writes comes    *)
(* after all that is committed.                                            *)
NumberInv ==
    /\ next \in Nat \ {0}
    /\ \A r \in changes : r.seq \in Nat /\ r.seq < next
    /\ \A w \in Writers : \A r \in written[w] :
           /\ r.seq \in Nat
           /\ r.seq < next
           /\ \A q \in changes : q.seq < r.seq

Fits(R) == Cardinality(R) <= GroupCap /\ StoredBytes(R) <= PageBytes

WrittenGroup(w, g) == {r \in written[w] : r.group = g}

(* Groups are numbered in the order of their rows, rows without a group    *)
(* come first, and every closed group fits.                                *)
CommittedInv ==
    /\ \A r \in changes : r.group # None => r.group \in Nat /\ r.group < next
    /\ \A q, r \in changes :
           q.seq < r.seq /\ q.group # None => r.group # None /\ q.group <= r.group
    /\ \A g \in Nat : CommittedGroup(g) # {} => Fits(CommittedGroup(g))

(* The same for the rows of a transaction, whose last group may be open.   *)
WrittenInv ==
    \A w \in Writers :
        /\ group[w] # None =>
               /\ group[w] <= next
               /\ \A q \in changes : q.group # None => q.group < group[w]
        /\ \A r \in written[w] :
               /\ r.group \in Nat
               /\ r.group < next
               /\ group[w] # None => r.group <= group[w]
               /\ \A q \in changes : q.group # None => q.group < r.group
        /\ \A q, r \in written[w] : q.seq < r.seq => q.group <= r.group
        /\ \A g \in Nat : g # group[w] /\ WrittenGroup(w, g) # {} => Fits(WrittenGroup(w, g))

IInv == LockInv /\ NumberInv /\ CommittedInv /\ WrittenInv

------------------------------------------------------------------------------
(* The initial history has no groups and no transaction is under way       *)
(* (workspaces older than change groups).                                  *)
LEMMA InitIInv == Init => IInv
<1> SUFFICES ASSUME Init PROVE IInv
    OBVIOUS
<1>1. \A r \in changes : r.seq \in Nat /\ r.group = None
    BY SMT, DeltaAssumption DEF Init, Ungrouped, Row, Seqs
<1>2. LockInv
    BY DEF Init, LockInv
<1>3. NumberInv
    BY SMT, <1>1, DeltaAssumption DEF Init, NumberInv
<1>4. CommittedInv
    BY <1>1, DeltaAssumption DEF Init, CommittedInv, CommittedGroup
<1>5. WrittenInv
    BY <1>1 DEF Init, WrittenInv, WrittenGroup
<1>6. QED
    BY <1>2, <1>3, <1>4, <1>5 DEF IInv

(* Clients, tickets and time change nothing that writers own (delta,       *)
(* bootstrap and the client only read the history).                        *)
LEMMA ReadersOnlyRead ==
    Next => (\E w \in Writers : WriterStep(w)) \/ OtherWorkspace \/ UNCHANGED writerVars
BY DEF Next, Read, Age, BeginRefresh, Lose, Expire, DeltaHead, DeltaRows, DeltaCheck,
       DeltaDeliver, BootstrapFirst, BootstrapFull, BootstrapMore, BootstrapExpired

(* A step without a writer keeps the invariant. *)
LEMMA QuietStep ==
    IInv /\ UNCHANGED writerVars => IInv'
BY SMT DEF IInv, LockInv, NumberInv, CommittedInv, WrittenInv, CommittedGroup, WrittenGroup,
       writerVars

(* Another workspace only takes a number (the identity column is shared). *)
LEMMA OtherStep ==
    IInv /\ OtherWorkspace => IInv'
<1> SUFFICES ASSUME IInv, OtherWorkspace PROVE IInv'
    OBVIOUS
<1> USE DEF IInv
<1>1. next' = next + 1 /\ UNCHANGED <<changes, holders, written, group>>
    BY DEF OtherWorkspace
<1>2. LockInv'
    BY <1>1 DEF LockInv
<1>3. NumberInv'
    BY SMT, <1>1 DEF NumberInv
<1>4. CommittedInv'
    BY SMT, <1>1 DEF CommittedInv, CommittedGroup, NumberInv
<1>5. WrittenInv'
    BY SMT, <1>1 DEF WrittenInv, WrittenGroup, NumberInv, LockInv
<1>6. QED
    BY <1>2, <1>3, <1>4, <1>5

(* Taking the lock, when nobody has it, changes nothing else               *)
(* (lock_workspace_items).                                                 *)
LEMMA LockStep ==
    ASSUME NEW w \in Writers, IInv, Lock(w) PROVE IInv'
<1> USE DEF IInv
<1>1. holders = {} /\ holders' = {w} /\ UNCHANGED <<changes, next, written, group>>
    BY DEF Lock
<1>2. LockInv'
    BY <1>1 DEF LockInv
<1>3. NumberInv'
    BY <1>1 DEF NumberInv
<1>4. CommittedInv'
    BY <1>1 DEF CommittedInv, CommittedGroup
<1>5. WrittenInv'
    BY <1>1 DEF WrittenInv, WrittenGroup
<1>6. QED
    BY <1>2, <1>3, <1>4, <1>5

(* A new group is numbered above every group there is                      *)
(* (start_item_change_group_tx: a fresh identifier).                       *)
LEMMA StartGroupStep ==
    ASSUME NEW w \in Writers, IInv, StartGroup(w) PROVE IInv'
<1> USE DEF IInv
<1>1. /\ w \in holders
      /\ group[w] = None
      /\ group' = [group EXCEPT ![w] = next]
      /\ UNCHANGED <<changes, next, holders, written>>
    BY DEF StartGroup
<1>2. LockInv'
    BY <1>1 DEF LockInv, NumberInv
<1>3. NumberInv'
    BY <1>1 DEF NumberInv
<1>4. CommittedInv'
    BY <1>1 DEF CommittedInv, CommittedGroup
<1>5. WrittenInv'
    <2> SUFFICES ASSUME NEW x \in Writers
                 PROVE  /\ group'[x] # None =>
                               /\ group'[x] <= next
                               /\ \A q \in changes : q.group # None => q.group < group'[x]
                        /\ \A r \in written[x] :
                               /\ r.group \in Nat
                               /\ r.group < next
                               /\ group'[x] # None => r.group <= group'[x]
                               /\ \A q \in changes : q.group # None => q.group < r.group
                        /\ \A q, r \in written[x] : q.seq < r.seq => q.group <= r.group
                        /\ \A g \in Nat : g # group'[x] /\ WrittenGroup(x, g) # {}
                                              => Fits(WrittenGroup(x, g))
        BY <1>1 DEF WrittenInv, WrittenGroup
    <2>1. CASE x = w
        <3>1. group'[x] = next
            BY <1>1, <2>1 DEF LockInv
        <3>2. group[x] = None
            BY <1>1, <2>1
        <3>3. \A g \in Nat : WrittenGroup(x, g) # {} => Fits(WrittenGroup(x, g))
            BY <3>2, DeltaAssumption DEF WrittenInv
        <3>4. QED
            BY SMT, <3>1, <3>3 DEF WrittenInv, CommittedInv, NumberInv
    <2>2. CASE x # w
        <3>1. group'[x] = group[x]
            BY <1>1, <2>2 DEF LockInv
        <3>2. QED
            BY <3>1 DEF WrittenInv
    <2>3. QED
        BY <2>1, <2>2
<1>6. QED
    BY <1>2, <1>3, <1>4, <1>5

(* A recorded row takes the next number and belongs to the open group      *)
(* (record_mutation).                                                      *)
LEMMA RecordStep ==
    ASSUME NEW w \in Writers, NEW i \in Items, NEW live \in BOOLEAN, NEW size \in Sizes,
           IInv, Record(w, i, live, size)
    PROVE  IInv'
<1> USE DEF IInv
<1>1. PICK n : /\ n.seq = next
               /\ n.group = group[w]
               /\ written' = [written EXCEPT ![w] = @ \cup {n}]
    BY DEF Record
<1>2. /\ w \in holders
      /\ group[w] # None
      /\ next' = next + 1
      /\ UNCHANGED <<changes, holders, group>>
    BY DEF Record
<1>3. group[w] \in Nat /\ next \in Nat
    BY <1>2 DEF LockInv, NumberInv
<1>4. written'[w] = written[w] \cup {n}
    BY <1>1 DEF LockInv
<1>5. \A x \in Writers : x # w => written'[x] = written[x]
    BY <1>1 DEF LockInv
<1>6. LockInv'
    BY <1>1, <1>2 DEF LockInv
<1>7. NumberInv'
    BY SMT, <1>1, <1>2, <1>3, <1>4, <1>5 DEF NumberInv
<1>8. CommittedInv'
    BY SMT, <1>2, <1>3 DEF CommittedInv, CommittedGroup
<1>9. WrittenInv'
    <2> SUFFICES ASSUME NEW x \in Writers
                 PROVE  /\ group[x] # None =>
                               /\ group[x] <= next'
                               /\ \A q \in changes : q.group # None => q.group < group[x]
                        /\ \A r \in written'[x] :
                               /\ r.group \in Nat
                               /\ r.group < next'
                               /\ group[x] # None => r.group <= group[x]
                               /\ \A q \in changes : q.group # None => q.group < r.group
                        /\ \A q, r \in written'[x] : q.seq < r.seq => q.group <= r.group
                        /\ \A g \in Nat :
                               LET G == {r \in written'[x] : r.group = g}
                               IN  g # group[x] /\ G # {} => Fits(G)
        BY <1>2 DEF WrittenInv, WrittenGroup
    <2>1. CASE x = w
        <3>1. group[x] <= next' /\ \A q \in changes : q.group # None => q.group < group[x]
            BY SMT, <1>2, <1>3, <2>1 DEF WrittenInv, LockInv
        <3>2. \A r \in written[w] : /\ r.group \in Nat
                                    /\ r.group < next
                                    /\ r.group <= group[w]
                                    /\ \A q \in changes : q.group # None => q.group < r.group
            BY <1>2 DEF WrittenInv
        <3>3. \A r \in written'[x] : /\ r.group \in Nat
                                     /\ r.group < next'
                                     /\ r.group <= group[x]
                                     /\ \A q \in changes : q.group # None => q.group < r.group
            <4> TAKE r \in written'[x]
            <4>1. CASE r \in written[w]
                BY SMT, <4>1, <3>2, <1>2, <1>3, <2>1
            <4>2. CASE r = n
                BY SMT, <4>2, <3>1, <1>1, <1>2, <1>3, <2>1 DEF WrittenInv
            <4>3. QED
                BY <4>1, <4>2, <1>4, <2>1
        <3>4. \A q, r \in written'[x] : q.seq < r.seq => q.group <= r.group
            BY SMT, <1>1, <1>3, <1>4, <2>1, <3>2 DEF WrittenInv, NumberInv
        <3>5. \A g \in Nat :
                  LET G == {r \in written'[x] : r.group = g}
                  IN  g # group[x] /\ G # {} => Fits(G)
            <4> SUFFICES ASSUME NEW g \in Nat, g # group[x]
                         PROVE  {r \in written'[x] : r.group = g} = WrittenGroup(w, g)
                BY <2>1 DEF WrittenInv
            <4>1. QED
                BY <1>1, <1>4, <2>1 DEF WrittenGroup
        <3>6. QED
            BY <3>1, <3>3, <3>4, <3>5
    <2>2. CASE x # w
        <3>1. x \notin holders
            BY <1>2, <2>2 DEF LockInv
        <3>2. group[x] = None /\ written'[x] = {}
            BY <3>1, <2>2, <1>5 DEF LockInv
        <3>3. QED
            BY <3>2
    <2>3. QED
        BY <2>1, <2>2
<1>10. QED
    BY <1>6, <1>7, <1>8, <1>9

(* A group is closed only when it fits (validate_item_change_group_tx). *)
LEMMA CloseGroupStep ==
    ASSUME NEW w \in Writers, IInv, CloseGroup(w) PROVE IInv'
<1> USE DEF IInv
<1>1. /\ group[w] # None
      /\ Fits(WrittenGroup(w, group[w]))
      /\ group' = [group EXCEPT ![w] = None]
      /\ UNCHANGED <<changes, next, holders, written>>
    BY DEF CloseGroup, InGroup, WrittenGroup, Fits
<1>2. LockInv'
    BY <1>1 DEF LockInv
<1>3. NumberInv'
    BY <1>1 DEF NumberInv
<1>4. CommittedInv'
    BY <1>1 DEF CommittedInv, CommittedGroup
<1>5. WrittenInv'
    <2> SUFFICES ASSUME NEW x \in Writers
                 PROVE  /\ group'[x] # None =>
                               /\ group'[x] <= next
                               /\ \A q \in changes : q.group # None => q.group < group'[x]
                        /\ \A r \in written[x] :
                               /\ r.group \in Nat
                               /\ r.group < next
                               /\ group'[x] # None => r.group <= group'[x]
                               /\ \A q \in changes : q.group # None => q.group < r.group
                        /\ \A q, r \in written[x] : q.seq < r.seq => q.group <= r.group
                        /\ \A g \in Nat : g # group'[x] /\ WrittenGroup(x, g) # {}
                                              => Fits(WrittenGroup(x, g))
        BY <1>1 DEF WrittenInv, WrittenGroup
    <2>1. CASE x = w
        <3>1. group'[x] = None
            BY <1>1, <2>1 DEF LockInv
        <3>2. \A g \in Nat : WrittenGroup(x, g) # {} => Fits(WrittenGroup(x, g))
            BY <1>1, <2>1 DEF WrittenInv
        <3>3. QED
            BY <3>1, <3>2 DEF WrittenInv
    <2>2. CASE x # w
        <3>1. group'[x] = group[x]
            BY <1>1, <2>2 DEF LockInv
        <3>2. QED
            BY <3>1 DEF WrittenInv
    <2>3. QED
        BY <2>1, <2>2
<1>6. QED
    BY <1>2, <1>3, <1>4, <1>5

(* A transaction that ends leaves nobody with the lock or unpublished      *)
(* rows, whether it commits or not.                                        *)
LEMMA EndOfTransaction ==
    ASSUME NEW w \in Writers, IInv, w \in holders, EndTx(w)
    PROVE  /\ holders' = {} /\ next' = next
           /\ LockInv'
           /\ \A x \in Writers : written'[x] = {} /\ group'[x] = None
<1> USE DEF IInv
<1>1. /\ holders' = holders \ {w}
      /\ written' = [written EXCEPT ![w] = {}]
      /\ group' = [group EXCEPT ![w] = None]
      /\ next' = next
    BY DEF EndTx
<1>2. holders' = {}
    BY <1>1 DEF LockInv
<1>3. \A x \in Writers : written'[x] = {} /\ group'[x] = None
    <2> TAKE x \in Writers
    <2>1. CASE x = w
        BY <2>1, <1>1 DEF LockInv
    <2>2. CASE x # w
        BY <2>2, <1>1 DEF LockInv
    <2>3. QED
        BY <2>1, <2>2
<1>4. LockInv'
    BY <1>1, <1>2, <1>3 DEF LockInv
<1>5. QED
    BY <1>1, <1>2, <1>3, <1>4

(* A rollback returns no number and publishes no row. *)
LEMMA RollbackStep ==
    ASSUME NEW w \in Writers, IInv, Rollback(w) PROVE IInv'
<1>1. w \in holders /\ EndTx(w) /\ changes' = changes
    BY DEF Rollback
<1>2. /\ next' = next
      /\ LockInv'
      /\ \A x \in Writers : written'[x] = {} /\ group'[x] = None
    BY <1>1, EndOfTransaction
<1>3. NumberInv'
    BY <1>1, <1>2 DEF IInv, NumberInv
<1>4. CommittedInv'
    BY <1>1, <1>2 DEF IInv, CommittedInv, CommittedGroup
<1>5. WrittenInv'
    BY <1>2 DEF WrittenInv, WrittenGroup
<1>6. QED
    BY <1>2, <1>3, <1>4, <1>5 DEF IInv

(* A commit publishes closed groups above all that is committed. *)
LEMMA CommitStep ==
    ASSUME NEW w \in Writers, IInv, Commit(w) PROVE IInv'
<1>1. /\ w \in holders
      /\ group[w] = None
      /\ changes' = changes \cup written[w]
      /\ EndTx(w)
    BY DEF Commit
<1>2. /\ next' = next
      /\ LockInv'
      /\ \A x \in Writers : written'[x] = {} /\ group'[x] = None
    BY <1>1, EndOfTransaction
<1>3. NumberInv'
    BY <1>1, <1>2 DEF IInv, NumberInv
<1>4. CommittedInv'
    <2>1. \A r \in changes' : r.group # None => r.group \in Nat /\ r.group < next'
        BY <1>1, <1>2 DEF IInv, CommittedInv, WrittenInv
    <2>2. ASSUME NEW q \in changes', NEW r \in changes', q.seq < r.seq, q.group # None
          PROVE  r.group # None /\ q.group <= r.group
        <3>1. CASE q \in changes /\ r \in changes
            BY <2>2, <3>1 DEF IInv, CommittedInv
        <3>2. CASE q \in changes /\ r \in written[w]
            <4>1. q.group \in Nat /\ r.group \in Nat /\ q.group < r.group
                BY <2>2, <3>2 DEF IInv, CommittedInv, WrittenInv
            <4>2. QED
                BY SMT, <4>1, DeltaAssumption
        <3>3. CASE q \in written[w] /\ r \in changes
            BY SMT, <2>2, <3>3 DEF IInv, NumberInv
        <3>4. CASE q \in written[w] /\ r \in written[w]
            <4>1. q.group \in Nat /\ r.group \in Nat /\ q.group <= r.group
                BY <2>2, <3>4 DEF IInv, WrittenInv
            <4>2. QED
                BY <4>1, DeltaAssumption
        <3>5. QED
            BY <1>1, <3>1, <3>2, <3>3, <3>4
    <2>3. ASSUME NEW g \in Nat, CommittedGroup(g)' # {}
          PROVE  Fits(CommittedGroup(g)')
        <3>1. CommittedGroup(g)' = CommittedGroup(g) \cup WrittenGroup(w, g)
            BY <1>1 DEF CommittedGroup, WrittenGroup
        <3>2. CommittedGroup(g) = {} \/ WrittenGroup(w, g) = {}
            BY SMT, DeltaAssumption DEF IInv, WrittenInv, CommittedGroup, WrittenGroup
        <3>3. CASE WrittenGroup(w, g) = {}
            BY <2>3, <3>1, <3>3 DEF IInv, CommittedInv
        <3>4. CASE CommittedGroup(g) = {}
            <4>1. g # group[w]
                BY <1>1, DeltaAssumption
            <4>2. WrittenGroup(w, g) # {}
                BY <2>3, <3>1, <3>4
            <4>3. Fits(WrittenGroup(w, g))
                BY <4>1, <4>2 DEF IInv, WrittenInv
            <4>4. QED
                BY <3>1, <3>4, <4>3
        <3>5. QED
            BY <3>2, <3>3, <3>4
    <2>4. QED
        BY <2>1, <2>2, <2>3 DEF CommittedInv
<1>5. WrittenInv'
    BY <1>2 DEF WrittenInv, WrittenGroup
<1>6. QED
    BY <1>2, <1>3, <1>4, <1>5 DEF IInv

(* Every step of the system keeps the invariant. *)
THEOREM Inductive == IInv /\ [Next]_vars => IInv'
<1> SUFFICES ASSUME IInv, [Next]_vars PROVE IInv'
    OBVIOUS
<1>1. CASE UNCHANGED vars
    BY <1>1, QuietStep DEF vars
<1>2. ASSUME NEW w \in Writers, WriterStep(w) PROVE IInv'
    <2>1. CASE Lock(w)
        BY <2>1, LockStep
    <2>2. CASE StartGroup(w)
        BY <2>2, StartGroupStep
    <2>3. CASE \E i \in Items, live \in BOOLEAN, size \in Sizes : Record(w, i, live, size)
        BY <2>3, RecordStep
    <2>4. CASE CloseGroup(w)
        BY <2>4, CloseGroupStep
    <2>5. CASE Commit(w)
        BY <2>5, CommitStep
    <2>6. CASE Rollback(w)
        BY <2>6, RollbackStep
    <2>7. QED
        BY <1>2, <2>1, <2>2, <2>3, <2>4, <2>5, <2>6 DEF WriterStep
<1>3. CASE OtherWorkspace
    BY <1>3, OtherStep
<1>4. CASE UNCHANGED writerVars
    BY <1>4, QuietStep
<1>5. QED
    BY <1>1, <1>2, <1>3, <1>4, ReadersOnlyRead

(* The history of a workspace grows only, and only at its end, for any     *)
(* number of concurrent writers: record_mutation numbers rows under the    *)
(* lock that is held until they are committed.                             *)
THEOREM HistoryGrowsAtItsEnd == Spec => HistoryAppends
<1> DEFINE Appends == /\ changes \subseteq changes'
                      /\ \A q \in changes, r \in changes' \ changes : q.seq < r.seq
<1>1. IInv /\ [Next]_vars => [Appends]_vars
    <2> SUFFICES ASSUME IInv, [Next]_vars PROVE [Appends]_vars
        OBVIOUS
    <2>1. CASE changes' = changes
        BY <2>1
    <2>2. ASSUME NEW w \in Writers, Commit(w) PROVE Appends
        <3>1. changes' = changes \cup written[w]
            BY <2>2 DEF Commit
        <3>2. QED
            BY <3>1 DEF IInv, NumberInv
    <2>3. ASSUME NEW w \in Writers, WriterStep(w) PROVE Appends
        <3>1. Commit(w) \/ changes' = changes
            BY <2>3 DEF WriterStep, Lock, StartGroup, Record, CloseGroup, Rollback
        <3>2. QED
            BY <3>1, <2>2
    <2>4. UNCHANGED vars \/ OtherWorkspace \/ UNCHANGED writerVars => changes' = changes
        BY DEF vars, writerVars, OtherWorkspace
    <2>5. QED
        BY <2>1, <2>3, <2>4, ReadersOnlyRead
<1>2. Spec => []IInv
    BY InitIInv, Inductive, PTL DEF Spec
<1>3. QED
    BY <1>1, <1>2, PTL DEF Spec, HistoryAppends

(* Every committed group is a run of rows that no other row divides, with  *)
(* no more rows and no more bytes than a page may hold                     *)
(* (validate_item_change_group_tx, under the canonical item lock).         *)
THEOREM CommittedGroupsAreSound == Spec => []GroupsAreSound
<1>1. IInv => GroupsAreSound
    <2> SUFFICES ASSUME IInv, NEW h \in changes, h.group # None
                 PROVE  /\ Fits(CommittedGroup(h.group))
                        /\ \A q, s \in CommittedGroup(h.group), r \in changes :
                               q.seq < r.seq /\ r.seq < s.seq => r \in CommittedGroup(h.group)
        BY DEF GroupsAreSound, Fits
    <2>1. h.group \in Nat /\ h \in CommittedGroup(h.group)
        BY DEF IInv, CommittedInv, CommittedGroup
    <2>2. Fits(CommittedGroup(h.group))
        BY <2>1 DEF IInv, CommittedInv
    <2>3. ASSUME NEW q \in CommittedGroup(h.group), NEW s \in CommittedGroup(h.group),
                 NEW r \in changes, q.seq < r.seq, r.seq < s.seq
          PROVE  r \in CommittedGroup(h.group)
        <3>1. q \in changes /\ s \in changes /\ q.group = h.group /\ s.group = h.group
            BY DEF CommittedGroup
        <3>2. r.group # None /\ h.group <= r.group
            BY <2>3, <3>1 DEF IInv, CommittedInv
        <3>3. r.group <= h.group /\ r.group \in Nat
            BY <2>3, <3>1, <3>2 DEF IInv, CommittedInv
        <3>4. QED
            BY SMT, <2>1, <3>2, <3>3 DEF CommittedGroup
    <2>4. QED
        BY <2>2, <2>3
<1>2. QED
    BY <1>1, InitIInv, Inductive, PTL DEF Spec

------------------------------------------------------------------------------
(* The readers. *)

(* The revisions in a history, committed or about to be. *)
RevisionInv == Sound(changes) /\ \A w \in Writers : Sound(changes \cup written[w])

(* Every snapshot is that of a place in the history, and has its own id.   *)
SnapshotInv ==
    /\ IsFiniteSet(tickets)
    /\ \A t \in tickets : Snapshot(changes, t)
    /\ \A t, u \in tickets : t.id = u.id => t = u

ClientTypes ==
    /\ phase \in [Clients -> Phases]
    /\ after = [c \in Clients |-> after[c]]
    /\ ticket = [c \in Clients |-> ticket[c]]
    /\ rows = [c \in Clients |-> rows[c]]
    /\ work = [c \in Clients |-> work[c]]
    /\ saved = [c \in Clients |-> saved[c]]
    /\ cursor = [c \in Clients |-> cursor[c]]

(* What a client has persisted is the state at its cursor. *)
Persisted(c) ==
    cursor[c] # None =>
        Whole(changes, cursor[c]) /\ saved[c] = State(UpTo(changes, cursor[c]))

(* Nothing is under way, or a bootstrap is about to begin. *)
AtRest(c) ==
    phase[c] \in {"idle", "boot"} => after[c] = 0 /\ work[c] = [i \in Items |-> Unknown]

(* Between delta pages the working copy is the state at the place that was *)
(* reached.                                                                *)
InDelta(c) ==
    phase[c] \in {"head", "rows", "check", "stats"} =>
        Whole(changes, after[c]) /\ LiveRevisions(work[c]) = State(UpTo(changes, after[c]))

(* The rows of a call follow that place; what is delivered ends at one.    *)
InPage(c) ==
    phase[c] \in {"check", "stats"} =>
        /\ Stretch(changes, after[c], rows[c])
        /\ phase[c] = "stats" \/ Len(rows[c]) <= MaxExpanded(Limit)
              => Whole(changes, EndOf(after[c], rows[c]))

(* Between bootstrap pages the first members of the snapshot are copied.   *)
InBootstrap(c) ==
    phase[c] = "more" =>
        \A t \in tickets : t.id = ticket[c] =>
            Copied(InOrder(MemberRows(changes, t)), after[c], work[c])

Reader(c) == Persisted(c) /\ AtRest(c) /\ InDelta(c) /\ InPage(c) /\ InBootstrap(c)

ReplicaInv ==
    /\ IInv /\ RevisionInv /\ SnapshotInv /\ ClientTypes
    /\ \A c \in Clients : Reader(c)

(* A workspace begins with rows that have no groups, and clients with      *)
(* nothing.                                                                *)
LEMMA InitReplica == Init => ReplicaInv
<1> SUFFICES ASSUME Init PROVE ReplicaInv
    OBVIOUS
<1>1. IInv
    BY InitIInv
<1>2. Ungrouped(changes)
    BY DeltaAssumption DEF Init
<1>3. \A r \in changes : r.seq \in Seqs /\ r.rev \in Seqs /\ r.group = None
    BY <1>2 DEF Ungrouped, Row
<1>4. Sound(changes)
    <2>1. Keyed(changes)
        <3>1. \A q, r \in changes : q.seq = r.seq => q = r
            BY <1>2 DEF Ungrouped
        <3>2. MaxSeq \in Nat /\ \A r \in changes : r.seq \in Nat /\ r.seq <= MaxSeq
            BY SMT, <1>3, DeltaAssumption DEF Seqs
        <3>3. QED
            BY <3>1, <3>2 DEF Keyed
    <2>2. \A r \in changes : r.seq # 0 /\ r.rev \in Nat /\ r.rev <= MaxSeq
        BY SMT, <1>3, DeltaAssumption DEF Seqs
    <2>3. \A q, r \in changes : q.item = r.item /\ q.seq < r.seq => q.rev < r.rev
        BY <1>2 DEF Ungrouped
    <2>4. QED
        BY <2>1, <2>2, <2>3, <1>3, DeltaAssumption DEF Sound
<1>5. RevisionInv
    <2>1. \A w \in Writers : changes \cup written[w] = changes
        BY DEF Init
    <2>2. QED
        BY <1>4, <2>1 DEF RevisionInv
<1>6. SnapshotInv
    BY FS_EmptySet DEF Init, SnapshotInv
<1>7. ClientTypes
    BY DEF Init, ClientTypes, Phases
<1>8. ASSUME NEW c \in Clients PROVE Reader(c)
    <2>1. /\ phase[c] = "idle" /\ after[c] = 0 /\ cursor[c] = None
          /\ work[c] = [i \in Items |-> Unknown]
        BY DEF Init
    <2>2. QED
        BY <2>1 DEF Reader, Persisted, AtRest, InDelta, InPage, InBootstrap
<1>9. QED
    BY <1>1, <1>5, <1>6, <1>7, <1>8 DEF ReplicaInv

------------------------------------------------------------------------------
(* The history that a writer knows stays sound when it records a row       *)
(* (record_mutation).                                                      *)
LEMMA RecordRevisions ==
    ASSUME NEW w \in Writers, NEW i \in Items, NEW live \in BOOLEAN, NEW size \in Sizes,
           IInv, RevisionInv, Record(w, i, live, size)
    PROVE  RevisionInv'
<1> DEFINE H == changes \cup written[w]
           n == [seq |-> next, item |-> i, rev |-> Revision(H, i) + 1,
                 live |-> live, size |-> size, group |-> group[w]]
<1>1. /\ w \in holders /\ group[w] # None
      /\ written' = [written EXCEPT ![w] = @ \cup {n}]
      /\ changes' = changes
    BY DEF Record
<1>2. /\ n.seq = next /\ n.item = i /\ n.rev = Revision(H, i) + 1 /\ n.group = group[w]
    OBVIOUS
<1> HIDE DEF n
<1>3. Sound(H)
    BY DEF RevisionInv
<1>4. n.seq \in Nat \ {0} /\ \A q \in H : q.seq < n.seq
    BY <1>2 DEF IInv, NumberInv
<1>5. n.group \in Nat
    BY <1>1, <1>2 DEF IInv, LockInv
<1>6. \A q \in H : q.group # None => q.group <= n.group
    <2>1. \A q \in changes : q.group # None => q.group \in Nat /\ q.group < n.group
        BY <1>1, <1>2 DEF IInv, WrittenInv, CommittedInv
    <2>2. \A q \in written[w] : q.group <= n.group
        BY <1>1, <1>2 DEF IInv, WrittenInv
    <2>3. QED
        BY SMT, <2>1, <2>2, <1>5
<1>7. n.rev = Revision(H, n.item) + 1
    BY <1>2
<1> HIDE DEF H
<1>8. Sound(H \cup {n})
    BY <1>3, <1>4, <1>5, <1>6, <1>7, RecordedIsSound
<1>9. ASSUME NEW x \in Writers PROVE Sound(changes' \cup written'[x])
    <2>1. CASE x = w
        <3>1. written'[x] = written[w] \cup {n}
            BY <2>1, <1>1 DEF IInv, LockInv
        <3>2. changes' \cup written'[x] = H \cup {n}
            BY <3>1, <1>1 DEF H
        <3>3. QED
            BY <3>2, <1>8
    <2>2. CASE x # w
        <3>1. written'[x] = written[x]
            BY <2>2, <1>1 DEF IInv, LockInv
        <3>2. QED
            BY <3>1, <1>1 DEF RevisionInv
    <2>3. QED
        BY <2>1, <2>2
<1>10. QED
    BY <1>1, <1>9 DEF RevisionInv

(* Every step keeps the history sound, and adds to it at its end           *)
(* (lock_workspace_items is held from the first row to the commit).        *)
LEMMA HistoryStep ==
    ASSUME IInv, RevisionInv, [Next]_vars
    PROVE  RevisionInv' /\ Extends(changes, changes')
<1>1. CASE changes' = changes /\ written' = written
    BY <1>1 DEF RevisionInv, Extends
<1>2. ASSUME NEW w \in Writers, NEW i \in Items, NEW live \in BOOLEAN, NEW size \in Sizes,
             Record(w, i, live, size)
      PROVE  RevisionInv' /\ Extends(changes, changes')
    <2>1. RevisionInv'
        BY <1>2, RecordRevisions
    <2>2. changes' = changes
        BY <1>2 DEF Record
    <2>3. QED
        BY <2>1, <2>2 DEF Extends
<1>3. ASSUME NEW w \in Writers, w \in holders, EndTx(w), changes' = changes
      PROVE  RevisionInv' /\ Extends(changes, changes')
    <2>1. \A x \in Writers : written'[x] = {}
        BY <1>3, EndOfTransaction
    <2>2. \A x \in Writers : changes' \cup written'[x] = changes
        BY <2>1, <1>3
    <2>3. RevisionInv'
        BY <2>2, <1>3 DEF RevisionInv
    <2>4. QED
        BY <2>3, <1>3 DEF Extends
<1>4. ASSUME NEW w \in Writers, Commit(w)
      PROVE  RevisionInv' /\ Extends(changes, changes')
    <2>1. w \in holders /\ EndTx(w) /\ changes' = changes \cup written[w]
        BY <1>4 DEF Commit
    <2>2. \A x \in Writers : written'[x] = {}
        BY <2>1, EndOfTransaction
    <2>3. \A x \in Writers : changes' \cup written'[x] = changes \cup written[w]
        BY <2>1, <2>2
    <2>4. RevisionInv'
        BY <2>1, <2>3 DEF RevisionInv
    <2>5. ASSUME NEW q \in changes, NEW r \in changes' \ changes
          PROVE  q.seq < r.seq /\ q.group # r.group
        <3>1. r \in written[w]
            BY <2>1
        <3>2. q.seq < r.seq
            BY <3>1 DEF IInv, NumberInv
        <3>3. r.group \in Nat /\ (q.group # None => q.group \in Nat /\ q.group < r.group)
            BY <3>1 DEF IInv, WrittenInv, CommittedInv
        <3>4. CASE q.group = None
            BY <3>4, <3>3, <3>2, DeltaAssumption
        <3>5. CASE q.group # None
            BY SMT, <3>5, <3>3, <3>2
        <3>6. QED
            BY <3>4, <3>5
    <2>6. QED
        BY <2>1, <2>4, <2>5 DEF Extends
<1>5. ASSUME NEW w \in Writers, WriterStep(w)
      PROVE  RevisionInv' /\ Extends(changes, changes')
    <2>1. CASE Lock(w) \/ StartGroup(w) \/ CloseGroup(w)
        BY <2>1, <1>1 DEF Lock, StartGroup, CloseGroup
    <2>2. CASE Rollback(w)
        BY <2>2, <1>3 DEF Rollback
    <2>3. QED
        BY <2>1, <2>2, <1>2, <1>4, <1>5 DEF WriterStep
<1>6. UNCHANGED vars \/ OtherWorkspace \/ UNCHANGED writerVars
          => changes' = changes /\ written' = written
    BY DEF vars, writerVars, OtherWorkspace
<1>7. QED
    BY <1>1, <1>5, <1>6, ReadersOnlyRead

------------------------------------------------------------------------------
(* A client that does not move. *)
SameClient(c) ==
    /\ phase'[c] = phase[c] /\ after'[c] = after[c] /\ ticket'[c] = ticket[c]
    /\ rows'[c] = rows[c] /\ work'[c] = work[c]
    /\ saved'[c] = saved[c] /\ cursor'[c] = cursor[c]

(* What commits, other clients and time leave of a client's position: all  *)
(* of it, since what it has read comes before every later row.             *)
LEMMA ReaderStays ==
    ASSUME Sound(changes), Sound(changes'), Extends(changes, changes'), SnapshotInv,
           NEW c \in Clients, Reader(c), SameClient(c),
           \A t \in tickets' : t.id = ticket[c] => t \in tickets
    PROVE  Reader(c)'
<1> DEFINE H == changes
           K == changes'
<1>1. \A s : Whole(H, s) => Whole(K, s) /\ UpTo(K, s) = UpTo(H, s)
    BY PlacesStay
<1>2. \A from, s : Stretch(H, from, s) => Stretch(K, from, s)
    BY StretchStays
<1>3. \A t : Snapshot(H, t) => MemberRows(K, t) = MemberRows(H, t)
    BY SMT, SnapshotStays
<1> HIDE DEF H, K
<1>4. Persisted(c)'
    BY <1>1 DEF Reader, Persisted, SameClient, H, K
<1>5. AtRest(c)'
    BY DEF Reader, AtRest, SameClient
<1>6. InDelta(c)'
    BY <1>1 DEF Reader, InDelta, SameClient, H, K
<1>7. InPage(c)'
    BY <1>1, <1>2 DEF Reader, InPage, SameClient, H, K
<1>8. InBootstrap(c)'
    BY <1>3 DEF Reader, InBootstrap, SameClient, SnapshotInv, H, K
<1>9. QED
    BY <1>4, <1>5, <1>6, <1>7, <1>8 DEF Reader

(* One client at a time takes a step; the others stay where they are. *)
LEMMA StopIs ==
    ASSUME ClientTypes, NEW c \in Clients, Stop(c),
           saved' = [saved EXCEPT ![c] = saved'[c]], cursor' = [cursor EXCEPT ![c] = cursor'[c]]
    PROVE  /\ ClientTypes' /\ \A d \in Clients \ {c} : SameClient(d)
           /\ phase'[c] = "idle" /\ after'[c] = 0 /\ work'[c] = [i \in Items |-> Unknown]
<1>1. phase \in [Clients -> Phases]
    BY DEF ClientTypes
<1>2. phase' = [phase EXCEPT ![c] = "idle"] /\ "idle" \in Phases
    BY DEF Stop, Phases
<1>3. /\ phase' \in [Clients -> Phases] /\ phase'[c] = "idle"
      /\ \A d \in Clients \ {c} : phase'[d] = phase[d]
    BY <1>1, <1>2
<1>4. /\ after' = [after EXCEPT ![c] = 0] /\ ticket' = [ticket EXCEPT ![c] = None]
      /\ rows' = [rows EXCEPT ![c] = <<>>]
      /\ work' = [work EXCEPT ![c] = [i \in Items |-> Unknown]]
    BY DEF Stop
<1>5. ClientTypes' /\ after'[c] = 0 /\ work'[c] = [i \in Items |-> Unknown]
    BY <1>3, <1>4 DEF ClientTypes
<1>6. \A d \in Clients \ {c} : SameClient(d)
    BY <1>3, <1>4 DEF ClientTypes, SameClient
<1>7. QED
    BY <1>3, <1>5, <1>6

(* The same for a call that is followed by another one. *)
LEMMA ContinueIs ==
    ASSUME ClientTypes, NEW c \in Clients, NEW page, NEW at, NEW p \in Phases,
           Continue(c, page, at, p), ticket' = [ticket EXCEPT ![c] = ticket'[c]]
    PROVE  /\ ClientTypes' /\ \A d \in Clients \ {c} : SameClient(d)
           /\ phase'[c] = p /\ after'[c] = at /\ work'[c] = Applied(c, page)
           /\ saved'[c] = saved[c] /\ cursor'[c] = cursor[c]
<1>1. phase \in [Clients -> Phases]
    BY DEF ClientTypes
<1>2. phase' = [phase EXCEPT ![c] = p]
    BY DEF Continue
<1>3. /\ phase' \in [Clients -> Phases] /\ phase'[c] = p
      /\ \A d \in Clients \ {c} : phase'[d] = phase[d]
    BY <1>1, <1>2
<1>4. /\ after' = [after EXCEPT ![c] = at] /\ rows' = [rows EXCEPT ![c] = <<>>]
      /\ work' = [work EXCEPT ![c] = Applied(c, page)]
      /\ saved' = saved /\ cursor' = cursor
    BY DEF Continue
<1>5. ClientTypes' /\ after'[c] = at /\ work'[c] = Applied(c, page)
    BY <1>3, <1>4 DEF ClientTypes
<1>6. \A d \in Clients \ {c} : SameClient(d)
    BY <1>3, <1>4 DEF ClientTypes, SameClient
<1>7. QED
    BY <1>3, <1>4, <1>5, <1>6

Moved(c) == ClientTypes' /\ Reader(c)' /\ \A d \in Clients \ {c} : SameClient(d)

(* A refresh that is given up leaves what was persisted. *)
LEMMA AbandonStep ==
    ASSUME ClientTypes, NEW c \in Clients, Reader(c), changes' = changes, Abandon(c)
    PROVE  Moved(c)
<1>1. Stop(c) /\ saved' = saved /\ cursor' = cursor
    BY DEF Abandon
<1>2. saved' = [saved EXCEPT ![c] = saved'[c]] /\ cursor' = [cursor EXCEPT ![c] = cursor'[c]]
    BY <1>1 DEF ClientTypes
<1>3. /\ ClientTypes' /\ \A d \in Clients \ {c} : SameClient(d)
      /\ phase'[c] = "idle" /\ after'[c] = 0 /\ work'[c] = [i \in Items |-> Unknown]
    BY <1>1, <1>2, StopIs
<1>4. Persisted(c)'
    BY <1>1 DEF Persisted, Reader
<1>5. QED
    BY <1>3, <1>4 DEF Moved, Reader, AtRest, InDelta, InPage, InBootstrap

(* A refresh that ends persists the state at a place, and the place        *)
(* (loadDeltaPages).                                                       *)
LEMMA PersistStep ==
    ASSUME ClientTypes, NEW c \in Clients, changes' = changes, NEW page, NEW at,
           Persist(c, page, at), Whole(changes, at),
           LiveRevisions(Applied(c, page)) = State(UpTo(changes, at))
    PROVE  Moved(c)
<1>1. /\ Stop(c) /\ cursor' = [cursor EXCEPT ![c] = at]
      /\ saved' = [saved EXCEPT ![c] = LiveRevisions(Applied(c, page))]
    BY DEF Persist
<1>2. saved'[c] = LiveRevisions(Applied(c, page)) /\ cursor'[c] = at
    BY <1>1 DEF ClientTypes
<1>3. /\ ClientTypes' /\ \A d \in Clients \ {c} : SameClient(d)
      /\ phase'[c] = "idle" /\ after'[c] = 0 /\ work'[c] = [i \in Items |-> Unknown]
    BY <1>1, <1>2, StopIs
<1>4. Persisted(c)'
    BY <1>2 DEF Persisted
<1>5. QED
    BY <1>3, <1>4 DEF Moved, Reader, AtRest, InDelta, InPage, InBootstrap

(* A delta call moves on within a page: only the phase and the rows change. *)
LEMMA CallIs ==
    ASSUME ClientTypes, NEW c \in Clients, NEW p \in Phases,
           phase' = [phase EXCEPT ![c] = p], rows' = [rows EXCEPT ![c] = rows'[c]],
           UNCHANGED <<after, ticket, work, saved, cursor>>
    PROVE  /\ ClientTypes' /\ \A d \in Clients \ {c} : SameClient(d)
           /\ phase'[c] = p
<1>1. phase \in [Clients -> Phases]
    BY DEF ClientTypes
<1>2. /\ phase' \in [Clients -> Phases] /\ phase'[c] = p
      /\ \A d \in Clients \ {c} : phase'[d] = phase[d]
    BY <1>1
<1>3. ClientTypes'
    BY <1>2 DEF ClientTypes
<1>4. \A d \in Clients \ {c} : SameClient(d)
    BY <1>2 DEF ClientTypes, SameClient
<1>5. QED
    BY <1>2, <1>3, <1>4

(* Before the first row there is nothing. *)
LEMMA StartIs ==
    ASSUME NEW H, Sound(H)
    PROVE  /\ Whole(H, 0)
           /\ LiveRevisions([i \in Items |-> Unknown]) = State(UpTo(H, 0))
<1>1. \A r \in H : r.seq \in Nat /\ r.seq # 0
    BY DEF Sound, Keyed
<1>2. UpTo(H, 0) = {}
    BY SMT, <1>1 DEF UpTo
<1>3. Whole(H, 0)
    BY SMT, <1>1 DEF Whole
<1>4. ASSUME NEW i \in Items
      PROVE  State(UpTo(H, 0))[i] = 0 /\ LiveRevisions([j \in Items |-> Unknown])[i] = 0
    <2>1. ~ LiveIn(UpTo(H, 0), i)
        BY <1>2 DEF LiveIn, OfItem
    <2>2. QED
        BY <2>1 DEF State, LiveRevisions, Unknown
<1>5. QED
    BY <1>3, <1>4 DEF State, LiveRevisions

(* A client begins with what it has persisted, or with nothing (loadDelta). *)
LEMMA BeginRefreshStep ==
    ASSUME Sound(changes), ClientTypes, NEW c \in Clients, Reader(c), BeginRefresh(c)
    PROVE  Moved(c)
<1>1. /\ phase[c] = "idle" /\ changes' = changes
      /\ ticket' = ticket /\ rows' = rows /\ saved' = saved /\ cursor' = cursor
    BY DEF BeginRefresh, writerVars
<1>2. PICK p \in {"head", "boot"} : phase' = [phase EXCEPT ![c] = p]
    BY DEF BeginRefresh
<1>3. /\ p \in Phases
      /\ phase' \in [Clients -> Phases] /\ phase'[c] = p
      /\ \A d \in Clients \ {c} : phase'[d] = phase[d]
    BY <1>2 DEF ClientTypes, Phases
<1>4. Persisted(c)'
    BY <1>1 DEF Reader, Persisted
<1>5. CASE cursor[c] # None
    <2>1. /\ p = "head" /\ after' = [after EXCEPT ![c] = cursor[c]]
          /\ work' = [work EXCEPT ![c] =
                 [i \in Items |-> [rev |-> saved[c][i], live |-> saved[c][i] > 0]]]
        <3>1. /\ phase' = [phase EXCEPT ![c] = "head"]
              /\ after' = [after EXCEPT ![c] = cursor[c]]
              /\ work' = [work EXCEPT ![c] =
                     [i \in Items |-> [rev |-> saved[c][i], live |-> saved[c][i] > 0]]]
            BY <1>5 DEF BeginRefresh
        <3>2. phase'[c] = "head"
            BY <3>1 DEF ClientTypes
        <3>3. QED
            BY <3>1, <3>2, <1>3
    <2>2. /\ after'[c] = cursor[c]
          /\ work'[c] = [i \in Items |-> [rev |-> saved[c][i], live |-> saved[c][i] > 0]]
        BY <2>1 DEF ClientTypes
    <2>3. ClientTypes'
        BY <1>1, <1>3, <2>1 DEF ClientTypes
    <2>4. \A d \in Clients \ {c} : SameClient(d)
        BY <1>1, <1>3, <2>1 DEF ClientTypes, SameClient
    <2>5. Whole(changes, cursor[c]) /\ saved[c] = State(UpTo(changes, cursor[c]))
        BY <1>5 DEF Reader, Persisted
    <2>6. \A i \in Items : saved[c][i] \in Nat
        <3>1. Sound(UpTo(changes, cursor[c]))
            BY SoundPart DEF UpTo
        <3>2. QED
            BY SMT, <2>5, <3>1, RevisionIs DEF State
    <2>7. LiveRevisions(work'[c]) = saved[c]
        <3>1. saved[c] = [i \in Items |-> saved[c][i]]
            BY <2>5 DEF State
        <3>2. \A i \in Items : LiveRevisions(work'[c])[i] = saved[c][i]
            <4> TAKE i \in Items
            <4>1. work'[c][i] = [rev |-> saved[c][i], live |-> saved[c][i] > 0]
                BY <2>2
            <4>2. work'[c][i].rev = saved[c][i] /\ work'[c][i].live = (saved[c][i] > 0)
                BY SMT, <4>1
            <4>3. LiveRevisions(work'[c])[i] = IF saved[c][i] > 0 THEN saved[c][i] ELSE 0
                BY <4>2 DEF LiveRevisions
            <4>4. QED
                BY SMT, <4>3, <2>6
        <3>3. QED
            BY <3>1, <3>2 DEF LiveRevisions
    <2>8. InDelta(c)'
        BY <2>2, <2>5, <2>7, <1>1 DEF InDelta
    <2>9. QED
        BY <2>1, <2>3, <2>4, <2>8, <1>3, <1>4 DEF Moved, Reader, AtRest, InPage, InBootstrap
<1>6. CASE cursor[c] = None
    <2>1. after' = after /\ work' = work
        BY <1>6 DEF BeginRefresh
    <2>2. ClientTypes'
        BY <1>1, <1>3, <2>1 DEF ClientTypes
    <2>3. \A d \in Clients \ {c} : SameClient(d)
        BY <1>1, <1>3, <2>1 DEF ClientTypes, SameClient
    <2>4. after'[c] = 0 /\ work'[c] = [i \in Items |-> Unknown]
        BY <1>1, <2>1 DEF Reader, AtRest
    <2>5. InDelta(c)'
        BY <2>4, <1>1, StartIs DEF InDelta
    <2>6. QED
        BY <2>2, <2>3, <2>4, <2>5, <1>2, <1>3, <1>4 DEF Moved, Reader, AtRest, InPage, InBootstrap
<1>7. QED
    BY <1>5, <1>6

(* The head is read: nothing has moved yet (the first statement of delta). *)
LEMMA DeltaHeadStep ==
    ASSUME ClientTypes, NEW c \in Clients, Reader(c), DeltaHead(c)
    PROVE  Moved(c)
<1>1. /\ phase[c] = "head" /\ phase' = [phase EXCEPT ![c] = "rows"] /\ changes' = changes
      /\ UNCHANGED <<after, ticket, rows, work, saved, cursor>>
    BY DEF DeltaHead, writerVars
<1>2. "rows" \in Phases /\ rows' = [rows EXCEPT ![c] = rows'[c]]
    BY <1>1 DEF ClientTypes, Phases
<1>3. /\ ClientTypes' /\ \A d \in Clients \ {c} : SameClient(d)
      /\ phase'[c] = "rows"
    BY <1>1, <1>2, CallIs
<1>4. Persisted(c)' /\ InDelta(c)'
    BY <1>1 DEF Reader, Persisted, InDelta
<1>5. QED
    BY <1>3, <1>4 DEF Moved, Reader, AtRest, InPage, InBootstrap

(* Rows are fetched: those after the place that was reached (the second    *)
(* statement of delta).                                                    *)
LEMMA DeltaRowsStep ==
    ASSUME Sound(changes), ClientTypes, NEW c \in Clients, Reader(c), DeltaRows(c)
    PROVE  Moved(c)
<1>1. /\ phase[c] = "rows" /\ phase' = [phase EXCEPT ![c] = "check"] /\ changes' = changes
      /\ rows' = [rows EXCEPT ![c] = Fetched(c)]
      /\ UNCHANGED <<after, ticket, work, saved, cursor>>
    BY DEF DeltaRows, writerVars
<1>2. "check" \in Phases /\ rows'[c] = Fetched(c)
    BY <1>1 DEF ClientTypes, Phases
<1>3. /\ ClientTypes' /\ \A d \in Clients \ {c} : SameClient(d)
      /\ phase'[c] = "check"
    BY <1>1, <1>2, CallIs
<1>4. Persisted(c)' /\ InDelta(c)'
    BY <1>1 DEF Reader, Persisted, InDelta
<1>5. Whole(changes, after[c])
    BY <1>1 DEF Reader, InDelta
<1>6. /\ Stretch(changes, after[c], Fetched(c))
      /\ Len(Fetched(c)) <= MaxExpanded(Limit) => Whole(changes, EndOf(after[c], Fetched(c)))
    <2>1. MaxExpanded(Limit) \in Nat /\ MaxExpanded(Limit) + 1 \in Nat \ {0}
        BY SMT, DeltaAssumption, PageAssumption DEF MaxExpanded
    <2>2. /\ Stretch(changes, after[c], Fetched(c))
          /\ Len(Fetched(c)) < MaxExpanded(Limit) + 1
                => Whole(changes, EndOf(after[c], Fetched(c)))
        BY <1>5, <2>1, FetchedIs DEF Fetched
    <2>3. Len(Fetched(c)) \in Nat
        BY SMT, <2>2 DEF Stretch
    <2>4. QED
        BY SMT, <2>1, <2>2, <2>3
<1>7. InPage(c)'
    BY <1>1, <1>2, <1>3, <1>6 DEF InPage
<1>8. QED
    BY <1>3, <1>4, <1>7 DEF Moved, Reader, AtRest, InBootstrap

(* The page is cut where no group is divided (the third statement of       *)
(* delta, and delivery_bounded_delta_prefix_len).                          *)
LEMMA DeltaCheckStep ==
    ASSUME Sound(changes), ClientTypes, NEW c \in Clients, Reader(c), DeltaCheck(c)
    PROVE  Moved(c)
<1> DEFINE s == rows[c]
           p == PageLength(c)
           page == SubSeq(s, 1, p)
<1>1. /\ phase[c] = "check" /\ phase' = [phase EXCEPT ![c] = "stats"] /\ changes' = changes
      /\ p # TooLarge /\ rows' = [rows EXCEPT ![c] = page]
      /\ UNCHANGED <<after, ticket, work, saved, cursor>>
    BY DEF DeltaCheck, writerVars
<1>2. "stats" \in Phases /\ rows'[c] = page
    <2>1. "stats" \in Phases
        BY DEF Phases
    <2>2. QED
        BY <1>1, <2>1 DEF ClientTypes
<1>3. /\ ClientTypes' /\ \A d \in Clients \ {c} : SameClient(d)
      /\ phase'[c] = "stats"
    BY <1>1, <1>2, CallIs
<1>4. Persisted(c)' /\ InDelta(c)'
    BY <1>1 DEF Reader, Persisted, InDelta
<1>5. /\ Whole(changes, after[c]) /\ Stretch(changes, after[c], s)
      /\ Len(s) <= MaxExpanded(Limit) => Whole(changes, EndOf(after[c], s))
    BY <1>1 DEF Reader, InDelta, InPage
<1>6. /\ GroupsOf(s) \in Seq({r.group : r \in changes})
      /\ Len(GroupsOf(s)) = Len(s) /\ Len(s) \in Nat
    BY SMT, <1>5 DEF Stretch, GroupsOf
<1>7. /\ Boundary(GroupsOf(s), p)
      /\ p = Len(s) => Len(s) <= MaxExpanded(Limit)
    BY <1>1, <1>6, BoundedPrefixIs, DeltaAssumption DEF PageLength
<1>8. p \in 0 .. Len(s)
    BY <1>6, <1>7 DEF Boundary
<1> HIDE DEF s, p
<1>9. Stretch(changes, after[c], page)
    BY <1>5, <1>8, StretchPrefix
<1>10. Whole(changes, EndOf(after[c], page))
    <2>1. CASE p # Len(s)
        BY <2>1, <1>5, <1>7, StretchCut
    <2>2. CASE p = Len(s)
        <3>1. EndOf(after[c], page) = EndOf(after[c], s)
            <4>1. EndOf(after[c], page) = IF p = 0 THEN after[c] ELSE s[p].seq
                BY SMT, <1>5, <1>8, StretchPrefix
            <4>2. s \in Seq(changes)
                BY <1>5 DEF Stretch
            <4>3. QED
                BY SMT, <4>1, <4>2, <2>2 DEF EndOf
        <3>2. QED
            BY <3>1, <2>2, <1>5, <1>7
    <2>3. QED
        BY <2>1, <2>2
<1> HIDE DEF page
<1>11. InPage(c)'
    BY <1>1, <1>2, <1>3, <1>9, <1>10 DEF InPage
<1>12. QED
    BY <1>3, <1>4, <1>11 DEF Moved, Reader, AtRest, InBootstrap

(* A page that is delivered takes the client from one place to another     *)
(* (loadDeltaPages).                                                       *)
LEMMA DeltaDeliverStep ==
    ASSUME Sound(changes), ClientTypes, NEW c \in Clients, Reader(c), DeltaDeliver(c)
    PROVE  Moved(c)
<1> DEFINE page == rows[c]
           at == Watermark(c)
<1>1. /\ phase[c] = "stats" /\ changes' = changes
      /\ \/ Continue(c, page, at, "head") /\ ticket' = ticket
         \/ Persist(c, page, at)
    BY DEF DeltaDeliver, writerVars
<1>2. at = EndOf(after[c], page)
    BY DEF Watermark, EndOf
<1>3. /\ Whole(changes, after[c]) /\ Stretch(changes, after[c], page)
      /\ LiveRevisions(work[c]) = State(UpTo(changes, after[c]))
      /\ Whole(changes, at)
    BY <1>1, <1>2 DEF Reader, InDelta, InPage
<1> HIDE DEF page, at
<1>4. LiveRevisions(Applied(c, page)) = State(UpTo(changes, at))
    BY <1>2, <1>3, DeltaApplied
<1>5. CASE Persist(c, page, at)
    BY <1>1, <1>3, <1>4, <1>5, PersistStep
<1>6. CASE Continue(c, page, at, "head") /\ ticket' = ticket
    <2>1. "head" \in Phases /\ ticket' = [ticket EXCEPT ![c] = ticket'[c]]
        BY <1>6 DEF Phases, ClientTypes
    <2>2. /\ ClientTypes' /\ \A d \in Clients \ {c} : SameClient(d)
          /\ phase'[c] = "head" /\ after'[c] = at /\ work'[c] = Applied(c, page)
          /\ saved'[c] = saved[c] /\ cursor'[c] = cursor[c]
        BY <1>6, <2>1, ContinueIs
    <2>3. Persisted(c)' /\ InDelta(c)'
        BY <1>1, <1>3, <1>4, <2>2 DEF Reader, Persisted, InDelta
    <2>4. QED
        BY <2>2, <2>3 DEF Moved, Reader, AtRest, InPage, InBootstrap
<1>7. QED
    BY <1>1, <1>5, <1>6

(* Before the first page nothing has been copied. *)
LEMMA NothingCopied ==
    ASSUME NEW s, Len(s) \in Nat
    PROVE  Copied(s, 0, [i \in Items |-> Unknown])
BY SMT DEF Copied

(* A bootstrap page copies the next members; after the last the client has *)
(* the state at the snapshot's head (read_page).                           *)
LEMMA ReadPageStep ==
    ASSUME Sound(changes), ClientTypes, NEW c \in Clients, Reader(c), changes' = changes,
           NEW t, Snapshot(changes, t), \A u \in tickets' : u.id = t.id => u = t,
           NEW from, Copied(InOrder(MemberRows(changes, t)), from, work[c]),
           ReadPage(c, t, from)
    PROVE  Moved(c)
<1> DEFINE s == InOrder(MemberRows(changes, t))
           page == BootstrapPage(t, from)
           at == from + Len(page)
<1>1. \/ /\ at < Cardinality(t.members)
         /\ Continue(c, page, at, "more") /\ ticket' = [ticket EXCEPT ![c] = t.id]
      \/ ~ (at < Cardinality(t.members)) /\ Persist(c, page, t.head)
    BY DEF ReadPage
<1>2. /\ s \in Seq(changes) /\ Len(s) = Cardinality(t.members)
      /\ \A n \in 1 .. Len(s) : s[n].item \in Items
      /\ \A m, n \in 1 .. Len(s) : s[m].item = s[n].item => m = n
    <2> DEFINE U == UpTo(changes, t.head)
    <2> HIDE DEF s, U
    <2>1. s = InOrder(MemberRows(changes, t)) /\ U = UpTo(changes, t.head)
        BY DEF s, U
    <2>2. QED
        BY SMT, <2>1, SnapshotRows
<1>3. from \in 0 .. Len(s)
    BY DEF Copied
<1>4. /\ page \in Seq(changes) /\ at \in 0 .. Len(s)
      /\ \A n \in 1 .. Len(page) : page[n] = s[from + n]
    <2> HIDE DEF s
    <2>1. s = InOrder(MemberRows(changes, t))
        BY DEF s
    <2>2. QED
        BY SMT, <1>2, <1>3, <2>1, BootstrapPageIs
<1>5. Copied(s, at, Applied(c, page))
    <2> HIDE DEF s, page
    <2>1. Copied(s, from, work[c])
        BY DEF s
    <2>2. QED
        BY <1>2, <1>4, <2>1, PageCopied
<1>6. CASE ~ (at < Cardinality(t.members)) /\ Persist(c, page, t.head)
    <2>1. at = Cardinality(t.members)
        BY SMT, <1>6, <1>2, <1>4
    <2>2. LiveRevisions(Applied(c, page)) = State(UpTo(changes, t.head))
        BY <2>1, <1>5, AllCopied
    <2>3. Whole(changes, t.head)
        BY DEF Snapshot
    <2>4. QED
        BY <1>6, <2>2, <2>3, PersistStep
<1>7. CASE /\ Continue(c, page, at, "more") /\ ticket' = [ticket EXCEPT ![c] = t.id]
    <2> HIDE DEF page, at
    <2>1. "more" \in Phases
        BY DEF Phases
    <2>2. ticket'[c] = t.id
        BY <1>7 DEF ClientTypes
    <2>3. /\ ClientTypes' /\ \A d \in Clients \ {c} : SameClient(d)
          /\ phase'[c] = "more" /\ after'[c] = at /\ work'[c] = Applied(c, page)
          /\ saved'[c] = saved[c] /\ cursor'[c] = cursor[c]
        BY <1>7, <2>1, <2>2, ContinueIs
    <2>4. Persisted(c)'
        BY <2>3 DEF Reader, Persisted
    <2>5. InBootstrap(c)'
        <3>1. \A u \in tickets' : u.id = ticket'[c] => u = t
            BY <2>2
        <3>2. \A u \in tickets' : u.id = ticket'[c] =>
                  Copied(InOrder(MemberRows(changes, u)), after'[c], work'[c])
            BY <3>1, <2>3, <1>5
        <3>3. QED
            BY <3>2 DEF InBootstrap
    <2>6. QED
        BY <2>3, <2>4, <2>5 DEF Moved, Reader, AtRest, InDelta, InPage
<1>8. QED
    BY <1>1, <1>6, <1>7

(* Snapshots are taken and expire; a new one has an id that no client uses *)
(* (capture, and the expiry of tickets).                                   *)
LEMMA TicketsStep ==
    ASSUME RevisionInv, RevisionInv', Extends(changes, changes'), SnapshotInv, [Next]_vars
    PROVE  /\ SnapshotInv'
           /\ \A c \in Clients, t \in tickets' : t.id = ticket[c] => t \in tickets
<1>1. Sound(changes) /\ Sound(changes')
    BY DEF RevisionInv
<1>2. \A t : Snapshot(changes, t) => Snapshot(changes', t)
    BY <1>1, SnapshotStays
<1>3. CASE tickets' \subseteq tickets
    <2>1. IsFiniteSet(tickets')
        BY <1>3, FS_Subset DEF SnapshotInv
    <2>2. QED
        BY <1>2, <1>3, <2>1 DEF SnapshotInv
<1>4. ASSUME NEW t, t = [id |-> FreshId, head |-> HeadOf(changes), members |-> Members],
             tickets' = tickets \cup {t}, Cardinality(tickets) < MaxTickets
      PROVE  /\ SnapshotInv'
             /\ \A c \in Clients, u \in tickets' : u.id = ticket[c] => u \in tickets
    <2>1. (\A u \in tickets : u.id # FreshId) /\ (\A c \in Clients : ticket[c] # FreshId)
        BY <1>4, FreshIdIs DEF SnapshotInv
    <2>2. t.id = FreshId
        BY <1>4
    <2>3. Snapshot(changes', t)
        BY <1>1, <1>2, <1>4, SnapshotTaken
    <2>4. IsFiniteSet(tickets')
        BY <1>4, FS_AddElement DEF SnapshotInv
    <2>5. SnapshotInv'
        <3>1. \A u \in tickets' : Snapshot(changes', u)
            BY <1>2, <1>4, <2>3 DEF SnapshotInv
        <3>2. ASSUME NEW u \in tickets', NEW v \in tickets', u.id = v.id PROVE u = v
            <4>1. CASE u \in tickets /\ v \in tickets
                BY <3>2, <4>1 DEF SnapshotInv
            <4>2. CASE u \in tickets /\ v = t
                BY <2>1, <2>2, <3>2, <4>2
            <4>3. CASE u = t /\ v \in tickets
                BY <2>1, <2>2, <3>2, <4>3
            <4> QED
                BY <1>4, <4>1, <4>2, <4>3
        <3>3. QED
            BY <2>4, <3>1, <3>2 DEF SnapshotInv
    <2>6. QED
        BY <1>4, <2>1, <2>2, <2>5
<1>5. ASSUME NEW c \in Clients, BootstrapFirst(c)
      PROVE  \/ tickets' \subseteq tickets
             \/ \E t : /\ t = [id |-> FreshId, head |-> HeadOf(changes), members |-> Members]
                       /\ tickets' = tickets \cup {t} /\ Cardinality(tickets) < MaxTickets
    BY <1>5 DEF BootstrapFirst
<1>6. \/ tickets' \subseteq tickets
      \/ \E c \in Clients : BootstrapFirst(c)
    <2>1. ASSUME NEW w \in Writers, WriterStep(w) PROVE tickets' = tickets
        BY <2>1 DEF WriterStep, Lock, StartGroup, Record, CloseGroup, Commit, Rollback, EndTx
    <2>2. ASSUME NEW c \in Clients, Read(c) PROVE tickets' = tickets \/ BootstrapFirst(c)
        BY <2>2 DEF Read, DeltaHead, DeltaRows, DeltaCheck, DeltaDeliver, BootstrapFull,
                    BootstrapMore, BootstrapExpired
    <2>3. ASSUME NEW c \in Clients, BeginRefresh(c) \/ Lose(c) PROVE tickets' = tickets
        BY <2>3 DEF BeginRefresh, Lose
    <2>4. UNCHANGED vars \/ OtherWorkspace \/ (\E i \in Items : Age(i)) => tickets' = tickets
        BY DEF vars, OtherWorkspace, Age
    <2>5. (\E t \in tickets : Expire(t)) => tickets' \subseteq tickets
        BY DEF Expire
    <2>6. QED
        BY <2>1, <2>2, <2>3, <2>4, <2>5 DEF Next
<1>7. QED
    BY <1>3, <1>4, <1>5, <1>6

(* A bootstrap begins with a snapshot of the present, or with one of the   *)
(* same head (open_or_resume).                                             *)
LEMMA BootstrapFirstStep ==
    ASSUME RevisionInv, SnapshotInv, SnapshotInv', ClientTypes,
           NEW c \in Clients, Reader(c), BootstrapFirst(c)
    PROVE  Moved(c)
<1>1. /\ phase[c] = "boot" /\ changes' = changes
      /\ \E t \in tickets' : ReadPage(c, t, 0)
    BY DEF BootstrapFirst, writerVars
<1>2. PICK t \in tickets' : ReadPage(c, t, 0)
    BY <1>1
<1>3. Snapshot(changes, t) /\ \A u \in tickets' : u.id = t.id => u = t
    BY <1>1, <1>2 DEF SnapshotInv
<1>4. work[c] = [i \in Items |-> Unknown] /\ Sound(changes)
    BY <1>1 DEF Reader, AtRest, RevisionInv
<1>5. Len(InOrder(MemberRows(changes, t))) \in Nat
    BY SMT, <1>3, <1>4, SnapshotRows
<1>6. Copied(InOrder(MemberRows(changes, t)), 0, work[c])
    BY <1>4, <1>5, NothingCopied
<1>7. QED
    BY <1>1, <1>2, <1>3, <1>4, <1>6, ReadPageStep

(* A bootstrap goes on with its own snapshot. *)
LEMMA BootstrapMoreStep ==
    ASSUME RevisionInv, SnapshotInv, ClientTypes, NEW c \in Clients, Reader(c), BootstrapMore(c)
    PROVE  Moved(c)
<1>1. /\ phase[c] = "more" /\ changes' = changes /\ tickets' = tickets
      /\ \E t \in tickets : t.id = ticket[c] /\ ReadPage(c, t, after[c])
    BY DEF BootstrapMore, writerVars
<1>2. PICK t \in tickets : t.id = ticket[c] /\ ReadPage(c, t, after[c])
    BY <1>1
<1>3. Snapshot(changes, t) /\ (\A u \in tickets' : u.id = t.id => u = t) /\ Sound(changes)
    BY <1>1 DEF SnapshotInv, RevisionInv
<1>4. Copied(InOrder(MemberRows(changes, t)), after[c], work[c])
    BY <1>1, <1>2 DEF Reader, InBootstrap
<1>5. QED
    BY <1>1, <1>2, <1>3, <1>4, ReadPageStep

------------------------------------------------------------------------------
(* The client that takes a step is in a position that the step leads to,   *)
(* and the others are where they were.                                     *)
LEMMA ClientStep ==
    ASSUME RevisionInv, SnapshotInv, SnapshotInv', ClientTypes, NEW c \in Clients, Reader(c),
           BeginRefresh(c) \/ Read(c) \/ Lose(c)
    PROVE  Moved(c)
<1>1. Sound(changes)
    BY DEF RevisionInv
<1>2. CASE BeginRefresh(c)
    BY <1>1, <1>2, BeginRefreshStep
<1>3. CASE DeltaHead(c)
    BY <1>3, DeltaHeadStep
<1>4. CASE DeltaRows(c)
    BY <1>1, <1>4, DeltaRowsStep
<1>5. CASE DeltaCheck(c)
    BY <1>1, <1>5, DeltaCheckStep
<1>6. CASE DeltaDeliver(c)
    BY <1>1, <1>6, DeltaDeliverStep
<1>7. CASE BootstrapFirst(c)
    BY <1>7, BootstrapFirstStep
<1>8. CASE BootstrapMore(c)
    BY <1>8, BootstrapMoreStep
<1>9. CASE BootstrapFull(c) \/ BootstrapExpired(c) \/ Lose(c)
    <2>1. Abandon(c) /\ changes' = changes
        BY <1>9 DEF BootstrapFull, BootstrapExpired, Lose, writerVars
    <2>2. QED
        BY <2>1, AbandonStep
<1>10. QED
    BY <1>2, <1>3, <1>4, <1>5, <1>6, <1>7, <1>8, <1>9 DEF Read

(* Every step that no client takes leaves the clients where they are. *)
LEMMA ClientsStay ==
    [Next]_vars => \/ UNCHANGED clientVars
                   \/ \E c \in Clients : BeginRefresh(c) \/ Read(c) \/ Lose(c)
<1>1. ASSUME NEW w \in Writers, WriterStep(w) PROVE UNCHANGED clientVars
    BY <1>1 DEF WriterStep, Lock, StartGroup, Record, CloseGroup, Commit, Rollback, EndTx
<1>2. UNCHANGED vars \/ OtherWorkspace \/ (\E i \in Items : Age(i)) => UNCHANGED clientVars
    BY DEF vars, OtherWorkspace, Age
<1>3. (\E t \in tickets : Expire(t)) => UNCHANGED clientVars
    BY DEF Expire
<1>4. QED
    BY <1>1, <1>2, <1>3 DEF Next

(* Every step of the system keeps the readers where the invariant has      *)
(* them.                                                                   *)
LEMMA ReplicaStep == ReplicaInv /\ [Next]_vars => ReplicaInv'
<1> SUFFICES ASSUME ReplicaInv, [Next]_vars PROVE ReplicaInv'
    OBVIOUS
<1>1. IInv /\ RevisionInv /\ SnapshotInv /\ ClientTypes /\ \A c \in Clients : Reader(c)
    BY DEF ReplicaInv
<1>2. IInv'
    BY <1>1, Inductive
<1>3. RevisionInv' /\ Extends(changes, changes')
    BY <1>1, HistoryStep
<1>4. Sound(changes) /\ Sound(changes')
    BY <1>1, <1>3 DEF RevisionInv
<1>5. /\ SnapshotInv'
      /\ \A c \in Clients, t \in tickets' : t.id = ticket[c] => t \in tickets
    BY <1>1, <1>3, TicketsStep
<1>6. ASSUME NEW c \in Clients, SameClient(c) PROVE Reader(c)'
    BY <1>1, <1>3, <1>4, <1>5, <1>6, ReaderStays
<1>7. ClientTypes' /\ \A c \in Clients : Reader(c)'
    <2>1. CASE UNCHANGED clientVars
        <3>1. ClientTypes' /\ \A c \in Clients : SameClient(c)
            BY <1>1, <2>1 DEF ClientTypes, SameClient, clientVars
        <3>2. QED
            BY <3>1, <1>6
    <2>2. ASSUME NEW c \in Clients, BeginRefresh(c) \/ Read(c) \/ Lose(c)
          PROVE  ClientTypes' /\ \A d \in Clients : Reader(d)'
        <3>1. Moved(c)
            BY <2>2, <1>1, <1>5, ClientStep
        <3>2. ClientTypes' /\ Reader(c)' /\ \A d \in Clients \ {c} : SameClient(d)
            BY <3>1 DEF Moved
        <3>3. QED
            BY <3>2, <1>6
    <2>3. QED
        BY <2>1, <2>2, ClientsStay
<1>8. QED
    BY <1>2, <1>3, <1>5, <1>7 DEF ReplicaInv

(* What a client has persisted is the state of the items at its cursor,    *)
(* whatever writers commit, whichever pages and snapshots it was read      *)
(* from, and whenever a refresh was lost: rows are numbered and committed  *)
(* under one lock, a page is a stretch without a gap, and a snapshot is    *)
(* the state at its head (delta, read_page, loadDeltaPages).               *)
THEOREM ReplicasAreSnapshots == Spec => []ReplicaIsSnapshot
<1>1. ReplicaInv => ReplicaIsSnapshot
    BY DEF ReplicaInv, Reader, Persisted, ReplicaIsSnapshot, UpTo
<1>2. QED
    BY <1>1, InitReplica, ReplicaStep, PTL DEF Spec

(* No cursor divides a change group, persisted or between two pages:       *)
(* every page ends with its last group (atomic_delta_prefix_len,           *)
(* delivery_bounded_delta_prefix_len), and later commits add whole groups. *)
THEOREM CursorsDivideNoGroup == Spec => []GroupsStayWhole
<1>1. ReplicaInv => GroupsStayWhole
    <2> SUFFICES ASSUME ReplicaInv, NEW c \in Clients, NEW g \in Seqs
                 PROVE  /\ cursor[c] # None => ~ Divides(cursor[c], g)
                        /\ phase[c] \in {"head", "rows", "check", "stats"} => ~ Divides(after[c], g)
        BY DEF GroupsStayWhole
    <2>1. g # None
        BY SMT, DeltaAssumption DEF Seqs
    <2>2. ASSUME NEW s, Whole(changes, s) PROVE ~ Divides(s, g)
        <3> SUFFICES ASSUME NEW q \in changes, NEW r \in changes,
                            q.group = g, q.seq <= s, r.group = g, r.seq > s
                     PROVE  FALSE
            BY DEF Divides
        <3>1. s < r.seq
            BY <2>2 DEF Whole, ReplicaInv, RevisionInv, Sound, Keyed
        <3>2. QED
            BY <3>1, <2>1, <2>2 DEF Whole
    <2>3. QED
        BY <2>2 DEF ReplicaInv, Reader, Persisted, InDelta
<1>2. QED
    BY <1>1, InitReplica, ReplicaStep, PTL DEF Spec

==============================================================================

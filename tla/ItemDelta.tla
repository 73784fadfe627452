------------------------------ MODULE ItemDelta ------------------------------
(***************************************************************************)
(* The history of item changes and its readers: writers append groups of   *)
(* change rows in transactions that hold the canonical item lock           *)
(* (persistence/item_repository.rs), clients page through the history from *)
(* a cursor, and a client without a cursor takes a bootstrap snapshot of   *)
(* the current state first (persistence/item_bootstrap_repository.rs).     *)
(*                                                                         *)
(* Sequence numbers come from an identity column that all workspaces share *)
(* and that no rollback returns, so a workspace's numbers have gaps.  A    *)
(* delta page is four statements, each with a snapshot of its own.  What a *)
(* change says of its item is abstracted to the item's revision and        *)
(* whether it is live or a tombstone.                                      *)
(***************************************************************************)
EXTENDS DeltaPage

CONSTANTS
    Items,
    Writers,
    Clients,
    Limit,        \* rows a client asks for
    Sizes,        \* compact payload sizes of a change
    Spacing,      \* what the stored text of a payload adds to its size
    RowCap,       \* MAX_BOOTSTRAP_PAGE_MEMBERS
    MaxTickets,   \* MAX_BOOTSTRAP_TICKETS
    Histories,    \* committed rows the behaviour may start from
    MaxSeq,       \* bound: sequence numbers
    MaxFaults     \* bound: lost answers and tickets that expire in use

VARIABLES
    changes,   \* committed rows of item_changes
    next,      \* the identity column
    holders,   \* transactions that hold the canonical item lock
    written,   \* per writer: rows its transaction has inserted
    group,     \* per writer: the transaction-local group, None when closed
    aged,      \* items trashed longer ago than the trash retention
    tickets,   \* unexpired bootstrap snapshots
    phase,     \* per client: where its refresh is
    after,     \* the position it reads from: a sequence or an ordinal
    ticket,    \* the bootstrap snapshot it reads
    rows,      \* the rows the current delta call has fetched, then its page
    more,      \* has_more of that page
    work,      \* per item: what the refresh has seen so far
    saved,     \* per item: the persisted live revision, 0 for none
    cursor,    \* the persisted cursor
    faults

writerVars == <<changes, next, holders, written, group>>
clientVars == <<phase, after, ticket, rows, more, work, saved, cursor>>
vars == <<writerVars, aged, tickets, clientVars, faults>>

Seqs == 1 .. MaxSeq
Row == [seq : Seqs, item : Items, rev : Seqs, live : BOOLEAN, size : Sizes,
        group : Seqs \cup {None}]
Seen == [rev : 0 .. MaxSeq, live : BOOLEAN]
TicketIds == 1 .. MaxTickets + Cardinality(Clients)
Unknown == [rev |-> 0, live |-> FALSE]

(* A history of rows without groups: numbers are a key, and the revisions  *)
(* of an item grow with them.                                              *)
Ungrouped(H) ==
    /\ H \subseteq {r \in Row : r.group = None}
    /\ \A q, r \in H : q.seq = r.seq => q = r
    /\ \A q, r \in H : q.item = r.item /\ q.seq < r.seq => q.rev < r.rev

ASSUME DeltaAssumption ==
    /\ None \notin Nat
    /\ \A H \in Histories : Ungrouped(H)
    /\ IsFiniteSet(Clients)
    /\ Limit \in Nat \ {0}
    /\ Sizes \subseteq Nat
    /\ Spacing \in Nat
    /\ RowCap \in Nat \ {0}
    /\ MaxTickets \in Nat \ {0}
    /\ MaxSeq \in Nat
    /\ MaxFaults \in Nat

Phases == {"idle", "head", "rows", "check", "stats", "boot", "more"}

TypeOK ==
    /\ changes \subseteq Row
    /\ next \in 1 .. MaxSeq + 1
    /\ holders \subseteq Writers
    /\ \A w \in Writers : written[w] \subseteq Row
    /\ group \in [Writers -> Seqs \cup {None}]
    /\ aged \subseteq Items
    /\ \A t \in tickets : /\ t.id \in TicketIds
                          /\ t.head \in 0 .. MaxSeq
                          /\ t.members \subseteq Seqs
    /\ phase \in [Clients -> Phases]
    /\ after \in [Clients -> 0 .. MaxSeq]
    /\ ticket \in [Clients -> TicketIds \cup {None}]
    /\ \A c \in Clients : rows[c] \in Seq(Row)
    /\ more \in [Clients -> BOOLEAN]
    /\ work \in [Clients -> [Items -> Seen]]
    /\ saved \in [Clients -> [Items -> 0 .. MaxSeq]]
    /\ cursor \in [Clients -> 0 .. MaxSeq \cup {None}]
    /\ faults \in 0 .. MaxFaults

------------------------------------------------------------------------------
(* The rows of a history. *)

HeadOf(R) == Max({r.seq : r \in R} \cup {0})
InOrder(R) ==
    [n \in 1 .. Cardinality(R) |->
        CHOOSE r \in R : Cardinality({q \in R : q.seq <= r.seq}) = n]
OfItem(R, i) == {r \in R : r.item = i}
Revision(R, i) == Max({r.rev : r \in OfItem(R, i)} \cup {0})
Current(R, i) == CHOOSE r \in OfItem(R, i) : r.rev = Revision(R, i)
LiveIn(R, i) == OfItem(R, i) # {} /\ Current(R, i).live
State(R) == [i \in Items |-> IF LiveIn(R, i) THEN Revision(R, i) ELSE 0]
StoredBytes(R) == MapThenSumSet(LAMBDA r : r.size + Spacing, R)

GroupsOf(s) == [n \in DOMAIN s |-> s[n].group]
SizesOf(s) == [n \in DOMAIN s |-> s[n].size]

Init ==
    /\ changes \in Histories
    /\ next \in 1 .. MaxSeq + 1
    /\ \A r \in changes : r.seq < next
    /\ holders = {}
    /\ written = [w \in Writers |-> {}]
    /\ group = [w \in Writers |-> None]
    /\ aged = {}
    /\ tickets = {}
    /\ phase = [c \in Clients |-> "idle"]
    /\ after = [c \in Clients |-> 0]
    /\ ticket = [c \in Clients |-> None]
    /\ rows = [c \in Clients |-> <<>>]
    /\ more = [c \in Clients |-> FALSE]
    /\ work = [c \in Clients |-> [i \in Items |-> Unknown]]
    /\ saved = [c \in Clients |-> [i \in Items |-> 0]]
    /\ cursor = [c \in Clients |-> None]
    /\ faults = 0

------------------------------------------------------------------------------
(* Writers. *)

(* Mutant: a writer that inserts without the canonical item lock. *)
LockShared(w) ==
    /\ w \notin holders
    /\ holders' = holders \cup {w}
    /\ UNCHANGED <<changes, next, written, group, aged, tickets, clientVars, faults>>

(* lock_workspace_items, the first statement that concerns items *)
Lock(w) ==
    /\ holders = {}
    /\ holders' = {w}
    /\ UNCHANGED <<changes, next, written, group, aged, tickets, clientVars, faults>>

(* start_item_change_group_tx: a fresh identifier in a local setting *)
StartGroup(w) ==
    /\ w \in holders
    /\ group[w] = None
    /\ next <= MaxSeq
    /\ group' = [group EXCEPT ![w] = next]
    /\ UNCHANGED <<changes, next, holders, written, aged, tickets, clientVars, faults>>

(* record_mutation of one item, on its own behalf or as a parent refresh *)
Record(w, i, live, size) ==
    LET known == changes \cup written[w]
    IN  /\ w \in holders
        /\ group[w] # None
        /\ next <= MaxSeq
        /\ live \/ LiveIn(known, i)
        /\ written' = [written EXCEPT ![w] = @ \cup
               {[seq |-> next, item |-> i, rev |-> Revision(known, i) + 1,
                 live |-> live, size |-> size, group |-> group[w]]}]
        /\ next' = next + 1
        /\ UNCHANGED <<changes, holders, group, aged, tickets, clientVars, faults>>

InGroup(w) == {r \in written[w] : r.group = group[w]}

(* Mutant: a group is published however large it is. *)
CloseGroupUnbounded(w) ==
    /\ group[w] # None
    /\ InGroup(w) # {}
    /\ group' = [group EXCEPT ![w] = None]
    /\ UNCHANGED <<changes, next, holders, written, aged, tickets, clientVars, faults>>

(* validate_item_change_group_tx: closes a group that readers can be sent *)
CloseGroup(w) ==
    /\ group[w] # None
    /\ InGroup(w) # {}
    /\ Cardinality(InGroup(w)) <= GroupCap
    /\ StoredBytes(InGroup(w)) <= PageBytes
    /\ group' = [group EXCEPT ![w] = None]
    /\ UNCHANGED <<changes, next, holders, written, aged, tickets, clientVars, faults>>

EndTx(w) ==
    /\ holders' = holders \ {w}
    /\ written' = [written EXCEPT ![w] = {}]
    /\ group' = [group EXCEPT ![w] = None]
    /\ UNCHANGED <<next, tickets, clientVars, faults>>

Commit(w) ==
    /\ w \in holders
    /\ group[w] = None
    /\ written[w] # {}
    /\ changes' = changes \cup written[w]
    /\ aged' = aged \ {r.item : r \in written[w]}
    /\ EndTx(w)

(* A refused validation, any other error, or a lost connection. *)
Rollback(w) ==
    /\ w \in holders
    /\ EndTx(w)
    /\ UNCHANGED <<changes, aged>>

(* Another workspace takes a number. *)
OtherWorkspace ==
    /\ next <= MaxSeq
    /\ next' = next + 1
    /\ UNCHANGED <<changes, holders, written, group, aged, tickets, clientVars, faults>>

(* Time: an item's trash retention passes. *)
Age(i) ==
    /\ OfItem(changes, i) # {}
    /\ ~ LiveIn(changes, i)
    /\ i \notin aged
    /\ aged' = aged \cup {i}
    /\ UNCHANGED <<writerVars, tickets, clientVars, faults>>

------------------------------------------------------------------------------
(* Clients.  A refresh works on a copy and persists items and cursor       *)
(* together when the last page has been read.                              *)

Stop(c) ==
    /\ phase' = [phase EXCEPT ![c] = "idle"]
    /\ after' = [after EXCEPT ![c] = 0]
    /\ ticket' = [ticket EXCEPT ![c] = None]
    /\ rows' = [rows EXCEPT ![c] = <<>>]
    /\ more' = [more EXCEPT ![c] = FALSE]
    /\ work' = [work EXCEPT ![c] = [i \in Items |-> Unknown]]

(* loadDelta: from the persisted cursor, or anew from a bootstrap; a       *)
(* client of the older protocol reads the history from its start.          *)
BeginRefresh(c) ==
    /\ phase[c] = "idle"
    /\ \/ /\ cursor[c] # None
          /\ phase' = [phase EXCEPT ![c] = "head"]
          /\ after' = [after EXCEPT ![c] = cursor[c]]
          /\ work' = [work EXCEPT ![c] =
                 [i \in Items |-> [rev |-> saved[c][i], live |-> saved[c][i] > 0]]]
       \/ /\ cursor[c] = None
          /\ phase' \in {[phase EXCEPT ![c] = p] : p \in {"head", "boot"}}
          /\ UNCHANGED <<after, work>>
    /\ UNCHANGED <<writerVars, aged, tickets, ticket, rows, more, saved, cursor, faults>>

(* applyDeltaChange for the rows of a page, in order. *)
Before(c, page, n) ==
    LET earlier == {k \in 1 .. n - 1 : page[k].item = page[n].item}
    IN  IF earlier = {} THEN work[c][page[n].item]
        ELSE [rev |-> page[Max(earlier)].rev, live |-> page[Max(earlier)].live]

Acceptable(c, page) ==
    \A n \in DOMAIN page :
        IF page[n].live = Before(c, page, n).live
        THEN page[n].rev >= Before(c, page, n).rev
        ELSE page[n].rev > Before(c, page, n).rev

Applied(c, page) ==
    [i \in Items |->
        LET at == {n \in DOMAIN page : page[n].item = i}
        IN  IF at = {} THEN work[c][i]
            ELSE [rev |-> page[Max(at)].rev, live |-> page[Max(at)].live]]

LiveRevisions(w) == [i \in Items |-> IF w[i].live THEN w[i].rev ELSE 0]

(* loadDeltaPages when the last page has come. *)
Persist(c, page, at) ==
    /\ saved' = [saved EXCEPT ![c] = LiveRevisions(Applied(c, page))]
    /\ cursor' = [cursor EXCEPT ![c] = at]
    /\ Stop(c)

Abandon(c) == Stop(c) /\ UNCHANGED <<saved, cursor>>

(* loadDeltaPages when there are more: the next call starts at `at`. *)
Continue(c, page, at, p) ==
    /\ work' = [work EXCEPT ![c] = Applied(c, page)]
    /\ after' = [after EXCEPT ![c] = at]
    /\ phase' = [phase EXCEPT ![c] = p]
    /\ rows' = [rows EXCEPT ![c] = <<>>]
    /\ more' = [more EXCEPT ![c] = FALSE]
    /\ UNCHANGED <<saved, cursor>>

------------------------------------------------------------------------------
(* A delta call. *)

(* The first statement: the head. *)
DeltaHead(c) ==
    /\ phase[c] = "head"
    /\ after[c] <= HeadOf(changes)
    /\ phase' = [phase EXCEPT ![c] = "rows"]
    /\ UNCHANGED <<writerVars, aged, tickets, after, ticket, rows, more, work, saved, cursor, faults>>

Fetched(c) ==
    LET s == InOrder({r \in changes : r.seq > after[c]})
    IN  SubSeq(s, 1, Min({Len(s), MaxExpanded(Limit) + 1}))

(* The second statement: rows after the cursor. *)
DeltaRows(c) ==
    /\ phase[c] = "rows"
    /\ rows' = [rows EXCEPT ![c] = Fetched(c)]
    /\ phase' = [phase EXCEPT ![c] = "check"]
    /\ UNCHANGED <<writerVars, aged, tickets, after, ticket, more, work, saved, cursor, faults>>

CursorInGroup(c) ==
    LET before == {r \in changes : r.seq <= after[c]}
    IN  /\ rows[c] # <<>> /\ before # {}
        /\ rows[c][1].group # None
        /\ rows[c][1].group = (CHOOSE r \in before : r.seq = HeadOf(before)).group

PageLength(c) == BoundedPrefix(GroupsOf(rows[c]), SizesOf(rows[c]), Limit)

(* The third statement: the row before the page; then the page is cut. *)
DeltaCheck(c) ==
    /\ phase[c] = "check"
    /\ ~ CursorInGroup(c)
    /\ \E length \in {PageLength(c)} \ {TooLarge} :
           /\ rows' = [rows EXCEPT ![c] = SubSeq(@, 1, length)]
           /\ more' = [more EXCEPT ![c] = Len(rows[c]) > length]
    /\ phase' = [phase EXCEPT ![c] = "stats"]
    /\ UNCHANGED <<writerVars, aged, tickets, after, ticket, work, saved, cursor, faults>>

(* validate_persisted_delta_groups *)
GroupsComplete(page) ==
    \A g \in {r.group : r \in Range(page)} \ {None} :
        LET R == {r \in changes : r.group = g}
            first == Min({r.seq : r \in R})
            last == Max({r.seq : r \in R})
        IN  /\ Cardinality(R) <= GroupCap
            /\ StoredBytes(R) <= PageBytes
            /\ R = {r \in Range(page) : r.group = g}
            /\ R = {r \in changes : r.seq \in first .. last}

Watermark(c) == IF rows[c] = <<>> THEN after[c] ELSE rows[c][Len(rows[c])].seq

(* The fourth statement: the groups of the page.  The client applies it. *)
DeltaDeliver(c) ==
    /\ phase[c] = "stats"
    /\ GroupsComplete(rows[c])
    /\ Acceptable(c, rows[c])
    /\ IF more[c] THEN Continue(c, rows[c], Watermark(c), "head") /\ UNCHANGED ticket
                  ELSE Persist(c, rows[c], Watermark(c))
    /\ UNCHANGED <<writerVars, aged, tickets, faults>>

(* What ends a call with an error of the service, or a page that the client *)
(* throws away.  None of it happens (AlwaysDeliverable), so no action       *)
(* follows it.                                                              *)
DeltaRefused(c) ==
    \/ phase[c] = "head" /\ after[c] > HeadOf(changes)
    \/ phase[c] = "check" /\ (CursorInGroup(c) \/ PageLength(c) = TooLarge)
    \/ phase[c] = "stats" /\ ~ (GroupsComplete(rows[c]) /\ Acceptable(c, rows[c]))

------------------------------------------------------------------------------
(* A bootstrap. *)

(* The members of a new snapshot: the row of each item's current revision. *)
Members ==
    {Current(changes, i).seq :
        i \in {j \in Items : OfItem(changes, j) # {} /\ (LiveIn(changes, j) \/ j \notin aged)}}

(* Which snapshots are offered again. *)
SameHead(t) == t.head = HeadOf(changes)

FreshId == Min(TicketIds \ ({t.id : t \in tickets} \cup {ticket[c] : c \in Clients}))

(* The rows of a snapshot that a page from an ordinal holds. *)
BootstrapPage(t, from) ==
    LET members == InOrder({r \in changes : r.seq \in t.members})
        left == SubSeq(members, from + 1, Len(members))
    IN  SubSeq(left, 1, BootstrapPrefix(SizesOf(left), RowCap))

(* Mutant: the client goes on from the head at the time of the last page. *)
ReadPageAtHead(c, t, from) ==
    \E page \in {BootstrapPage(t, from)} :
        IF from + Len(page) < Cardinality(t.members)
        THEN /\ Continue(c, page, from + Len(page), "more")
             /\ ticket' = [ticket EXCEPT ![c] = t.id]
        ELSE Persist(c, page, HeadOf(changes))

(* read_page, and what the client makes of it.  After the last member the  *)
(* client goes on from the snapshot's head.                                *)
ReadPage(c, t, from) ==
    \E page \in {BootstrapPage(t, from)} :
        IF from + Len(page) < Cardinality(t.members)
        THEN /\ Continue(c, page, from + Len(page), "more")
             /\ ticket' = [ticket EXCEPT ![c] = t.id]
        ELSE Persist(c, page, t.head)

(* The first page: capture, or a snapshot of the same head, in a           *)
(* transaction that holds the canonical item lock.                         *)
BootstrapFirst(c) ==
    /\ phase[c] = "boot"
    /\ holders = {}
    /\ \/ \E t \in tickets :
            /\ SameHead(t)
            /\ ReadPage(c, t, 0)
            /\ UNCHANGED tickets
       \/ /\ \A t \in tickets : ~ SameHead(t)
          /\ Cardinality(tickets) < MaxTickets
          /\ LET t == [id |-> FreshId, head |-> HeadOf(changes), members |-> Members]
             IN  tickets' = tickets \cup {t} /\ ReadPage(c, t, 0)
    /\ UNCHANGED <<writerVars, aged, faults>>

BootstrapFull(c) ==
    /\ phase[c] = "boot"
    /\ holders = {}
    /\ \A t \in tickets : ~ SameHead(t)
    /\ Cardinality(tickets) = MaxTickets
    /\ Abandon(c)
    /\ UNCHANGED <<writerVars, aged, tickets, faults>>

BootstrapMore(c) ==
    /\ phase[c] = "more"
    /\ \E t \in tickets : t.id = ticket[c] /\ ReadPage(c, t, after[c])
    /\ UNCHANGED <<writerVars, aged, tickets, faults>>

BootstrapExpired(c) ==
    /\ phase[c] = "more"
    /\ \A t \in tickets : t.id # ticket[c]
    /\ Abandon(c)
    /\ UNCHANGED <<writerVars, aged, tickets, faults>>

(* Time: a snapshot's ten minutes pass, in the middle of a refresh or not. *)
Expire(t) ==
    /\ tickets' = tickets \ {t}
    /\ IF \E c \in Clients : ticket[c] = t.id
       THEN faults < MaxFaults /\ faults' = faults + 1
       ELSE UNCHANGED faults
    /\ UNCHANGED <<writerVars, aged, clientVars>>

(* A lost answer, a cancelled refresh, or a client that dies. *)
Lose(c) ==
    /\ phase[c] # "idle"
    /\ faults < MaxFaults
    /\ faults' = faults + 1
    /\ Abandon(c)
    /\ UNCHANGED <<writerVars, aged, tickets>>

------------------------------------------------------------------------------
WriterStep(w) ==
    \/ Lock(w)
    \/ StartGroup(w)
    \/ \E i \in Items, live \in BOOLEAN, size \in Sizes : Record(w, i, live, size)
    \/ CloseGroup(w)
    \/ Commit(w)
    \/ Rollback(w)

Read(c) ==
    \/ DeltaHead(c)
    \/ DeltaRows(c)
    \/ DeltaCheck(c)
    \/ DeltaDeliver(c)
    \/ BootstrapFirst(c)
    \/ BootstrapFull(c)
    \/ BootstrapMore(c)
    \/ BootstrapExpired(c)

Next ==
    \/ \E w \in Writers : WriterStep(w)
    \/ OtherWorkspace
    \/ \E i \in Items : Age(i)
    \/ \E c \in Clients : BeginRefresh(c) \/ Read(c) \/ Lose(c)
    \/ \E t \in tickets : Expire(t)

Spec == Init /\ [][Next]_vars

(***************************************************************************)
(* Transactions end; the lock's queue, the network and the scheduler serve *)
(* every client in the end; snapshots that nobody reads expire; a client   *)
(* refreshes again and again.                                              *)
(***************************************************************************)
Fairness ==
    /\ \A w \in Writers : WF_vars(Commit(w) \/ Rollback(w))
    /\ \A c \in Clients : WF_vars(BeginRefresh(c)) /\ SF_vars(Read(c))
    /\ WF_vars(\E t \in tickets : Expire(t))

FairSpec == Spec /\ Fairness

------------------------------------------------------------------------------
(* Properties. *)

(* What a client has persisted is the state of the items at its cursor,    *)
(* exactly: no committed change at or below the cursor is missing from it. *)
(* A change committed with a smaller number than one already read would be *)
(* skipped for ever; the canonical item lock around the numbering and the  *)
(* commit (lock_workspace_items) prevents it, and so does a bootstrap      *)
(* snapshot taken under the same lock.                                     *)
ReplicaIsSnapshot ==
    \A c \in Clients :
        cursor[c] # None =>
            saved[c] = State({r \in changes : r.seq <= cursor[c]})

(* A place in the history that has rows of group g on both sides. *)
Divides(s, g) ==
    /\ \E r \in changes : r.group = g /\ r.seq <= s
    /\ \E r \in changes : r.group = g /\ r.seq > s

(* No cursor that a client holds, persisted or between two pages, divides  *)
(* a change group: what one transaction did together is never seen half    *)
(* done (atomic_delta_prefix_len, delivery_bounded_delta_prefix_len).      *)
GroupsStayWhole ==
    \A c \in Clients, g \in Seqs :
        /\ cursor[c] # None => ~ Divides(cursor[c], g)
        /\ phase[c] \in {"head", "rows", "check", "stats"} => ~ Divides(after[c], g)

(* A committed group is a run of rows with no other row of the workspace   *)
(* in between, and it fits the page that has to hold it whole: the bounds  *)
(* of validate_item_change_group_tx hold for all that was committed, and   *)
(* writers do not mix their rows.                                          *)
CommittedGroup(g) == {r \in changes : r.group = g}

GroupsAreSound ==
    \A g \in {r.group : r \in changes} \ {None} :
        /\ Cardinality(CommittedGroup(g)) <= GroupCap
        /\ StoredBytes(CommittedGroup(g)) <= PageBytes
        /\ \A q, s \in CommittedGroup(g), r \in changes :
               q.seq < r.seq /\ r.seq < s.seq => r \in CommittedGroup(g)

(* Whatever was committed can be delivered: no delta call from a cursor    *)
(* that the service gave out ends with InvalidCursor, DeltaGroupTooLarge   *)
(* or an inconsistent group, and no page makes the client throw.  The      *)
(* write-side bound on a group (validate_item_change_group_tx) is what the *)
(* checks on the read side rely on.                                        *)
AlwaysDeliverable == \A c \in Clients : ~ DeltaRefused(c)

(* The page that the code cuts is the one that the requested number of     *)
(* rows, the groups and the payload bound define: the shortest that        *)
(* reaches the number asked for, or else the longest that fits.            *)
PageIsLargest ==
    \A c \in Clients :
        phase[c] = "check" =>
            PageLength(c) = LargestPage(GroupsOf(rows[c]), SizesOf(rows[c]), Limit)

(* The history only grows, and only at its end: a commit adds rows whose   *)
(* numbers exceed every number that was committed before                   *)
(* (lock_workspace_items before record_mutation).                          *)
HistoryAppends ==
    [][ /\ changes \subseteq changes'
        /\ \A q \in changes, r \in changes' \ changes : q.seq < r.seq ]_vars

(* Every client ends up with the current items, however its snapshots      *)
(* expire and its answers are lost on the way (loadDelta).                 *)
ClientsCatchUp ==
    <>[](\A c \in Clients : saved[c] = State(changes))

==============================================================================

-------------------------- MODULE ProposalApplication --------------------------
(***************************************************************************)
(* Review, application and undo of proposed item changes.  A proposal      *)
(* holds item commands.  A preview runs the commands of a group of         *)
(* proposals and their inverse inside a savepoint, rolls both back and     *)
(* keeps what the user was shown, bound to the state it was computed from. *)
(* Apply carries out exactly a live preview; undo carries out the stored   *)
(* inverse as long as nothing has moved since.  In between, items, their   *)
(* completion policies, the execution lease, provider mappings and the     *)
(* proposals themselves are changed by other requests.                     *)
(*                                                                         *)
(* Apply and undo keep a receipt per idempotency key; a repeated request   *)
(* is answered from it and changes nothing.                                *)
(***************************************************************************)
EXTENDS ItemForest, SequencesExt

CONSTANTS
    Proposals,  \* proposal identities
    Slots,      \* one for each preview the owner may hold at a time
    Starts,     \* the forests an older release may have left
    ChangeSets(_),  \* the command sequences proposed against a forest
    Edits(_),   \* the command sequences a proposal may be edited to
    MaxEvents   \* bound on the changes made by other requests

VARIABLES
    ready,      \* the server has reconciled completion and serves requests
    proposals,  \* [rev, status, commands], or None
    previews,   \* by slot
    apps,       \* the application of the preview in a slot
    managed,    \* items with a live provider mapping
    events      \* changes made by other requests, up to MaxEvents

vars == <<forest, exec, ready, proposals, previews, apps, managed, events>>

-----------------------------------------------------------------------------
(* Command batches.                                                        *)

DistinctTargets(cmds) == \A j, k \in DOMAIN cmds : cmds[j].id = cmds[k].id => j = k

\* validate_initial_command_fences
FencesHold(f, cmds) ==
    \A k \in DOMAIN cmds :
        LET c == cmds[k]
            row == f.items[c.id]
        IN  IF c.op = "create" THEN row = None
            ELSE row # None /\ row.deleted = (c.op = "restore") /\ row.rev = c.rev

\* Every new identity is inserted as a shell before the first command runs.
Staged(f, cmds) ==
    LET new == {k \in DOMAIN cmds : cmds[k].op = "create"}
    IN  [f EXCEPT !.items = [i \in Ids |->
            IF \E k \in new : cmds[k].id = i
            THEN [status |-> "planned", parent |-> None, deleted |-> FALSE, rev |-> 1,
                  order |-> cmds[CHOOSE k \in new : cmds[k].id = i].body.order]
            ELSE f.items[i]]]

\* Only a newly created parent has to come first.
Prerequisites(cmds, k) ==
    {j \in DOMAIN cmds : /\ cmds[j].op = "create"
                         /\ cmds[k].op \in {"create", "replace"}
                         /\ cmds[k].body.parent = cmds[j].id}

\* project_command_for_ordering: the hierarchy rules on a copy in memory.
Project(f, c) == IF f # Refused /\ Fits(f, c) THEN Put(f, c) ELSE Refused

\* The ready command of the lowest index that can be projected, repeatedly.
GreedyOrder(f, cmds) ==
    LET pick[n \in 0..Len(cmds)] ==
            IF n = 0 THEN [order |-> <<>>, state |-> f]
            ELSE LET at == pick[n-1]
                     can == {k \in DOMAIN cmds \ ToSet(at.order) :
                                /\ Prerequisites(cmds, k) \subseteq ToSet(at.order)
                                /\ Project(at.state, cmds[k]) # Refused}
                 IN  IF can = {} THEN at
                     ELSE [order |-> Append(at.order, Min(can)),
                           state |-> Project(at.state, cmds[Min(can)])]
    IN  pick[Len(cmds)].order

\* The first order, by index, whose every command can be projected.
SearchedOrder(f, cmds) ==
    LET Respects(o) == \A n \in DOMAIN o : Prerequisites(cmds, o[n]) \subseteq {o[m] : m \in 1..(n-1)}
        Works(o) == FoldLeft(LAMBDA g, k : Project(g, cmds[k]), f, o) # Refused
        Before(o, q) == \E n \in DOMAIN o : o[n] < q[n] /\ \A m \in 1..(n-1) : o[m] = q[m]
        found == {o \in SetToSeqs(DOMAIN cmds) : Respects(o) /\ Works(o)}
    IN  IF found = {} THEN Refused
        ELSE CHOOSE o \in found : \A q \in found \ {o} : Before(o, q)

\* Mutant: the commands run as they are listed.
ListedOrder(f, cmds) == [k \in DOMAIN cmds |-> k]

ExecutionOrder(f, cmds) ==
    LET greedy == GreedyOrder(f, cmds)
    IN  IF Len(greedy) = Len(cmds) THEN greedy ELSE SearchedOrder(f, cmds)

Execute(f, batch, live) ==
    LET run[n \in 0..Len(batch)] ==
            IF n = 0 THEN f ELSE ApplyCommand(run[n-1], batch[n], live)
    IN  IF batch = Refused THEN Refused ELSE run[Len(batch)]

InOrder(cmds, order) ==
    IF order = Refused THEN Refused ELSE [n \in DOMAIN order |-> cmds[order[n]]]

\* The batch in execution order, or Refused.
Ordered(f, cmds) ==
    IF FencesHold(f, cmds) THEN InOrder(cmds, ExecutionOrder(Staged(f, cmds), cmds))
    ELSE Refused

\* The forest after the batch and the evaluation of completion.
Outcome(f, cmds, live) ==
    Settle(Execute(Staged(f, cmds), Ordered(f, cmds), live), live, {})

\* The last command is taken back first: a created item is trashed, any
\* other item gets back the row and the policy it had before the batch.
InverseBatch(f, batch) ==
    LET Back(c) == IF c.op = "create" THEN [op |-> "trash", id |-> c.id]
                   ELSE [op |-> "snapshot", id |-> c.id,
                         row |-> f.items[c.id], policy |-> f.policy[c.id]]
    IN  Reverse([n \in DOMAIN batch |-> Back(batch[n])])

UndoOutcome(f, inverse, live) == Settle(Execute(f, inverse, live), live, {})

Changed(f, g) == {i \in Ids : f.items[i] # g.items[i]}

-----------------------------------------------------------------------------
(* What previews and applications are bound to.                            *)

\* item_completion_evidence_hash over the active forest
Evidence(f) ==
    [items  |-> [i \in Active(f) |-> f.items[i]],
     policy |-> [i \in Active(f) |-> f.policy[i]],
     exec   |-> exec]

RowVersion(f, i) ==
    IF f.items[i] = None THEN None ELSE <<f.items[i].rev, f.items[i].deleted>>

\* Mutant: the preview is bound to the rows alone.
CanonicalRows == [rows |-> [i \in Ids |-> RowVersion(forest, i)], managed |-> managed]

\* canonical_item_hash
Canonical ==
    [rows     |-> [i \in Ids |-> RowVersion(forest, i)],
     managed  |-> managed,
     evidence |-> Evidence(forest)]

Members(group) == [n \in DOMAIN group |-> [id |-> group[n], rev |-> proposals[group[n]].rev]]

Groups == SetToAllKPermutations(Proposals) \ {<<>>}

CommandsOf(group) ==
    FoldLeft(LAMBDA cmds, p : cmds \o proposals[p].commands, <<>>, group)

Pending(p) == proposals[p] # None /\ proposals[p].status = "pending"

\* Previews that expired without an application are deleted.
Pruned == [v \in Slots |-> IF previews[v] # None /\ previews[v].expired /\ apps[v] = None
                           THEN None ELSE previews[v]]

\* Once the undo window has closed the stored snapshots are erased.
Scrubbed == [v \in Slots |-> IF apps[v] # None /\ ~apps[v].open
                             THEN [apps[v] EXCEPT !.inverse = <<>>] ELSE apps[v]]

-----------------------------------------------------------------------------
(* Requests about proposals.                                               *)

Preview(v, group) ==
    LET cmds == CommandsOf(group)
        Reversible(after) ==
            /\ after # Refused
            /\ Changed(forest, after) \cap managed = {}
            /\ UndoOutcome(after, InverseBatch(forest, Ordered(forest, cmds)), exec.live) # Refused
    IN  /\ ready
        /\ Pruned[v] = None
        /\ \A n \in DOMAIN group : Pending(group[n])
        /\ DistinctTargets(cmds)
        /\ \E after \in {Outcome(forest, cmds, exec.live)} :
               previews' = [Pruned EXCEPT ![v] =
                   [members |-> Members(group), basis |-> Canonical, shown |-> after,
                    ok |-> Reversible(after), expired |-> FALSE]]
        /\ apps' = Scrubbed
        /\ UNCHANGED <<forest, exec, ready, proposals, managed, events>>

\* The checks of apply that precede the commands.
Appliable(v) ==
    /\ ready
    /\ previews[v] # None
    /\ previews[v].ok
    /\ \A n \in DOMAIN previews[v].members :
           LET m == previews[v].members[n]
           IN  Pending(m.id) /\ proposals[m.id].rev = m.rev
    /\ ~previews[v].expired
    /\ previews[v].basis = Canonical

Reviewed(v) == CommandsOf([n \in DOMAIN previews[v].members |-> previews[v].members[n].id])

Apply(v) ==
    /\ Appliable(v)
    /\ apps[v] = None
    /\ \E after \in {Outcome(forest, Reviewed(v), exec.live)} :
           /\ Commit(after)
           /\ Changed(forest, after) \cap managed = {}
           /\ apps' = [apps EXCEPT ![v] =
                  [status |-> "applied", open |-> TRUE,
                   inverse |-> InverseBatch(forest, Ordered(forest, Reviewed(v))),
                   evidence |-> Evidence(after), base |-> forest,
                   fences |-> [i \in Changed(forest, after) |-> RowVersion(after, i)]]]
    /\ proposals' = [p \in Proposals |->
           IF \E n \in DOMAIN previews[v].members : previews[v].members[n].id = p
           THEN [proposals[p] EXCEPT !.rev = @ + 1, !.status = "accepted"]
           ELSE proposals[p]]
    /\ UNCHANGED <<exec, ready, previews, managed, events>>

\* Mutant: only the items the application changed are compared.
UndoableByFences(v) ==
    /\ ready
    /\ apps[v] # None
    /\ apps[v].status = "applied"
    /\ apps[v].open
    /\ \A i \in DOMAIN apps[v].fences : apps[v].fences[i] = RowVersion(forest, i)
    /\ DOMAIN apps[v].fences \cap managed = {}

\* The checks of undo that precede the inverse commands.
Undoable(v) ==
    /\ ready
    /\ apps[v] # None
    /\ apps[v].status = "applied"
    /\ apps[v].open
    /\ apps[v].evidence = Evidence(forest)
    /\ \A i \in DOMAIN apps[v].fences : apps[v].fences[i] = RowVersion(forest, i)
    /\ DOMAIN apps[v].fences \cap managed = {}

\* A fence of an item a command named must have moved on.
FencesAdvance(v, after) ==
    \A n \in DOMAIN apps[v].inverse :
        LET i == apps[v].inverse[n].id IN after.items[i].rev > forest.items[i].rev

Undo(v) ==
    LET after == UndoOutcome(forest, apps[v].inverse, exec.live)
    IN  /\ Undoable(v)
        /\ Commit(after)
        /\ FencesAdvance(v, after)
        /\ apps' = [apps EXCEPT ![v].status = "undone"]
        /\ UNCHANGED <<exec, ready, proposals, previews, managed, events>>

MaintainRetention ==
    /\ previews' = Pruned
    /\ apps' = Scrubbed
    /\ UNCHANGED <<forest, exec, ready, proposals, managed, events>>

-----------------------------------------------------------------------------
(* Time.                                                                   *)

\* Fifteen minutes, or the expiry of a member; an applied preview is history.
PreviewExpires(v) ==
    /\ previews[v] # None /\ ~previews[v].expired /\ apps[v] = None
    /\ previews' = [previews EXCEPT ![v].expired = TRUE]
    /\ UNCHANGED <<forest, exec, ready, proposals, apps, managed, events>>

\* Twenty-four hours.
UndoCloses(v) ==
    /\ apps[v] # None /\ apps[v].open /\ apps[v].status = "applied"
    /\ apps' = [apps EXCEPT ![v].open = FALSE]
    /\ UNCHANGED <<forest, exec, ready, proposals, previews, managed, events>>

-----------------------------------------------------------------------------
(* Everything else that happens to the workspace.                          *)

Start ==
    /\ ~ready
    /\ Initialize
    /\ ready' = TRUE
    /\ UNCHANGED <<proposals, previews, apps, managed, events>>

Propose(p, cmds) ==
    /\ ready
    /\ proposals[p] = None
    /\ proposals' = [proposals EXCEPT ![p] =
           [rev |-> 1, status |-> "pending", commands |-> cmds]]
    /\ UNCHANGED <<forest, exec, ready, previews, apps, managed, events>>

\* One more change by another request.
Event ==
    /\ ready
    /\ events < MaxEvents
    /\ events' = events + 1

EditProposal(p, cmds) ==
    /\ Event
    /\ Pending(p)
    /\ proposals' = [proposals EXCEPT ![p].rev = @ + 1, ![p].commands = cmds]
    /\ UNCHANGED <<forest, exec, ready, previews, apps, managed>>

\* Rejected, expired or deleted; acceptance is for apply alone.
CloseProposal(p) ==
    /\ Event
    /\ Pending(p)
    /\ proposals' = [proposals EXCEPT ![p].rev = @ + 1, ![p].status = "closed"]
    /\ UNCHANGED <<forest, exec, ready, previews, apps, managed>>

\* Synchronisation maps an item to a provider object, or retires the mapping.
Remap(i) ==
    /\ Event
    /\ i \in Active(forest)
    /\ managed' = IF i \in managed THEN managed \ {i} ELSE managed \cup {i}
    /\ UNCHANGED <<forest, exec, ready, proposals, previews, apps>>

\* The requests a client may make of item i as it stands.
Requests(f, i) ==
    IF f.items[i] = None THEN [op : {"create"}, id : {i}, rev : {0}, body : Bodies]
    ELSE IF f.items[i].deleted
    THEN [op : {"restore"}, id : {i}, rev : {f.items[i].rev}, body : {None}]
    ELSE [op : {"replace"}, id : {i}, rev : {f.items[i].rev}, body : Bodies]
         \cup [op : {"trash"}, id : {i}, rev : {f.items[i].rev}, body : {None}]

OtherRequest ==
    /\ Event
    /\ \/ \E i \in Ids : \E c \in Requests(forest, i) : WriteItem(c)
       \/ \E i \in Ids, required \in BOOLEAN, mode \in Modes : PutCompletion(i, required, mode)
       \/ \E i \in Ids : StartExecution(i)
    /\ UNCHANGED <<ready, proposals, previews, apps, managed>>

LeaseEnds ==
    /\ EndExecution
    /\ UNCHANGED <<ready, proposals, previews, apps, managed, events>>

-----------------------------------------------------------------------------
Init ==
    /\ forest \in Starts
    /\ exec = [rev |-> 0, live |-> None]
    /\ ready = FALSE
    /\ proposals = [p \in Proposals |-> None]
    /\ previews = [v \in Slots |-> None]
    /\ apps = [v \in Slots |-> None]
    /\ managed = {}
    /\ events = 0

Next ==
    \/ Start
    \/ OtherRequest
    \/ LeaseEnds
    \/ \E p \in {q \in Proposals : proposals[q] = None} :
           \E cmds \in ChangeSets(forest) : Propose(p, cmds)
    \/ \E p \in {q \in Proposals : Pending(q) /\ events < MaxEvents} :
           \E cmds \in Edits(forest) : EditProposal(p, cmds)
    \/ \E p \in Proposals : CloseProposal(p)
    \/ \E i \in Ids : Remap(i)
    \/ \E v \in Slots, group \in Groups : Preview(v, group)
    \/ \E v \in Slots : Apply(v)
    \/ \E v \in Slots : Undo(v)
    \/ \E v \in Slots : PreviewExpires(v)
    \/ \E v \in Slots : UndoCloses(v)
    \/ MaintainRetention

Spec == Init /\ [][Next]_vars

-----------------------------------------------------------------------------
Rows == [status : Statuses, parent : Ids \cup {None}, order : Orders,
         deleted : BOOLEAN, rev : Nat \ {0}]

Policies ==
    [required : BOOLEAN, mode : Modes,
     prov : {None} \cup [kind : {"automatic", "manual"}, reopen : Reopenable]]

\* Every row, policy, proposal and bound is of its kind.
TypeOK ==
    /\ \A i \in Ids : /\ forest.items[i] = None \/ forest.items[i] \in Rows
                     /\ forest.policy[i] \in Policies
    /\ exec.live \in Ids \cup {None} /\ exec.rev \in 0..(2 * MaxEvents)
    /\ \A p \in Proposals :
           \/ proposals[p] = None
           \/ proposals[p].status \in {"pending", "accepted", "closed"}
    /\ managed \subseteq Ids
    /\ events \in 0..MaxEvents

\* Once the server has started, completion of every item is what its policy
\* and its required descendants call for, whichever writes, batches and
\* undos came before; evaluating the forest again succeeds and changes
\* nothing, so no workspace ends up refusing every later write
\* (plan_item_completion, finalize_item_completion_tx, initialize).
ForestIsSettled ==
    ready => Earned(forest) /\ Settle(forest, exec.live, {}) = forest

\* The item being executed stays one that may be executed: no write, batch,
\* undo or derived completion trashes it, closes it or puts a child under it
\* (reject_closing_transition_for_active_execution,
\* reject_parent_for_active_execution, plan_item_completion).
LiveStaysExecutable ==
    exec.live # None =>
        /\ exec.live \in Active(forest)
        /\ Kids(forest, exec.live) = {}
        /\ ~PreventsExecution(forest.items[exec.live].status)

\* Whatever other requests did since the review: if apply accepts a preview,
\* its commands still succeed and give exactly the items and policies the
\* user was shown (canonical_item_hash, lock_preview_proposals).
ReviewStaysTrue ==
    \A v \in Slots :
        Appliable(v) => /\ apps[v] = None
                        /\ Outcome(forest, Reviewed(v), exec.live) = previews[v].shown
                        /\ Changed(forest, previews[v].shown) \cap managed = {}

\* The meaning of an item: its row and policy without its revision.
Meaning(f, i) == <<f.items[i].status, f.items[i].parent, f.items[i].order,
                   f.items[i].deleted, f.policy[i]>>

\* If undo accepts an application, the inverse succeeds, every item the
\* application changed has its earlier content and policy again, derived
\* changes included, every item it created is in the trash, and no other
\* item is touched
\* (validate_completion_undo_evidence, validate_fences, inverse_command).
UndoRestores ==
    \A v \in Slots : Undoable(v) =>
        LET after == UndoOutcome(forest, apps[v].inverse, exec.live)
            base  == apps[v].base
        IN  /\ after # Refused
            /\ FencesAdvance(v, after)
            /\ \A i \in Ids :
                   IF i \notin DOMAIN apps[v].fences THEN after.items[i] = forest.items[i]
                   ELSE IF base.items[i] = None THEN after.items[i].deleted
                   ELSE Meaning(after, i) = Meaning(base, i)

\* If any order of the commands of pending proposals can be carried out, the
\* server finds one, also when a command only fits after a later one
\* (command_execution_order, search_command_execution_order).
OrderIsFound ==
    \A group \in Groups :
        LET cmds == CommandsOf(group)
            Works(o) == Settle(Execute(Staged(forest, cmds), InOrder(cmds, o), exec.live),
                               exec.live, {}) # Refused
        IN  /\ ready
            /\ \A n \in DOMAIN group : Pending(group[n])
            /\ DistinctTargets(cmds) /\ FencesHold(forest, cmds)
            /\ \E o \in SetToSeqs(DOMAIN cmds) : Works(o)
            => Outcome(forest, cmds, exec.live) # Refused
=============================================================================

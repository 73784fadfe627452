------------------------------ MODULE ItemForest ------------------------------
(***************************************************************************)
(* The items of one workspace as the item repository writes them: a forest *)
(* of items, the completion policy of each, and the one execution that may *)
(* be live.  Every write holds the execution lock and the item lock of the *)
(* workspace, changes the rows a command names, refreshes the parents it   *)
(* touches, and re-evaluates completion over the whole active forest, in   *)
(* one transaction: it is one step here, or it is refused as a whole.      *)
(*                                                                         *)
(* Items are one-off tasks without dependencies or blockers; what is left  *)
(* of their content is a sibling order.  The revision of a policy moves    *)
(* only together with its item's and is left out.                          *)
(***************************************************************************)
EXTENDS FiniteSets, Integers

CONSTANTS
    Ids,        \* item identities
    Statuses,   \* the statuses requests use
    Orders,     \* sibling orders
    None,       \* no item, no parent, no provenance, no live execution
    Refused     \* the transaction is rolled back

VARIABLES
    forest,     \* [items, policy], by identity
    exec        \* [rev, live]: revision of the execution state, live item

ASSUME StatusesAssumption ==
    Statuses \subseteq {"inbox", "planned", "scheduled", "in_progress", "paused",
                        "completed", "skipped", "cancelled", "blocked"}

Modes == {"automatic", "keep_open", "complete"}
Reopenable == {"inbox", "planned", "blocked"}
Bodies == [status : Statuses, parent : Ids \cup {None}, order : Orders]

IsTerminal(s) == s \in {"completed", "skipped", "cancelled"}
PreventsExecution(s) == IsTerminal(s) \/ s = "blocked"
IsExecutingState(s) == IsTerminal(s) \/ s \in {"scheduled", "in_progress", "paused"}

EmptyPolicy == [required |-> TRUE, mode |-> "automatic", prov |-> None]

-----------------------------------------------------------------------------
(* The hierarchy.                                                          *)

Active(f) == {i \in Ids : f.items[i] # None /\ ~f.items[i].deleted}

Kids(f, i) == {c \in Active(f) : f.items[c].parent = i}

\* p and everything above it; trashed items keep their edge.
Lineage(f, p) ==
    LET up[n \in 0..Cardinality(Ids)] ==
            IF n = 0 THEN {p} \ {None}
            ELSE LET below == up[n-1]
                 IN  below \cup ({f.items[a].parent : a \in below} \ {None})
    IN  up[Cardinality(Ids)]

QualifiedCompletion(status, policy) == status = "completed" /\ policy.prov # None

ValidParent(f, i, p) ==
    \/ p = None
    \/ /\ p # i
       /\ p \in Active(f)
       /\ IsExecutingState(f.items[p].status) =>
              QualifiedCompletion(f.items[p].status, f.policy[p])
       /\ i \notin Lineage(f, p)

\* Every distinct parent gets a new revision; a trashed one refuses the write.
RefreshParents(f, ps) ==
    IF ps \ {None} \subseteq Active(f)
    THEN [f EXCEPT !.items = [i \in Ids |->
              IF i \in ps THEN [f.items[i] EXCEPT !.rev = @ + 1] ELSE f.items[i]]]
    ELSE Refused

-----------------------------------------------------------------------------
(* Item commands: [op, id, rev, body], and for the inverse of a proposal   *)
(* [op |-> "snapshot", id, row, policy].                                   *)

\* Mutant: a new item starts without a revision.
WrittenAtZero(f, c) ==
    LET old == f.items[c.id]
    IN  CASE c.op \in {"create", "replace"} ->
                 [status |-> c.body.status, parent |-> c.body.parent,
                  order |-> c.body.order, deleted |-> FALSE,
                  rev |-> IF c.op = "create" THEN 0 ELSE old.rev + 1]
          [] c.op \in {"trash", "restore"} ->
                 [old EXCEPT !.deleted = (c.op = "trash"), !.rev = @ + 1]
          [] c.op = "snapshot" -> [c.row EXCEPT !.rev = old.rev + 1]

\* The row a command leaves behind.
Written(f, c) ==
    LET old == f.items[c.id]
    IN  CASE c.op = "create" ->
                 [status |-> c.body.status, parent |-> c.body.parent,
                  order |-> c.body.order, deleted |-> FALSE, rev |-> 1]
          [] c.op = "replace" ->
                 [status |-> c.body.status, parent |-> c.body.parent,
                  order |-> c.body.order, deleted |-> FALSE, rev |-> old.rev + 1]
          [] c.op = "trash" -> [old EXCEPT !.deleted = TRUE, !.rev = @ + 1]
          [] c.op = "restore" -> [old EXCEPT !.deleted = FALSE, !.rev = @ + 1]
          [] c.op = "snapshot" -> [c.row EXCEPT !.rev = old.rev + 1]

PolicyAfter(f, c) == IF c.op = "snapshot" THEN c.policy ELSE f.policy[c.id]

\* The hierarchy admits the command.
Fits(f, c) ==
    LET old == f.items[c.id]
        new == Written(f, c)
    IN  /\ c.op \in {"replace", "trash"} => c.id \in Active(f)
        /\ c.op = "restore" => old # None /\ old.deleted
        /\ c.op = "trash" => Kids(f, c.id) = {}
        /\ c.op \in {"create", "replace", "restore", "snapshot"} /\ ~new.deleted =>
               ValidParent(f, c.id, new.parent)
        /\ /\ c.op \in {"replace", "restore", "snapshot"} /\ ~new.deleted
           /\ Kids(f, c.id) # {} /\ IsExecutingState(new.status)
           => QualifiedCompletion(new.status, PolicyAfter(f, c))

\* Mutant: only the item itself is protected while it is executed.
PermittedUnderLive(f, c, live) ==
    LET old == f.items[c.id]
        new == Written(f, c)
    IN  /\ c.op = "replace" /\ old.status # new.status =>
               f.policy[c.id].mode = "automatic" /\ f.policy[c.id].prov = None
        /\ c.op = "snapshot" /\ c.policy.prov # None => c.row.status = "completed"
        /\ c.op # "create" /\ live = c.id =>
               /\ PreventsExecution(new.status) => PreventsExecution(old.status)
               /\ new.deleted => old.deleted

\* Completion policy and the live execution admit it.
Permitted(f, c, live) ==
    LET old == f.items[c.id]
        new == Written(f, c)
    IN  /\ c.op = "replace" /\ old.status # new.status =>
               f.policy[c.id].mode = "automatic" /\ f.policy[c.id].prov = None
        /\ c.op = "snapshot" /\ c.policy.prov # None => c.row.status = "completed"
        /\ c.op # "create" /\ live = c.id =>
               /\ PreventsExecution(new.status) => PreventsExecution(old.status)
               /\ new.deleted => old.deleted
        /\ live # None /\ live = new.parent /\ ~new.deleted =>
               c.op # "create" /\ ~old.deleted /\ old.parent = new.parent

RefreshedBy(f, c) ==
    LET old == f.items[c.id]
        new == Written(f, c)
    IN  IF c.op = "create" THEN {new.parent}
        ELSE IF <<old.parent, old.order, old.deleted>> # <<new.parent, new.order, new.deleted>>
        THEN {old.parent, new.parent} ELSE {}

Put(f, c) ==
    RefreshParents([items  |-> [f.items EXCEPT ![c.id] = Written(f, c)],
                    policy |-> [f.policy EXCEPT ![c.id] = PolicyAfter(f, c)]],
                   RefreshedBy(f, c))

ApplyCommand(f, c, live) ==
    IF f # Refused /\ Fits(f, c) /\ Permitted(f, c, live) THEN Put(f, c) ELSE Refused

-----------------------------------------------------------------------------
(* Hierarchy completion.                                                   *)

IsOpen(s) == ~IsTerminal(s)

\* What becomes of item i, given whether it has required descendants and
\* whether all of them are completed.  "error" refuses the evaluation.
Decide(f, i, allDone) ==
    LET item  == f.items[i]
        prov  == f.policy[i].prov
        mode  == f.policy[i].mode
        prior == IF prov # None THEN prov.reopen
                 ELSE IF IsOpen(item.status) THEN item.status ELSE None
        By(kind) == [status |-> "completed", prov |-> [kind |-> kind, reopen |-> prior]]
        Kept     == [status |-> item.status, prov |-> prov]
        Open     == [status |-> prior, prov |-> None]
        Error    == [status |-> "error", prov |-> None]
    IN  IF prov # None /\ item.status # "completed" THEN Error
        ELSE IF mode = "automatic"
        THEN IF Kids(f, i) # {} /\ ~IsOpen(item.status) /\ prov = None THEN Error
             ELSE IF allDone THEN IF prior # None THEN By("automatic") ELSE Kept
             ELSE IF prov # None THEN Open ELSE Kept
        ELSE IF prior = None THEN Error
        ELSE IF mode = "keep_open" THEN Open ELSE By("manual")

\* Mutant: only the children count, not what is below them.
DecisionsByChildren(f) ==
    LET branch[i \in Active(f)] ==
            LET req == {branch[c] : c \in {k \in Kids(f, i) : f.policy[k].required}}
            IN  Decide(f, i, req # {} /\ \A d \in req : d.status = "completed")
    IN  branch

\* Bottom up: the required descendants of a required child count for its
\* parent, an optional child ends its branch.
Decisions(f) ==
    LET branch[i \in Active(f)] ==
            LET req  == {branch[c] : c \in {k \in Kids(f, i) : f.policy[k].required}}
                done == \A b \in req : b.done /\ b.decision.status = "completed"
            IN  [done |-> done, decision |-> Decide(f, i, req # {} /\ done)]
    IN  [i \in Active(f) |-> branch[i].decision]

\* plan_item_completion and the rows it writes.  `commanded` holds the item
\* whose policy a client has just set: it gets a new revision in any case.
Settle(f, live, commanded) ==
    IF f = Refused THEN Refused
    ELSE LET decided == Decisions(f)
             changed == {i \in Active(f) :
                            decided[i] # [status |-> f.items[i].status, prov |-> f.policy[i].prov]}
             refused ==
                 \/ \E i \in Active(f) : decided[i].status = "error"
                 \/ \E i \in Active(f) : decided[i].prov # None
                                         /\ decided[i].prov.reopen \notin Reopenable
                 \/ live \in changed /\ decided[live].status # f.items[live].status
         IN  IF refused THEN Refused
             ELSE [items  |-> [i \in Ids |->
                       IF i \in changed \cup commanded
                       THEN [f.items[i] EXCEPT !.rev = @ + 1,
                                               !.status = decided[i].status]
                       ELSE f.items[i]],
                   policy |-> [i \in Ids |->
                       IF i \in changed THEN [f.policy[i] EXCEPT !.prov = decided[i].prov]
                       ELSE f.policy[i]]]

-----------------------------------------------------------------------------
(* Requests.                                                               *)

Commit(f) == f # Refused /\ forest' = f

\* Create, replace, trash and restore; the revision a client names is the
\* current one, any other request is refused.
WriteItem(c) ==
    /\ c.op = "create" => forest.items[c.id] = None
    /\ c.op # "create" => forest.items[c.id] # None /\ c.rev = forest.items[c.id].rev
    /\ Commit(Settle(ApplyCommand(forest, c, exec.live), exec.live, {}))
    /\ UNCHANGED exec

\* A client sets the policy of an item it has just read.
PutCompletion(i, required, mode) ==
    LET policy == forest.policy[i]
        asked  == [forest EXCEPT !.policy[i].required = required, !.policy[i].mode = mode]
    IN  /\ i \in Active(forest)
        /\ Kids(forest, i) = {} /\ policy.mode = "automatic" /\ policy.prov = None =>
               mode = "automatic"
        /\ Commit(Settle(asked, exec.live, {i}))
        /\ UNCHANGED exec

\* Reconciliation at server start, over rows older releases left behind.
Initialize ==
    /\ Commit(Settle(forest, exec.live, {}))
    /\ UNCHANGED exec

\* Execution takes and releases its lease (ExecutionLease has the details).
StartExecution(i) ==
    /\ exec.live = None
    /\ i \in Active(forest)
    /\ Kids(forest, i) = {}
    /\ ~PreventsExecution(forest.items[i].status)
    /\ exec' = [rev |-> exec.rev + 1, live |-> i]
    /\ UNCHANGED forest

EndExecution ==
    /\ exec.live # None
    /\ exec' = [rev |-> exec.rev + 1, live |-> None]
    /\ UNCHANGED forest

-----------------------------------------------------------------------------
(* What a committed forest looks like.                                     *)

\* d counts for i: every item from d up to the child of i is required.
CountsFor(f, d, i) ==
    /\ d # i
    /\ i \in Lineage(f, d)
    /\ \A a \in Lineage(f, d) \ Lineage(f, i) : f.policy[a].required

\* Completion of every active item is the one its policy and descendants
\* call for, and a status of a parent is never one that execution gives.
Earned(f) ==
    \A i \in Active(f) :
        LET required == {d \in Active(f) : CountsFor(f, d, i)}
            allDone  == required # {} /\ \A d \in required : f.items[d].status = "completed"
            policy   == f.policy[i]
        IN  /\ policy.mode = "complete" =>
                   f.items[i].status = "completed" /\ policy.prov # None
            /\ policy.mode = "keep_open" => IsOpen(f.items[i].status) /\ policy.prov = None
            /\ policy.mode = "automatic" => (policy.prov # None) = allDone
            /\ policy.prov # None => policy.prov.reopen \in Reopenable
            /\ Kids(f, i) # {} /\ IsExecutingState(f.items[i].status) =>
                   QualifiedCompletion(f.items[i].status, policy)
=============================================================================

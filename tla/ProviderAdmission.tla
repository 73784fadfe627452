------------------------- MODULE ProviderAdmission -------------------------
(***************************************************************************)
(* Admission of Google operations while an account is being deleted        *)
(* (provider_admission.rs, provider_admission_repository.rs and the fence  *)
(* of account_deletion_repository.rs), for one workspace owner.            *)
(*                                                                         *)
(* Every runtime has a controller with a sticky local closure and a count  *)
(* of operation owners.  A durable controller also registers each          *)
(* operation in PostgreSQL before it is polled and removes the row only    *)
(* after every context of the operation has returned normally.  Closing    *)
(* and draining happen outside any transaction; the fence rechecks the     *)
(* registry inside one.  Registry transactions hold the registry mutex to  *)
(* their commit, so each is one step, taken when it commits; its answer    *)
(* may arrive later, or never.                                             *)
(*                                                                         *)
(* Operation ids are fresh UUIDs: home says which runtime draws which.     *)
(***************************************************************************)
EXTENDS Naturals, FiniteSets

CONSTANTS
    None,
    Runtimes,     \* runtime ids; a restarted process is another runtime
    Operations,   \* operation ids
    Homes,        \* the ways to give each operation its runtime
    Deletions,    \* account deletion lifecycles
    MaxContexts   \* bound: contexts one operation hands out in all

ASSUME AdmissionAssumption ==
    /\ Homes \subseteq [Operations -> Runtimes]
    /\ None \notin Deletions
    /\ MaxContexts \in Nat \ {0}

VARIABLES
    durable,      \* PostgreSQL-backed controllers, or local ones
    home,         \* the runtime of each operation
    up,           \* the process of the runtime is running
    closing,      \* State::deletion_id of each controller
    phase,        \* how far each operation is
    contexts,     \* OperationCompletion guards alive
    spare,        \* contexts the operation may still hand out
    interrupted,  \* OperationOwner::interrupted
    drain,        \* where each runtime's close_and_drain is
    drainFor,     \* the deletion it drains for
    woken,        \* its Notified future has been notified
    closedFor,    \* provider_admission_scopes.closed_for_deletion_id
    rows,         \* provider_admission_operations
    status,       \* account_deletion_lifecycles.status
    fence         \* account_deletion_fences

operationVars == <<phase, contexts, spare, interrupted>>
drainVars == <<drain, drainFor, woken>>
registryVars == <<closedFor, rows, status, fence>>
vars == <<up, closing, operationVars, drainVars, registryVars>>
deployment == <<durable, home>>

Phases ==
    {"idle",
     "entering",    \* owned locally, registration not yet committed
     "committed",   \* row committed, answer not yet here
     "running",     \* polled
     "settling",    \* finished normally, row to be removed
     "orphaned",    \* given up locally, the commit may still be under way
     "crashed",     \* the process died with provider work under way
     "done"}

\* An OperationOwner exists: what State::active counts.
Owned == {"entering", "committed", "running"}
Active(r) == {o \in Operations : home[o] = r /\ phase[o] \in Owned}

Draining == {"closing", "arming", "reading", "checking", "parking", "waiting"}

TypeOK ==
    /\ durable \in BOOLEAN
    /\ home \in [Operations -> Runtimes]
    /\ up \in [Runtimes -> BOOLEAN]
    /\ closing \in [Runtimes -> Deletions \cup {None}]
    /\ phase \in [Operations -> Phases]
    /\ contexts \in [Operations -> Nat]
    /\ spare \in [Operations -> Nat]
    /\ interrupted \in [Operations -> BOOLEAN]
    /\ drain \in [Runtimes -> Draining \cup {"none", "proof"}]
    /\ drainFor \in [Runtimes -> Deletions \cup {None}]
    /\ woken \in [Runtimes -> BOOLEAN]
    /\ closedFor \in Deletions \cup {None}
    /\ rows \in SUBSET Operations
    /\ status \in [Deletions -> {"none", "prepared", "cancelled", "fence_committing"}]
    /\ fence \in Deletions \cup {None}

Init ==
    /\ durable \in BOOLEAN
    /\ home \in Homes
    /\ up = [r \in Runtimes |-> TRUE]
    /\ closing = [r \in Runtimes |-> None]
    /\ phase = [o \in Operations |-> "idle"]
    /\ contexts = [o \in Operations |-> 0]
    /\ spare = [o \in Operations |-> MaxContexts]
    /\ interrupted = [o \in Operations |-> FALSE]
    /\ drain = [r \in Runtimes |-> "none"]
    /\ drainFor = [r \in Runtimes |-> None]
    /\ woken = [r \in Runtimes |-> FALSE]
    /\ closedFor = None
    /\ rows = {}
    /\ status = [d \in Deletions |-> "none"]
    /\ fence = None

(***************************************************************************)
(* Operations                                                              *)
(***************************************************************************)
\* Mutant: only the fence closes the registry.
OpenUntilFenced == fence = None

\* register and the trigger behind it refuse a closed or fenced scope.
Open == closedFor = None /\ fence = None

\* enter_local: the closure is read and the owner counted under one mutex.
EnterLocal(o) ==
    /\ up[home[o]]
    /\ phase[o] = "idle"
    /\ closing[home[o]] = None
    /\ phase' = [phase EXCEPT ![o] = IF durable THEN "entering" ELSE "running"]
    /\ contexts' = [contexts EXCEPT ![o] = IF durable THEN 0 ELSE 1]
    /\ spare' = [spare EXCEPT ![o] = @ - 1]
    /\ UNCHANGED <<up, closing, interrupted, drainVars, registryVars>>

\* Mutant: the operation is recorded without looking at the scope.
RegisterUnchecked(o) ==
    /\ phase[o] = "entering"
    /\ rows' = rows \cup {o}
    /\ phase' = [phase EXCEPT ![o] = "committed"]
    /\ UNCHANGED <<up, closing, contexts, spare, interrupted, drainVars,
                   closedFor, status, fence>>

\* register: the guard and the insertion of one transaction.
Register(o) ==
    /\ phase[o] = "entering"
    /\ Open
    /\ rows' = rows \cup {o}
    /\ phase' = [phase EXCEPT ![o] = "committed"]
    /\ UNCHANGED <<up, closing, contexts, spare, interrupted, drainVars,
                   closedFor, status, fence>>

\* Mutant: the completion guard is only made at the first poll.
BeginUnguarded(o) ==
    /\ phase[o] = "committed"
    /\ phase' = [phase EXCEPT ![o] = "running"]
    /\ UNCHANGED <<up, closing, contexts, spare, interrupted, drainVars, registryVars>>

\* The answer arrives, and only now is provider work polled.
Begin(o) ==
    /\ phase[o] = "committed"
    /\ phase' = [phase EXCEPT ![o] = "running"]
    /\ contexts' = [contexts EXCEPT ![o] = 1]
    /\ UNCHANGED <<up, closing, spare, interrupted, drainVars, registryVars>>

\* notify_waiters reaches the Notified future that exists now, if one does.
Notified(r) ==
    [woken EXCEPT ![r] = @ \/ drain[r] \in {"reading", "checking", "parking", "waiting"}]

\* The owner of o is dropped; the last owner notifies the drain.
DropOwner(o, next) ==
    /\ phase' = [phase EXCEPT ![o] = next]
    /\ woken' = IF Active(home[o]) = {o} THEN Notified(home[o]) ELSE woken

\* Registration was refused.
Refused(o) ==
    /\ phase[o] = "entering"
    /\ ~Open
    /\ DropOwner(o, "done")
    /\ UNCHANGED <<up, closing, contexts, spare, interrupted, drain, drainFor,
                   registryVars>>

\* The caller is cancelled, or the answer is an error: whether the row is
\* there is unknown, and it is not retired.
Abandon(o) ==
    /\ phase[o] \in {"entering", "committed"}
    /\ DropOwner(o, IF phase[o] = "entering" THEN "orphaned" ELSE "done")
    /\ UNCHANGED <<up, closing, contexts, spare, interrupted, drain, drainFor,
                   registryVars>>

\* The commit of an abandoned registration goes through after all.
LateRegister(o) ==
    /\ phase[o] = "orphaned"
    /\ Open
    /\ rows' = rows \cup {o}
    /\ phase' = [phase EXCEPT ![o] = "done"]
    /\ UNCHANGED <<up, closing, contexts, spare, interrupted, drainVars,
                   closedFor, status, fence>>

\* A context hands its ownership to nested or detached work.
Spawn(o) ==
    /\ phase[o] = "running"
    /\ spare[o] > 0
    /\ contexts' = [contexts EXCEPT ![o] = @ + 1]
    /\ spare' = [spare EXCEPT ![o] = @ - 1]
    /\ UNCHANGED <<up, closing, phase, interrupted, drainVars, registryVars>>

\* Mutant: an operation is settled although one of its contexts was dropped.
AfterLastContextSettles(cut) == IF durable THEN "settling" ELSE "done"

AfterLastContext(cut) == IF durable /\ ~cut THEN "settling" ELSE "done"

\* A context returns, or is dropped before it could; the last one drops the
\* owner, which settles only what is known to have finished.
EndContext(o, cut) ==
    /\ phase[o] = "running"
    /\ contexts' = [contexts EXCEPT ![o] = @ - 1]
    /\ interrupted' = [interrupted EXCEPT ![o] = @ \/ cut]
    /\ IF contexts[o] = 1
       THEN DropOwner(o, AfterLastContext(interrupted[o] \/ cut))
       ELSE UNCHANGED <<phase, woken>>
    /\ UNCHANGED <<up, closing, spare, drain, drainFor, registryVars>>

Finish(o) == EndContext(o, FALSE)
Interrupt(o) == EndContext(o, TRUE)

\* settle, retried until it is answered; the answer may be lost.
Settle(o) ==
    /\ phase[o] = "settling"
    /\ rows' = rows \ {o}
    /\ phase' = [phase EXCEPT ![o] = "done"]
    /\ woken' = Notified(home[o])
    /\ UNCHANGED <<up, closing, contexts, spare, interrupted, drain, drainFor,
                   closedFor, status, fence>>

SettleUnanswered(o) ==
    /\ phase[o] = "settling"
    /\ o \in rows
    /\ rows' = rows \ {o}
    /\ UNCHANGED <<up, closing, operationVars, drainVars, closedFor, status, fence>>

\* The process dies: its memory is gone, provider work may go on.
AfterCrash ==
    [entering |-> "orphaned", committed |-> "done", running |-> "crashed",
     settling |-> "done"]

Crash(r) ==
    /\ up[r]
    /\ up' = [up EXCEPT ![r] = FALSE]
    /\ phase' = [o \in Operations |->
                    IF home[o] = r /\ phase[o] \in DOMAIN AfterCrash
                    THEN AfterCrash[phase[o]] ELSE phase[o]]
    /\ drain' = [drain EXCEPT ![r] = "none"]
    /\ UNCHANGED <<closing, contexts, spare, interrupted, drainFor, woken,
                   registryVars>>

(***************************************************************************)
(* close_and_drain                                                         *)
(***************************************************************************)
Step(r, from, to) ==
    /\ drain[r] = from
    /\ drain' = [drain EXCEPT ![r] = to]

\* The local closure, which nothing ever lifts.
StartDrain(r, d) ==
    /\ up[r]
    /\ closing[r] \in {None, d}
    /\ Step(r, "none", IF durable THEN "closing" ELSE "arming")
    /\ closing' = [closing EXCEPT ![r] = d]
    /\ drainFor' = [drainFor EXCEPT ![r] = d]
    /\ UNCHANGED <<up, operationVars, woken, registryVars>>

Live(d) == status[d] \notin {"none", "cancelled"}

\* close: the durable closure commits before the drain begins to wait.
CloseScope(r) ==
    /\ Step(r, "closing", "arming")
    /\ Live(drainFor[r])
    /\ closedFor \in {None, drainFor[r]}
    /\ closedFor' = drainFor[r]
    /\ UNCHANGED <<up, closing, operationVars, drainFor, woken, rows, status, fence>>

\* A fresh Notified future is enabled before the owners are counted.
Arm(r) ==
    /\ Step(r, "arming", "reading")
    /\ woken' = [woken EXCEPT ![r] = FALSE]
    /\ UNCHANGED <<up, closing, operationVars, drainFor, registryVars>>

CountOwners(r) ==
    /\ Step(r, "reading",
            IF Active(r) # {} THEN "parking"
            ELSE IF durable THEN "checking" ELSE "proof")
    /\ UNCHANGED <<up, closing, operationVars, drainFor, woken, registryVars>>

\* is_drained, one statement's snapshot of the registry.
CheckRegistry(r) ==
    /\ Step(r, "checking",
            IF closedFor = drainFor[r] /\ rows = {} THEN "proof" ELSE "parking")
    /\ Live(drainFor[r])
    /\ closedFor \in {None, drainFor[r]}
    /\ UNCHANGED <<up, closing, operationVars, drainFor, woken, registryVars>>

\* close and is_drained answer ConflictingDeletion; the closures stay.
Conflict(r) ==
    /\ drain[r] \in {"closing", "checking"}
    /\ ~Live(drainFor[r]) \/ closedFor \notin {None, drainFor[r]}
    /\ drain' = [drain EXCEPT ![r] = "none"]
    /\ UNCHANGED <<up, closing, operationVars, drainFor, woken, registryVars>>

\* Mutant: the future is enabled only when it is first awaited.
ParkArming(r) ==
    /\ Step(r, "parking", "waiting")
    /\ woken' = [woken EXCEPT ![r] = FALSE]
    /\ UNCHANGED <<up, closing, operationVars, drainFor, registryVars>>

Park(r) ==
    /\ Step(r, "parking", "waiting")
    /\ UNCHANGED <<up, closing, operationVars, drainFor, woken, registryVars>>

\* The notification, or a durable controller's 250 ms poll.
Wake(r) ==
    /\ durable \/ woken[r]
    /\ Step(r, "waiting", "arming")
    /\ UNCHANGED <<up, closing, operationVars, drainFor, woken, registryVars>>

\* The drain is cancelled, the database fails, or the proof is dropped.
GiveUp(r) ==
    /\ drain[r] # "none"
    /\ drain' = [drain EXCEPT ![r] = "none"]
    /\ UNCHANGED <<up, closing, operationVars, drainFor, woken, registryVars>>

(***************************************************************************)
(* The deletion lifecycle, as far as admission and the fence depend on it  *)
(***************************************************************************)
Prepare(d) ==
    /\ status[d] = "none"
    /\ fence = None
    /\ \A e \in Deletions : ~Live(e)
    /\ status' = [status EXCEPT ![d] = "prepared"]
    /\ UNCHANGED <<up, closing, operationVars, drainVars, closedFor, rows, fence>>

\* The closure outlives the cancelled lifecycle.
Cancel(d) ==
    /\ status[d] = "prepared"
    /\ status' = [status EXCEPT ![d] = "cancelled"]
    /\ UNCHANGED <<up, closing, operationVars, drainVars, closedFor, rows, fence>>

\* close_provider_admission_if_ready: closes only a registry without rows.
CloseIfReady(d) ==
    /\ status[d] = "prepared"
    /\ closedFor \in {None, d}
    /\ rows = {}
    /\ closedFor' = d
    /\ UNCHANGED <<up, closing, operationVars, drainVars, rows, status, fence>>

\* begin_fence: the proof is matched before the transaction, the registry
\* rechecked in it.
Fence(r, d) ==
    /\ durable
    /\ drain[r] = "proof" /\ drainFor[r] = d
    /\ closing[r] = d /\ Active(r) = {}
    /\ closedFor = d /\ rows = {}
    /\ status[d] = "prepared"
    /\ status' = [status EXCEPT ![d] = "fence_committing"]
    /\ fence' = d
    /\ UNCHANGED <<up, closing, operationVars, drainVars, closedFor, rows>>

OperationStep(o) ==
    \/ EnterLocal(o) \/ Register(o) \/ Begin(o) \/ Refused(o) \/ Abandon(o)
    \/ LateRegister(o) \/ Spawn(o) \/ Finish(o) \/ Interrupt(o)
    \/ Settle(o) \/ SettleUnanswered(o)

RuntimeStep(r) ==
    \/ CloseScope(r) \/ Arm(r) \/ CountOwners(r) \/ CheckRegistry(r)
    \/ Conflict(r) \/ Park(r) \/ Wake(r) \/ GiveUp(r) \/ Crash(r)
    \/ \E d \in Deletions : StartDrain(r, d) \/ Fence(r, d)

DeletionStep(d) == Prepare(d) \/ Cancel(d) \/ CloseIfReady(d)

Next ==
    /\ \/ \E o \in Operations : OperationStep(o)
       \/ \E r \in Runtimes : RuntimeStep(r)
       \/ \E d \in Deletions : DeletionStep(d)
    /\ UNCHANGED deployment

Spec == Init /\ [][Next]_<<deployment, vars>>

\* The steps a live process is bound to take: registrations are answered,
\* provider calls end (they have timeouts), a settlement is retried until it
\* succeeds, and a drain is a task of the same executor.
Fairness ==
    /\ \A o \in Operations :
          /\ WF_vars(Register(o) \/ Refused(o) \/ Begin(o) \/ Abandon(o))
          /\ WF_vars(Finish(o) \/ Interrupt(o))
          /\ WF_vars(Settle(o))
    /\ \A r \in Runtimes :
          WF_vars(\/ CloseScope(r) \/ Arm(r) \/ CountOwners(r) \/ CheckRegistry(r)
                  \/ Conflict(r) \/ Park(r) \/ Wake(r))

FairSpec == Spec /\ Fairness

(***************************************************************************)
(* Properties                                                              *)
(***************************************************************************)
\* Provider work that may be under way, or was cut off with its outcome
\* unknown, has its row, whatever was lost, cancelled or crashed: only a
\* normal end of every context lets OperationOwner::drop settle the row.
UncertainWorkIsRegistered ==
    durable => \A o \in Operations :
        (phase[o] \in {"committed", "running", "crashed"} \/ interrupted[o])
            => o \in rows

\* A proof that close_and_drain has handed out stays true for as long as it
\* is held: no owner in its runtime, the closure its own, and, with a durable
\* controller, no row of any runtime, late commits included.
ProofStaysTrue ==
    \A r \in Runtimes : drain[r] = "proof" =>
        /\ Active(r) = {}
        /\ closing[r] = drainFor[r]
        /\ durable => closedFor = drainFor[r] /\ rows = {}

\* Once the fence is committed no runtime has provider work registered or
\* under way, and none that could have survived a crash.
FencedIsQuiet ==
    fence # None =>
        /\ rows = {}
        /\ \A o \in Operations : phase[o] \notin {"committed", "running", "crashed"}

Unaccounted == {o \in rows : phase[o] \in {"done", "crashed"}}

\* close_and_drain comes to an end, with a proof or an error, unless some row
\* has nobody left to settle it (the case that needs recovery).
DrainEnds ==
    \A r \in Runtimes :
        drain[r] \in Draining ~> (drain[r] \notin Draining \/ Unaccounted # {})
=============================================================================

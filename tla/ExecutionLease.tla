--------------------------- MODULE ExecutionLease ---------------------------
(***************************************************************************)
(* The workspace's single execution lease: ExecutionService::command       *)
(* (execution/service.rs) over the transaction of                          *)
(* persistence/execution_repository.rs.                                    *)
(*                                                                         *)
(* A request captures the wall clock once, on arrival, looks for a         *)
(* remembered answer, validates, and only then enters the transaction that *)
(* reserves its idempotency key, compares the expected revision and        *)
(* applies the command: other requests, item edits, clock movements and a  *)
(* crash of the server fall between those steps.  The transaction holds    *)
(* the idempotency row and the execution_state row until it commits, so it *)
(* is one step.  The schedule and occurrence checks of Start and the       *)
(* assessment check of Defer can only refuse a command that is allowed     *)
(* here; they and the replacement claim of Defer are left out.             *)
(***************************************************************************)
EXTENDS ExecutionSession, Sequences

CONSTANTS
    Clients,         \* requests that can be in flight at once
    Keys,            \* idempotency keys
    IdempotencyTtl,  \* IDEMPOTENCY_TTL in ticks
    CommandInputs,   \* command types offered by clients
    SecondsInputs,   \* seconds that clients send
    InstantInputs,   \* instants that clients send
    Rollbacks,       \* instants to which the wall clock may be set back
    MaxTime,         \* bound: instants of the wall clock
    MaxForward,      \* bound: total forward movement of the wall clock
    MaxRevision,     \* bound: committed commands
    MaxItemRevision  \* bound: item edits

ASSUME LeaseAssumption ==
    /\ IdempotencyTtl \in Nat
    /\ CommandInputs \subseteq CommandTypes
    /\ SecondsInputs \subseteq Nat
    /\ InstantInputs \subseteq Nat /\ Rollbacks \subseteq Nat
    /\ MaxTime \in Nat /\ MaxForward \in Nat
    /\ MaxRevision \in Nat /\ MaxItemRevision \in Nat

VARIABLES
    wall,          \* the host's wall clock
    revision, active, updatedAt,   \* the execution_state row
    sessions,      \* execution_sessions
    idempotency,   \* idempotency_keys of the execution namespace
    outbox,        \* outbox_messages, one per committed command
    item,          \* items: revision and whether a session may start on it
    request,       \* the request each client has in flight
    answer,        \* the last success each client was told
    forward,       \* history: how far the wall clock has moved forward
    startForward   \* history: forward when the session's Start was captured

lease == <<revision, active, updatedAt, sessions, idempotency, outbox>>
vars == <<wall, lease, item, request, answer, forward, startForward>>

(***************************************************************************)
(* Types                                                                   *)
(***************************************************************************)
\* The digest of the request body covers the expected revision (http.rs).
Fingerprint == [expected : Nat, command : Command]
Request ==
    [step : {"received", "validated"}, key : Keys,
     print : Fingerprint, now : Nat, forward : Nat]
Remembered == [print : Fingerprint, expiresAt : Nat, revision : Nat]
Told == [key : Keys, print : Fingerprint, revision : Nat, replayed : BOOLEAN]

TypeOK ==
    /\ wall \in Nat
    /\ revision \in Nat
    /\ active \in Option(SessionIds)
    /\ updatedAt \in Nat
    /\ sessions \in [SessionIds -> Session]
    /\ idempotency \in [Keys -> Option(Remembered)]
    /\ outbox \in Seq(Fingerprint)
    /\ item \in [Items -> [revision : Nat \ {0}, startable : BOOLEAN]]
    /\ request \in [Clients -> Option(Request)]
    /\ answer \in [Clients -> Option(Told)]
    /\ forward \in Nat
    /\ startForward \in [SessionIds -> Nat]

Init ==
    /\ wall = 0
    /\ revision = 0
    /\ active = None
    /\ updatedAt = 0
    /\ sessions = [s \in SessionIds |-> NoSession]
    /\ idempotency = [k \in Keys |-> None]
    /\ outbox = <<>>
    /\ item = [i \in Items |-> [revision |-> 1, startable |-> TRUE]]
    /\ request = [c \in Clients |-> None]
    /\ answer = [c \in Clients |-> None]
    /\ forward = 0
    /\ startForward = [s \in SessionIds |-> 0]

(***************************************************************************)
(* The environment: the clock, item edits, and what clients send.          *)
(***************************************************************************)
ClockForward ==
    /\ wall < MaxTime
    /\ forward < MaxForward
    /\ wall' = wall + 1
    /\ forward' = forward + 1
    /\ UNCHANGED <<lease, item, request, answer, startForward>>

ClockBack ==
    /\ \E t \in Rollbacks : t < wall /\ wall' = t
    /\ UNCHANGED <<lease, item, request, answer, forward, startForward>>

LiveItem == IF active = None THEN None ELSE sessions[active].item

\* An item mutation: the repository refuses one that would stop the live
\* item from being executable.
ItemChange(i) ==
    /\ item[i].revision < MaxItemRevision
    /\ \E startable \in BOOLEAN :
          /\ i = LiveItem => startable
          /\ item' = [item EXCEPT ![i] = [revision |-> @.revision + 1,
                                          startable |-> startable]]
    /\ UNCHANGED <<wall, lease, request, answer, forward, startForward>>

\* What clients send, pauses bounded in both ways included.
ResumeInputs ==
    [type : {"resume"}, session : SessionIds, item : {None}, itemRevision : {0},
     actual : {None}, duration : {None}, until : {None},
     moveStart : {None}, moveEnd : {None}]
StartInputs ==
    [type : {"start"}, session : SessionIds,
     item : Items, itemRevision : 1..MaxItemRevision,
     actual : {None}, duration : {None}, until : {None},
     moveStart : {None}, moveEnd : {None}]
PauseInputs ==
    [type : {"pause"}, session : SessionIds,
     item : {None}, itemRevision : {0}, actual : {None},
     duration : Option(SecondsInputs), until : Option(InstantInputs),
     moveStart : {None}, moveEnd : {None}]
FinishInputs ==
    [type : {"complete", "skip"}, session : SessionIds,
     item : {None}, itemRevision : {0}, actual : Option(SecondsInputs),
     duration : {None}, until : {None}, moveStart : {None}, moveEnd : {None}]
DeferInputs ==
    [type : {"defer"}, session : SessionIds,
     item : {None}, itemRevision : {0}, actual : Option(SecondsInputs),
     duration : {None}, until : {None},
     moveStart : InstantInputs, moveEnd : InstantInputs]

Inputs ==
    {cmd \in StartInputs \cup PauseInputs \cup ResumeInputs
             \cup FinishInputs \cup DeferInputs : cmd.type \in CommandInputs}

\* A client sends a command under a revision some snapshot or answer has
\* shown it; a retry sends the same key, revision and command again.
Receive(c) ==
    /\ request[c] = None
    /\ \E k \in Keys, expected \in 0..revision, cmd \in Inputs :
          /\ cmd.item # None => cmd.itemRevision <= item[cmd.item].revision
          /\ request' = [request EXCEPT ![c] =
                 [step |-> "received", key |-> k,
                  print |-> [expected |-> expected, command |-> cmd],
                  now |-> wall, forward |-> forward]]
    /\ UNCHANGED <<wall, lease, item, answer, forward, startForward>>

(***************************************************************************)
(* The service and the transaction.                                        *)
(***************************************************************************)
Drop(c) == request' = [request EXCEPT ![c] = None]

Answer(c, rev, replayed) ==
    answer' = [answer EXCEPT ![c] =
        [key |-> request[c].key, print |-> request[c].print,
         revision |-> rev, replayed |-> replayed]]

\* A row that the given instant does not see as expired.
Remembers(k, now) ==
    idempotency[k] # None /\ idempotency[k].expiresAt > now

\* Replays, and the refusal of a key that was used for something else.
ReplayOrConflict(c) ==
    LET r == request[c] IN
    /\ Remembers(r.key, r.now)
    /\ Drop(c)
    /\ IF idempotency[r.key].print = r.print
       THEN Answer(c, idempotency[r.key].revision, TRUE)
       ELSE UNCHANGED answer

StartableItem(cmd) ==
    cmd.type = "start" =>
        /\ item[cmd.item].revision = cmd.itemRevision
        /\ item[cmd.item].startable

\* ExecutionRepository::replay, outside any transaction.
ReplayLookup(c) ==
    /\ request[c] # None /\ request[c].step = "received"
    /\ ReplayOrConflict(c)
    /\ UNCHANGED <<wall, lease, item, forward, startForward>>

\* Nothing remembered: validate, and read the item that Start names.
Validate(c) ==
    LET r == request[c] IN
    /\ r # None /\ r.step = "received"
    /\ ~Remembers(r.key, r.now)
    /\ IF Validates(r.print.command, r.now) /\ StartableItem(r.print.command)
       THEN request' = [request EXCEPT ![c].step = "validated"]
       ELSE Drop(c)
    /\ UNCHANGED <<wall, lease, item, answer, forward, startForward>>

\* Mutant: a clock that stands still yields the same instant again.
NextProtocolTimeNotStrict(now, previous) ==
    IF now > previous THEN now ELSE previous

\* Strictly after every earlier transition, whatever the wall clock says.
NextProtocolTime(now, previous) ==
    IF now > previous THEN now ELSE previous + 1

TransitionAt(now) ==
    IF revision > 0 THEN NextProtocolTime(now, updatedAt) ELSE now

\* reserve_idempotency inside the transaction found a live row.
ApplyReplay(c) ==
    /\ request[c] # None /\ request[c].step = "validated"
    /\ ReplayOrConflict(c)
    /\ UNCHANGED <<wall, lease, item, forward, startForward>>

\* Mutants: Start without one of its three checks.
CanStartWhileHeld(cmd) ==
    /\ cmd.type = "start"
    /\ StartableItem(cmd)
    /\ sessions[cmd.session].status = "none"

CanStartFromEarlierRead(cmd) ==
    /\ cmd.type = "start"
    /\ active = None
    /\ sessions[cmd.session].status = "none"

CanStartOverExisting(cmd) ==
    /\ cmd.type = "start"
    /\ active = None
    /\ StartableItem(cmd)

CanStart(cmd) ==
    /\ cmd.type = "start"
    /\ active = None
    /\ StartableItem(cmd)
    /\ sessions[cmd.session].status = "none"

\* Every other command names the active session and is causal.
CanUpdate(r) ==
    LET cmd == r.print.command IN
    /\ cmd.type # "start"
    /\ active = cmd.session
    /\ Causal(sessions[cmd.session], TransitionAt(r.now), r.now)

\* Mutant: the revision is not compared.
EnteredUnderAnyRevision(c) ==
    /\ request[c] # None /\ request[c].step = "validated"
    /\ ~Remembers(request[c].key, request[c].now)
    /\ revision < MaxRevision

\* The transaction gets past the reservation and the revision check.
Entered(c) ==
    /\ request[c] # None /\ request[c].step = "validated"
    /\ ~Remembers(request[c].key, request[c].now)
    /\ request[c].print.expected = revision
    /\ revision < MaxRevision

\* Everything a command's transaction writes once its session is computed.
Commit(c, changed) ==
    LET r == request[c]
        id == r.print.command.session IN
    /\ sessions' = [sessions EXCEPT ![id] = changed]
    /\ revision' = revision + 1
    /\ active' = IF changed.status \in Open THEN id ELSE None
    /\ updatedAt' = TransitionAt(r.now)
    /\ outbox' = Append(outbox, r.print)
    /\ idempotency' = [idempotency EXCEPT ![r.key] =
           [print |-> r.print, expiresAt |-> r.now + IdempotencyTtl,
            revision |-> revision + 1]]
    /\ Answer(c, revision + 1, FALSE)
    /\ Drop(c)
    /\ UNCHANGED <<wall, item, forward>>

Start(c) ==
    LET r == request[c]
        cmd == r.print.command IN
    /\ Entered(c)
    /\ CanStart(cmd)
    /\ Commit(c, StartSession(cmd, TransitionAt(r.now), r.now))
    /\ startForward' = [startForward EXCEPT ![cmd.session] = r.forward]

Pause(c) ==
    LET r == request[c]
        cmd == r.print.command
        s == sessions[cmd.session]
        at == TransitionAt(r.now) IN
    /\ Entered(c)
    /\ CanUpdate(r)
    /\ CanPause(s, cmd, at)
    /\ Commit(c, PauseSession(s, cmd, at, r.now))
    /\ UNCHANGED startForward

Resume(c) ==
    LET r == request[c]
        cmd == r.print.command
        s == sessions[cmd.session] IN
    /\ Entered(c)
    /\ CanUpdate(r)
    /\ CanResume(s, cmd)
    /\ Commit(c, ResumeSession(s, TransitionAt(r.now), r.now))
    /\ UNCHANGED startForward

\* Complete and Skip.
Finish(c) ==
    LET r == request[c]
        cmd == r.print.command
        s == sessions[cmd.session] IN
    /\ Entered(c)
    /\ CanUpdate(r)
    /\ CanFinish(s, cmd, r.now)
    /\ Commit(c, ClosedSession(s, cmd, TransitionAt(r.now), r.now))
    /\ UNCHANGED startForward

Defer(c) ==
    LET r == request[c]
        cmd == r.print.command
        s == sessions[cmd.session]
        at == TransitionAt(r.now) IN
    /\ Entered(c)
    /\ CanUpdate(r)
    /\ CanDefer(s, cmd, at, r.now)
    /\ Commit(c, DeferSession(s, cmd, at, r.now))
    /\ UNCHANGED startForward

Admits(r) ==
    LET cmd == r.print.command
        s == sessions[cmd.session]
        at == TransitionAt(r.now) IN
    /\ r.print.expected = revision
    /\ \/ CanStart(cmd)
       \/ /\ CanUpdate(r)
          /\ \/ CanPause(s, cmd, at)
             \/ CanResume(s, cmd)
             \/ CanFinish(s, cmd, r.now)
             \/ CanDefer(s, cmd, at, r.now)

\* Any refusal rolls the whole transaction back, the reservation included.
Refuse(c) ==
    /\ request[c] # None /\ request[c].step = "validated"
    /\ ~Remembers(request[c].key, request[c].now)
    /\ ~Admits(request[c])
    /\ Drop(c)
    /\ UNCHANGED <<wall, lease, item, answer, forward, startForward>>

\* The server dies, or the client gives up: the request is gone, and its
\* effect is whatever had been committed.
Lose(c) ==
    /\ request[c] # None
    /\ Drop(c)
    /\ UNCHANGED <<wall, lease, item, answer, forward, startForward>>

Next ==
    \/ ClockForward
    \/ ClockBack
    \/ \E i \in Items : ItemChange(i)
    \/ \E c \in Clients :
          \/ Receive(c)
          \/ ReplayLookup(c)
          \/ Validate(c)
          \/ ApplyReplay(c)
          \/ Start(c)
          \/ Pause(c)
          \/ Resume(c)
          \/ Finish(c)
          \/ Defer(c)
          \/ Refuse(c)
          \/ Lose(c)

Spec == Init /\ [][Next]_vars

(***************************************************************************)
(* Properties                                                              *)
(***************************************************************************)

\* At most one session of the workspace is active or paused, and the
\* execution_state row points at exactly that session: no interleaving of
\* starts, finishes, retries and crashes leaves an open session nobody can
\* finish or a pointer to a finished one.
OneLease ==
    \A s \in SessionIds : sessions[s].status \in Open <=> active = s

\* Seconds charged to a session never exceed the forward movement of the
\* wall clock since its Start was captured, although the clock may jump back
\* between any two steps and the protocol clock then runs ahead of it.
CreditedTimeIsReal ==
    \A s \in SessionIds :
        sessions[s].accumulated * Second <= forward - startForward[s]

\* History is served newest first by updated_at (and the id, which clients
\* choose): no two sessions share an instant and none is ahead of the lease,
\* so the order of history pages is the order of the commits.
HistoryOrderIsCommitOrder ==
    \A s, t \in SessionIds :
        sessions[s].status # "none" =>
            /\ sessions[s].updatedAt <= updatedAt
            /\ s # t /\ sessions[t].status # "none" =>
                  sessions[s].updatedAt # sessions[t].updatedAt

\* A success names the commit made for exactly that revision and command,
\* first-hand or replayed, however late; and no request is committed twice,
\* even when its idempotency row has expired before the retry.
AppliedAtMostOnce ==
    /\ \A c \in Clients : answer[c] # None =>
          /\ answer[c].revision \in 1..Len(outbox)
          /\ outbox[answer[c].revision] = answer[c].print
    /\ \A i, j \in 1..Len(outbox) : outbox[i] = outbox[j] => i = j

\* Every row the domain writes passes the CHECK constraints of the table (and
\* so the decoder that reads it back), whatever time passed between the
\* validation of the command and its transition.
RowsFitTable ==
    \A s \in SessionIds :
        sessions[s].status # "none" => TableAccepts(sessions[s])

\* The item of the live session can be executed, although the item is read
\* before the transaction and edited by others in between.
LiveItemIsExecutable ==
    active # None => item[LiveItem].startable

\* A completed, skipped or deferred session never changes again: a retried or
\* late command cannot reopen or rewrite history.
TerminalIsFinal ==
    [][\A s \in SessionIds :
           sessions[s].status \in Terminal => sessions'[s] = sessions[s]]_vars
=============================================================================

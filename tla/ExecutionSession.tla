-------------------------- MODULE ExecutionSession --------------------------
(***************************************************************************)
(* One execution session and the transitions of                            *)
(* server/dayweave-api/src/execution/domain.rs: pure functions from a       *)
(* session, a command and two instants to the next session.                *)
(*                                                                         *)
(* Instants are ticks (the microseconds of timestamptz); durations that    *)
(* the code counts in seconds are seconds of Second ticks.  An Option that *)
(* is absent is None.  A row that does not exist has status "none".        *)
(***************************************************************************)
EXTENDS Integers

CONSTANTS
    None,        \* Option::None / SQL NULL
    SessionIds,  \* session UUIDs chosen by clients
    Items,       \* item UUIDs
    Second,      \* ticks per second
    MaxActual,   \* MAX_ACTUAL_SECONDS
    MaxPause,    \* MAX_PAUSE_SECONDS
    MaxDefer     \* MAX_DEFER_SECONDS

ASSUME SessionAssumption ==
    /\ Second \in Nat \ {0}
    /\ MaxActual \in Nat
    /\ MaxPause \in Nat
    /\ MaxDefer \in Nat
    /\ None \notin Int
    /\ None \notin SessionIds
    /\ None \notin Items

Open == {"active", "paused"}
Terminal == {"completed", "skipped", "deferred"}
Option(S) == S \cup {None}

Session ==
    [status : Open \cup Terminal \cup {"none"},
     revision : Nat,
     item : Option(Items), itemRevision : Nat,
     accumulated : Nat, actual : Option(Nat),
     runningSince : Option(Nat), observedRunningSince : Option(Nat),
     pausedAt : Option(Nat), pauseUntil : Option(Nat),
     moveStart : Option(Nat), moveEnd : Option(Nat),
     endedAt : Option(Nat), updatedAt : Nat]

NoSession ==
    [status |-> "none", revision |-> 0, item |-> None, itemRevision |-> 0,
     accumulated |-> 0, actual |-> None,
     runningSince |-> None, observedRunningSince |-> None,
     pausedAt |-> None, pauseUntil |-> None,
     moveStart |-> None, moveEnd |-> None, endedAt |-> None, updatedAt |-> 0]

(***************************************************************************)
(* Commands.  Every command carries the same fields; the ones it does not  *)
(* use are None (0 for itemRevision).                                      *)
(***************************************************************************)
CommandTypes == {"start", "pause", "resume", "complete", "skip", "defer"}

Command ==
    [type : CommandTypes, session : SessionIds,
     item : Option(Items), itemRevision : Nat,
     actual : Option(Nat), duration : Option(Nat), until : Option(Nat),
     moveStart : Option(Nat), moveEnd : Option(Nat)]

ActualInRange(cmd) == cmd.actual # None => cmd.actual <= MaxActual

\* The two ways to bound a pause exclude each other.
PauseInRange(cmd, at) ==
    \/ cmd.duration = None /\ cmd.until = None
    \/ /\ cmd.duration # None /\ cmd.until = None
       /\ cmd.duration \in 1..MaxPause
    \/ /\ cmd.duration = None /\ cmd.until # None
       /\ cmd.until > at
       /\ cmd.until <= at + MaxPause * Second

\* validate_defer: called at the captured instant and again at the transition.
DeferInRange(cmd, at) ==
    /\ ActualInRange(cmd)
    /\ cmd.moveStart # None
    /\ cmd.moveEnd # None
    /\ cmd.moveStart > at
    /\ cmd.moveEnd > cmd.moveStart
    /\ cmd.moveEnd - cmd.moveStart <= MaxDefer * Second

\* ExecutionCommand::validate, run before any transaction.
Validates(cmd, now) ==
    /\ cmd.type = "start" => cmd.item # None /\ cmd.itemRevision # 0
    /\ cmd.type = "pause" => PauseInRange(cmd, now)
    /\ cmd.type \in {"complete", "skip"} => ActualInRange(cmd)
    /\ cmd.type = "defer" => DeferInRange(cmd, now)

(***************************************************************************)
(* Transitions.  "at" is the protocol instant of the transition and        *)
(* "observed" the clock reading captured when the request arrived.         *)
(***************************************************************************)

\* Mutant: a started second counts as a whole one.
WholeSecondsRoundedUp(ticks) ==
    IF ticks > 0 THEN (ticks + Second - 1) \div Second ELSE 0

\* Mutant: a clock that went backwards charges a negative span.
WholeSecondsSigned(ticks) == ticks \div Second

\* num_seconds() truncates; a clock that went backwards charges nothing.
WholeSeconds(ticks) == IF ticks > 0 THEN ticks \div Second ELSE 0

ElapsedSeconds(s, observed) ==
    LET running == IF s.observedRunningSince = None THEN 0
                   ELSE WholeSeconds(observed - s.observedRunningSince)
        total   == s.accumulated + running
    IN  IF total > MaxActual THEN MaxActual ELSE total

StartSession(cmd, at, observed) ==
    [status |-> "active", revision |-> 1,
     item |-> cmd.item, itemRevision |-> cmd.itemRevision,
     accumulated |-> 0, actual |-> None,
     runningSince |-> at, observedRunningSince |-> observed,
     pausedAt |-> None, pauseUntil |-> None,
     moveStart |-> None, moveEnd |-> None, endedAt |-> None, updatedAt |-> at]

\* apply_with_protocol_time refuses an instant that is not causal.
Causal(s, at, observed) == at >= s.updatedAt /\ at >= observed

CanPause(s, cmd, at) ==
    cmd.type = "pause" /\ s.status \in Open /\ PauseInRange(cmd, at)

PauseEnd(cmd, at) ==
    IF cmd.duration # None THEN at + cmd.duration * Second ELSE cmd.until

PauseSession(s, cmd, at, observed) ==
    [status |-> "paused", revision |-> s.revision + 1,
     item |-> s.item, itemRevision |-> s.itemRevision,
     accumulated |-> ElapsedSeconds(s, observed), actual |-> s.actual,
     runningSince |-> None, observedRunningSince |-> None,
     pausedAt |-> IF s.pausedAt = None THEN at ELSE s.pausedAt,
     pauseUntil |-> PauseEnd(cmd, at),
     moveStart |-> s.moveStart, moveEnd |-> s.moveEnd,
     endedAt |-> s.endedAt, updatedAt |-> at]

CanResume(s, cmd) == cmd.type = "resume" /\ s.status = "paused"

ResumeSession(s, at, observed) ==
    [status |-> "active", revision |-> s.revision + 1,
     item |-> s.item, itemRevision |-> s.itemRevision,
     accumulated |-> s.accumulated, actual |-> s.actual,
     runningSince |-> at, observedRunningSince |-> observed,
     pausedAt |-> None, pauseUntil |-> None,
     moveStart |-> s.moveStart, moveEnd |-> s.moveEnd,
     endedAt |-> s.endedAt, updatedAt |-> at]

FinalSeconds(s, cmd, observed) ==
    IF cmd.actual # None THEN cmd.actual ELSE ElapsedSeconds(s, observed)

CanFinish(s, cmd, observed) ==
    /\ cmd.type \in {"complete", "skip"}
    /\ s.status \in Open
    /\ FinalSeconds(s, cmd, observed) <= MaxActual

\* finish, with the move window that defer sets afterwards.
FinishSession(s, cmd, status, move, at, observed) ==
    [status |-> status, revision |-> s.revision + 1,
     item |-> s.item, itemRevision |-> s.itemRevision,
     accumulated |-> ElapsedSeconds(s, observed),
     actual |-> FinalSeconds(s, cmd, observed),
     runningSince |-> None, observedRunningSince |-> None,
     pausedAt |-> IF s.pausedAt = None /\ s.status = "paused"
                  THEN at ELSE s.pausedAt,
     pauseUntil |-> None,
     moveStart |-> move.start, moveEnd |-> move.end,
     endedAt |-> at, updatedAt |-> at]

Finished == [complete |-> "completed", skip |-> "skipped"]

ClosedSession(s, cmd, at, observed) ==
    FinishSession(s, cmd, Finished[cmd.type],
                  [start |-> s.moveStart, end |-> s.moveEnd], at, observed)

\* Mutant: the move window is only checked at the captured instant.
CanDeferAsCaptured(s, cmd, at, observed) ==
    /\ cmd.type = "defer"
    /\ s.status = "paused"
    /\ DeferInRange(cmd, observed)
    /\ FinalSeconds(s, cmd, observed) <= MaxActual

CanDefer(s, cmd, at, observed) ==
    /\ cmd.type = "defer"
    /\ s.status = "paused"
    /\ DeferInRange(cmd, at)
    /\ FinalSeconds(s, cmd, observed) <= MaxActual

DeferSession(s, cmd, at, observed) ==
    FinishSession(s, cmd, "deferred",
                  [start |-> cmd.moveStart, end |-> cmd.moveEnd], at, observed)

(***************************************************************************)
(* The CHECK constraints of execution_sessions (migrations 0005 and 0018). *)
(***************************************************************************)
StateShape(s) ==
    \/ /\ s.status = "active"
       /\ s.runningSince # None /\ s.observedRunningSince # None
       /\ s.pausedAt = None /\ s.endedAt = None
    \/ /\ s.status = "paused"
       /\ s.runningSince = None /\ s.observedRunningSince = None
       /\ s.pausedAt # None /\ s.endedAt = None
    \/ /\ s.status \in Terminal
       /\ s.runningSince = None /\ s.observedRunningSince = None
       /\ s.endedAt # None

PauseWindow(s) ==
    s.pauseUntil # None => s.pausedAt # None /\ s.pauseUntil > s.pausedAt

MoveWindow(s) ==
    IF s.status = "deferred"
    THEN /\ s.moveStart # None /\ s.moveEnd # None
         /\ s.endedAt = s.updatedAt
         /\ s.moveStart > s.updatedAt
         /\ s.moveStart < s.moveEnd
         /\ s.moveEnd <= s.moveStart + MaxDefer * Second
    ELSE s.moveStart = None /\ s.moveEnd = None

TableAccepts(s) ==
    /\ StateShape(s)
    /\ PauseWindow(s)
    /\ (s.status \in Terminal) = (s.actual # None)
    /\ MoveWindow(s)
=============================================================================

------------------------ MODULE ExecutionLeaseProofs ------------------------
(***************************************************************************)
(* Proofs about ExecutionLease: for any set of clients, sessions, items    *)
(* and keys, any clock movements and any bounds: the lease, the types of   *)
(* the rows, what commits leave behind in the history of sessions, the     *)
(* live item, the outbox and the answers, and the time they charge.        *)
(***************************************************************************)
EXTENDS ExecutionLease, TLAPS

(* Zenon does the leaves; SMT is named where one needs arithmetic. *)
USE Zenon

(***************************************************************************)
(* Arithmetic of the charged seconds.                                      *)
(***************************************************************************)

\* num_seconds() truncates towards zero and never charges a negative span.
LEMMA WholeSecondsBound ==
    ASSUME NEW x \in Int
    PROVE  /\ WholeSeconds(x) \in Nat
           /\ x > 0 => WholeSeconds(x) * Second <= x
           /\ x <= 0 => WholeSeconds(x) = 0
<1>1. Second \in Nat /\ Second > 0
  BY SMT, SessionAssumption
<1>2. CASE x > 0
  <2> DEFINE q == x \div Second
  <2>1. q \in Int /\ q * Second <= x /\ q >= 0
    BY SMT, <1>1, <1>2
  <2> QED
    BY SMT, <2>1, <1>2 DEF WholeSeconds
<1>3. CASE ~(x > 0)
  BY <1>3 DEF WholeSeconds
<1> QED
  BY <1>2, <1>3

\* Products with the tick length distribute over a sum and are monotone.
LEMMA SecondsArithmetic ==
    ASSUME NEW a \in Nat, NEW b \in Nat
    PROVE  /\ a * Second \in Nat
           /\ (a + b) * Second = a * Second + b * Second
           /\ a <= b => a * Second <= b * Second
BY SMT, SessionAssumption

\* elapsed_seconds adds at most the observed running span to what was
\* accumulated, and nothing when no span is running.
LEMMA ElapsedBound ==
    ASSUME NEW s \in Session, NEW observed \in Nat
    PROVE  /\ ElapsedSeconds(s, observed) \in Nat
           /\ s.observedRunningSince = None =>
                 ElapsedSeconds(s, observed) <= s.accumulated
           /\ s.observedRunningSince # None =>
                 \/ ElapsedSeconds(s, observed) <= s.accumulated
                 \/ ElapsedSeconds(s, observed) * Second
                      <= s.accumulated * Second
                           + (observed - s.observedRunningSince)
<1>1. MaxActual \in Nat /\ Second \in Nat /\ Second > 0
  BY SMT, SessionAssumption
<1>2. s.accumulated \in Nat /\ s.observedRunningSince \in Nat \cup {None}
  BY DEF Session, Option
<1>3. CASE s.observedRunningSince = None
  BY SMT, <1>1, <1>2, <1>3 DEF ElapsedSeconds
<1>4. CASE s.observedRunningSince # None
  <2> DEFINE span == observed - s.observedRunningSince
             w == WholeSeconds(span)
             e == ElapsedSeconds(s, observed)
  <2>1. span \in Int /\ s.observedRunningSince \in Nat
    BY SMT, <1>2, <1>4
  <2>2. /\ w \in Nat
        /\ span > 0 => w * Second <= span
        /\ span <= 0 => w = 0
    BY <2>1, WholeSecondsBound
  <2>3. e = IF s.accumulated + w > MaxActual THEN MaxActual ELSE s.accumulated + w
    BY <1>4 DEF ElapsedSeconds
  <2> HIDE DEF w, e, span
  <2>4. e \in Nat /\ e <= s.accumulated + w
    BY SMT, <1>1, <1>2, <2>2, <2>3
  <2>5. e * Second <= s.accumulated * Second + w * Second
    <3>1. s.accumulated + w \in Nat
      BY SMT, <1>2, <2>2
    <3>2. (s.accumulated + w) * Second = s.accumulated * Second + w * Second
      BY <1>2, <2>2, SecondsArithmetic
    <3>3. e * Second <= (s.accumulated + w) * Second
      BY <2>4, <3>1, SecondsArithmetic
    <3> QED
      BY <3>2, <3>3
  <2>6. CASE span > 0
    <3>1. e * Second <= s.accumulated * Second + span
      BY SMT, <1>1, <1>2, <2>1, <2>2, <2>4, <2>5, <2>6, SecondsArithmetic
    <3> QED
      BY <1>4, <2>4, <3>1 DEF e, span
  <2>7. CASE ~(span > 0)
    <3>1. e <= s.accumulated
      BY SMT, <1>2, <2>1, <2>2, <2>4, <2>7
    <3> QED
      BY <1>4, <2>4, <3>1 DEF e
  <2> QED
    BY <2>6, <2>7
<1> QED
  BY <1>3, <1>4

(***************************************************************************)
(* Sessions keep their type.                                               *)
(***************************************************************************)

\* The row inserted by Start is a session.
LEMMA StartType ==
    ASSUME NEW cmd \in Command, NEW at \in Nat, NEW observed \in Nat
    PROVE  StartSession(cmd, at, observed) \in Session
BY DEF StartSession, Session, Command, Option, Open, Terminal

\* Finishing, whatever the final status, gives a session.
LEMMA FinishType ==
    ASSUME NEW s \in Session, NEW cmd \in Command, NEW at \in Nat,
           NEW observed \in Nat, NEW status \in Terminal,
           NEW move \in [start : Option(Nat), end : Option(Nat)]
    PROVE  FinishSession(s, cmd, status, move, at, observed) \in Session
<1>1. ElapsedSeconds(s, observed) \in Nat
  BY ElapsedBound
<1>2. FinalSeconds(s, cmd, observed) \in Nat
  BY <1>1 DEF FinalSeconds, Command, Option
<1> QED
  BY SMT, <1>1, <1>2 DEF FinishSession, Session, Option, Terminal

\* A pause that passed its range check gives a session and ends later.
LEMMA PauseType ==
    ASSUME NEW s \in Session, NEW cmd \in Command, NEW at \in Nat,
           NEW observed \in Nat, PauseInRange(cmd, at)
    PROVE  /\ PauseEnd(cmd, at) \in Option(Nat)
           /\ PauseEnd(cmd, at) # None => PauseEnd(cmd, at) > at
           /\ PauseSession(s, cmd, at, observed) \in Session
<1>1. ElapsedSeconds(s, observed) \in Nat
  BY ElapsedBound
<1>2. /\ cmd.duration \in Nat \cup {None}
      /\ cmd.until \in Nat \cup {None}
      /\ None \notin Int /\ Second \in Nat /\ Second > 0 /\ MaxPause \in Nat
  BY SMT, SessionAssumption DEF Command, Option
<1>3. /\ PauseEnd(cmd, at) \in Option(Nat)
      /\ PauseEnd(cmd, at) # None => PauseEnd(cmd, at) > at
  <2>1. CASE cmd.duration = None
    BY <1>2, <2>1 DEF PauseEnd, PauseInRange, Option
  <2>2. CASE cmd.duration # None
    <3>1. cmd.duration \in Nat /\ cmd.duration >= 1
      BY SMT, <1>2, <2>2 DEF PauseInRange
    <3>2. cmd.duration * Second \in Nat /\ cmd.duration * Second > 0
      BY SMT, <1>2, <3>1
    <3> QED
      BY SMT, <2>2, <3>2 DEF PauseEnd, Option
  <2> QED
    BY <2>1, <2>2
<1>4. PauseSession(s, cmd, at, observed) \in Session
  BY SMT, <1>1, <1>3 DEF PauseSession, Session, Option, Open, Terminal
<1> QED
  BY <1>3, <1>4

\* Resuming gives a session.
LEMMA ResumeType ==
    ASSUME NEW s \in Session, NEW at \in Nat, NEW observed \in Nat
    PROVE  ResumeSession(s, at, observed) \in Session
BY SMT DEF ResumeSession, Session, Option, Open, Terminal

\* Complete, Skip and Defer give sessions with a terminal status.
LEMMA ClosedType ==
    ASSUME NEW s \in Session, NEW cmd \in Command, NEW at \in Nat,
           NEW observed \in Nat
    PROVE  /\ cmd.type \in {"complete", "skip"} =>
                 /\ ClosedSession(s, cmd, at, observed) \in Session
                 /\ ClosedSession(s, cmd, at, observed).status
                       \in {"completed", "skipped"}
           /\ DeferSession(s, cmd, at, observed) \in Session
           /\ DeferSession(s, cmd, at, observed).status = "deferred"
<1>1. ASSUME cmd.type \in {"complete", "skip"}
      PROVE  /\ ClosedSession(s, cmd, at, observed) \in Session
             /\ ClosedSession(s, cmd, at, observed).status
                   \in {"completed", "skipped"}
  <2>1. Finished[cmd.type] \in {"completed", "skipped"}
    BY SMT, <1>1 DEF Finished
  <2>2. [start |-> s.moveStart, end |-> s.moveEnd]
           \in [start : Option(Nat), end : Option(Nat)]
    BY DEF Session
  <2>3. ClosedSession(s, cmd, at, observed) \in Session
    BY <2>1, <2>2, FinishType DEF ClosedSession, Terminal
  <2>4. ClosedSession(s, cmd, at, observed).status = Finished[cmd.type]
    BY DEF ClosedSession, FinishSession
  <2> QED
    BY <2>1, <2>3, <2>4
<1>2. /\ DeferSession(s, cmd, at, observed) \in Session
      /\ DeferSession(s, cmd, at, observed).status = "deferred"
  <2>1. [start |-> cmd.moveStart, end |-> cmd.moveEnd]
           \in [start : Option(Nat), end : Option(Nat)]
    BY DEF Command
  <2>2. DeferSession(s, cmd, at, observed) \in Session
    BY <2>1, FinishType DEF DeferSession, Terminal
  <2> QED
    BY <2>2 DEF DeferSession, FinishSession
<1> QED
  BY <1>1, <1>2

(***************************************************************************)
(* Type correctness.                                                       *)
(***************************************************************************)

\* What a request in flight is made of.
LEMMA RequestFields ==
    ASSUME TypeOK, NEW c \in Clients, request[c] # None
    PROVE  /\ request[c] \in Request
           /\ request[c].key \in Keys
           /\ request[c].now \in Nat
           /\ request[c].forward \in Nat
           /\ request[c].print \in Fingerprint
           /\ request[c].print.expected \in Nat
           /\ request[c].print.command \in Command
           /\ request[c].print.command.session \in SessionIds
           /\ request[c].print.command.type \in CommandTypes
<1>1. request[c] \in Request
  BY DEF TypeOK, Option
<1>2. request[c].print \in Fingerprint
  BY <1>1 DEF Request
<1>3. request[c].print.command \in Command
  BY <1>2 DEF Fingerprint
<1> QED
  BY <1>1, <1>2, <1>3 DEF Request, Fingerprint, Command

\* The protocol instant is an instant, not before the captured one, and after
\* every earlier transition.
LEMMA TransitionAtLater ==
    ASSUME TypeOK, NEW now \in Nat
    PROVE  /\ TransitionAt(now) \in Nat
           /\ TransitionAt(now) >= now
           /\ revision > 0 => TransitionAt(now) > updatedAt
BY SMT DEF TypeOK, TransitionAt, NextProtocolTime

\* Committing a well-typed session keeps the types.
LEMMA CommitType ==
    ASSUME TypeOK, NEW c \in Clients, Entered(c),
           NEW changed \in Session, Commit(c, changed),
           startForward' \in [SessionIds -> Nat]
    PROVE  TypeOK'
<1> DEFINE r == request[c]
<1>1. /\ r.key \in Keys /\ r.now \in Nat /\ r.print \in Fingerprint
      /\ r.print.command.session \in SessionIds
  BY RequestFields DEF Entered
<1>2. TransitionAt(r.now) \in Nat
  BY <1>1, TransitionAtLater
<1> HIDE DEF r
<1>3. sessions' \in [SessionIds -> Session]
  BY <1>1 DEF TypeOK, Commit, r
<1>4. revision' \in Nat /\ active' \in Option(SessionIds) /\ updatedAt' \in Nat
  BY SMT, <1>1, <1>2 DEF TypeOK, Commit, Option, r
<1>5. outbox' \in Seq(Fingerprint)
  BY SMT, <1>1 DEF TypeOK, Commit, r
<1>6. [print |-> r.print, expiresAt |-> r.now + IdempotencyTtl,
       revision |-> revision + 1] \in Remembered
  BY SMT, <1>1, LeaseAssumption DEF TypeOK, Remembered
<1>7. idempotency' \in [Keys -> Option(Remembered)]
  BY <1>1, <1>6 DEF TypeOK, Commit, Option, r
<1>8. [key |-> r.key, print |-> r.print,
       revision |-> revision + 1, replayed |-> FALSE] \in Told
  BY SMT, <1>1 DEF TypeOK, Told
<1>9. answer' \in [Clients -> Option(Told)]
  BY <1>8 DEF TypeOK, Commit, Answer, Option, r
<1>10. request' \in [Clients -> Option(Request)]
  BY DEF TypeOK, Commit, Drop, Option
<1>11. wall' \in Nat /\ forward' \in Nat
       /\ item' \in [Items -> [revision : Nat \ {0}, startable : BOOLEAN]]
  BY DEF TypeOK, Commit
<1> QED
  BY <1>3, <1>4, <1>5, <1>7, <1>9, <1>10, <1>11 DEF TypeOK

\* What clients send is a command.
LEMMA InputsAreCommands ==
    Inputs \subseteq Command
<1>1. /\ MaxItemRevision \in Nat
      /\ \A n \in InstantInputs : n \in Nat
      /\ \A n \in SecondsInputs : n \in Nat
  BY LeaseAssumption
<1>2. /\ \A n \in InstantInputs : n \in Option(Nat)
      /\ \A n \in Option(InstantInputs) : n \in Option(Nat)
      /\ \A n \in Option(SecondsInputs) : n \in Option(Nat)
      /\ \A i \in Items : i \in Option(Items)
      /\ None \in Option(Nat) /\ None \in Option(Items)
  BY <1>1 DEF Option
<1>3. StartInputs \subseteq Command
  BY SMT, <1>1, <1>2 DEF StartInputs, Command, CommandTypes
<1>4. PauseInputs \subseteq Command
  BY SMT, <1>2 DEF PauseInputs, Command, CommandTypes
<1>5. ResumeInputs \subseteq Command
  BY SMT, <1>2 DEF ResumeInputs, Command, CommandTypes
<1>6. FinishInputs \subseteq Command
  BY SMT, <1>2 DEF FinishInputs, Command, CommandTypes
<1>7. DeferInputs \subseteq Command
  BY SMT, <1>2 DEF DeferInputs, Command, CommandTypes
<1> QED
  BY <1>3, <1>4, <1>5, <1>6, <1>7 DEF Inputs

\* The five transactions commit well-typed sessions.
LEMMA CommittedSession ==
    ASSUME TypeOK, NEW c \in Clients, Entered(c)
    PROVE  LET r == request[c]
               cmd == r.print.command
               s == sessions[cmd.session]
               at == TransitionAt(r.now) IN
           /\ s \in Session
           /\ StartSession(cmd, at, r.now) \in Session
           /\ CanPause(s, cmd, at) => PauseSession(s, cmd, at, r.now) \in Session
           /\ ResumeSession(s, at, r.now) \in Session
           /\ CanFinish(s, cmd, r.now) =>
                 ClosedSession(s, cmd, at, r.now) \in Session
           /\ DeferSession(s, cmd, at, r.now) \in Session
<1> DEFINE r == request[c]
           cmd == r.print.command
           s == sessions[cmd.session]
           at == TransitionAt(r.now)
<1>1. r.now \in Nat /\ cmd \in Command /\ cmd.session \in SessionIds
  BY RequestFields DEF Entered
<1>2. at \in Nat
  BY <1>1, TransitionAtLater
<1>3. s \in Session
  BY <1>1 DEF TypeOK
<1> HIDE DEF r, cmd, s, at
<1>4. StartSession(cmd, at, r.now) \in Session
  BY <1>1, <1>2, StartType
<1>5. CanPause(s, cmd, at) => PauseSession(s, cmd, at, r.now) \in Session
  BY <1>1, <1>2, <1>3, PauseType DEF CanPause
<1>6. ResumeSession(s, at, r.now) \in Session
  BY <1>1, <1>2, <1>3, ResumeType
<1>7. CanFinish(s, cmd, r.now) => ClosedSession(s, cmd, at, r.now) \in Session
  BY <1>1, <1>2, <1>3, ClosedType DEF CanFinish
<1>8. DeferSession(s, cmd, at, r.now) \in Session
  BY <1>1, <1>2, <1>3, ClosedType
<1> QED
  BY <1>3, <1>4, <1>5, <1>6, <1>7, <1>8 DEF r, cmd, s, at

\* Every step keeps the types.
LEMMA TypeStep ==
    TypeOK /\ [Next]_vars => TypeOK'
<1> SUFFICES ASSUME TypeOK, [Next]_vars PROVE TypeOK'
  OBVIOUS
<1>1. CASE ClockForward
  BY SMT, <1>1 DEF TypeOK, ClockForward, lease
<1>2. CASE ClockBack
  BY <1>2, LeaseAssumption DEF TypeOK, ClockBack, lease
<1>3. ASSUME NEW i \in Items, ItemChange(i) PROVE TypeOK'
  BY SMT, <1>3 DEF TypeOK, ItemChange, lease
<1>4. ASSUME NEW c \in Clients, Receive(c) PROVE TypeOK'
  <2>1. PICK k \in Keys, expected \in 0..revision, cmd \in Inputs :
           request' = [request EXCEPT ![c] =
               [step |-> "received", key |-> k,
                print |-> [expected |-> expected, command |-> cmd],
                now |-> wall, forward |-> forward]]
    BY <1>4 DEF Receive
  <2>2. [expected |-> expected, command |-> cmd] \in Fingerprint
    BY SMT, InputsAreCommands DEF TypeOK, Fingerprint
  <2>3. [step |-> "received", key |-> k,
         print |-> [expected |-> expected, command |-> cmd],
         now |-> wall, forward |-> forward] \in Request
    BY <2>2 DEF TypeOK, Request
  <2>4. request' \in [Clients -> Option(Request)]
    BY <2>1, <2>3 DEF TypeOK, Option
  <2> QED
    BY <1>4, <2>4 DEF TypeOK, Receive, lease
<1>5. ASSUME NEW c \in Clients, ReplayLookup(c) \/ ApplyReplay(c) PROVE TypeOK'
  <2> DEFINE r == request[c]
             told == [key |-> r.key, print |-> r.print,
                      revision |-> idempotency[r.key].revision,
                      replayed |-> TRUE]
  <2>1. r.key \in Keys /\ r.print \in Fingerprint
    BY <1>5, RequestFields DEF ReplayLookup, ApplyReplay
  <2>2. idempotency[r.key] \in Remembered
    BY <1>5, <2>1 DEF TypeOK, Option, ReplayLookup, ApplyReplay,
                      ReplayOrConflict, Remembers
  <2>3. told \in Told
    BY <2>1, <2>2 DEF Told, Remembered
  <2>4. \/ answer' = [answer EXCEPT ![c] = told]
        \/ answer' = answer
    BY <1>5 DEF ReplayLookup, ApplyReplay, ReplayOrConflict, Answer
  <2> HIDE DEF told
  <2>5. answer' \in [Clients -> Option(Told)]
    BY <2>3, <2>4 DEF TypeOK, Option
  <2>6. request' \in [Clients -> Option(Request)]
    BY <1>5 DEF TypeOK, Option, ReplayLookup, ApplyReplay,
                ReplayOrConflict, Drop
  <2> QED
    BY <1>5, <2>5, <2>6 DEF TypeOK, ReplayLookup, ApplyReplay, lease
<1>6. ASSUME NEW c \in Clients, Validate(c) PROVE TypeOK'
  <2>1. request[c] \in Request
    BY <1>6 DEF TypeOK, Option, Validate
  <2>2. [request[c] EXCEPT !.step = "validated"] \in Request
    BY <2>1 DEF Request
  <2>3. \/ request' = [request EXCEPT ![c] = [@ EXCEPT !.step = "validated"]]
        \/ request' = [request EXCEPT ![c] = None]
    BY <1>6 DEF Validate, Drop
  <2>4. request' \in [Clients -> Option(Request)]
    BY <2>2, <2>3 DEF TypeOK, Option
  <2> QED
    BY <1>6, <2>4 DEF TypeOK, Validate, lease
<1>7. ASSUME NEW c \in Clients, Start(c) PROVE TypeOK'
  <2>1. /\ Entered(c)
        /\ Commit(c, StartSession(request[c].print.command,
                         TransitionAt(request[c].now), request[c].now))
        /\ startForward' = [startForward EXCEPT
                ![request[c].print.command.session] = request[c].forward]
    BY <1>7 DEF Start
  <2>2. startForward' \in [SessionIds -> Nat]
    BY <2>1, RequestFields DEF TypeOK, Entered
  <2> QED
    BY <2>1, <2>2, CommittedSession, CommitType
<1>8. ASSUME NEW c \in Clients, Pause(c) PROVE TypeOK'
  <2>1. startForward' \in [SessionIds -> Nat]
    BY <1>8 DEF TypeOK, Pause
  <2> QED
    BY <1>8, <2>1, CommittedSession, CommitType DEF Pause
<1>9. ASSUME NEW c \in Clients, Resume(c) PROVE TypeOK'
  <2>1. startForward' \in [SessionIds -> Nat]
    BY <1>9 DEF TypeOK, Resume
  <2> QED
    BY <1>9, <2>1, CommittedSession, CommitType DEF Resume
<1>10. ASSUME NEW c \in Clients, Finish(c) PROVE TypeOK'
  <2>1. startForward' \in [SessionIds -> Nat]
    BY <1>10 DEF TypeOK, Finish
  <2> QED
    BY <1>10, <2>1, CommittedSession, CommitType DEF Finish
<1>11. ASSUME NEW c \in Clients, Defer(c) PROVE TypeOK'
  <2>1. startForward' \in [SessionIds -> Nat]
    BY <1>11 DEF TypeOK, Defer
  <2> QED
    BY <1>11, <2>1, CommittedSession, CommitType DEF Defer
<1>12. ASSUME NEW c \in Clients, Refuse(c) \/ Lose(c) PROVE TypeOK'
  BY <1>12 DEF TypeOK, Refuse, Lose, Drop, Option, lease
<1>13. CASE UNCHANGED vars
  BY <1>13 DEF TypeOK, vars, lease
<1> QED
  BY <1>1, <1>2, <1>3, <1>4, <1>5, <1>6, <1>7, <1>8, <1>9, <1>10, <1>11,
     <1>12, <1>13 DEF Next

\* The tables are empty at first.
LEMMA InitType == Init => TypeOK
<1>1. NoSession \in Session
  BY DEF NoSession, Session, Option
<1>2. <<>> \in Seq(Fingerprint)
  BY SMT
<1> QED
  BY SMT, <1>1, <1>2 DEF Init, TypeOK, Option

\* ExecutionLease is type correct: every command's transaction writes rows,
\* idempotency records and answers of the declared shapes.
THEOREM TypeCorrect == Spec => []TypeOK
BY InitType, TypeStep, PTL DEF Spec

(***************************************************************************)
(* What a transition does to a row that the table accepted.                *)
(***************************************************************************)
Sound(s) ==
    /\ TableAccepts(s)
    /\ s.pausedAt # None => s.pausedAt <= s.updatedAt

\* "charged" is the span that was running when the row changed, or nothing.
Updated(s, new, at, observed) ==
    /\ new \in Session
    /\ Sound(new)
    /\ s.status \in Open
    /\ new.updatedAt = at
    /\ new.item = s.item
    /\ new.status = "active" =>
          new.observedRunningSince = observed /\ new.accumulated = s.accumulated
    /\ \/ new.accumulated <= s.accumulated
       \/ /\ s.status = "active"
          /\ new.accumulated * Second
                <= s.accumulated * Second + (observed - s.observedRunningSince)

\* elapsed_seconds of a row the table accepted.
LEMMA ChargedSpan ==
    ASSUME NEW s \in Session, Sound(s), NEW observed \in Nat
    PROVE  LET e == ElapsedSeconds(s, observed) IN
           /\ e \in Nat
           /\ \/ e <= s.accumulated
              \/ /\ s.status = "active"
                 /\ e * Second <= s.accumulated * Second
                                    + (observed - s.observedRunningSince)
BY ElapsedBound DEF Sound, TableAccepts, StateShape

\* pause, and pausing again, keep the row acceptable to the table.
LEMMA PauseUpdates ==
    ASSUME NEW s \in Session, Sound(s), NEW cmd \in Command, NEW at \in Nat,
           NEW observed \in Nat, Causal(s, at, observed), CanPause(s, cmd, at)
    PROVE  Updated(s, PauseSession(s, cmd, at, observed), at, observed)
<1> DEFINE new == PauseSession(s, cmd, at, observed)
<1>1. /\ new \in Session
      /\ PauseEnd(cmd, at) \in Option(Nat)
      /\ PauseEnd(cmd, at) # None => PauseEnd(cmd, at) > at
  BY PauseType DEF CanPause
<1>2. /\ new.status = "paused" /\ new.updatedAt = at /\ new.item = s.item
      /\ new.accumulated = ElapsedSeconds(s, observed)
      /\ new.runningSince = None /\ new.observedRunningSince = None
      /\ new.pauseUntil = PauseEnd(cmd, at)
      /\ new.pausedAt = IF s.pausedAt = None THEN at ELSE s.pausedAt
      /\ new.endedAt = s.endedAt /\ new.actual = s.actual
      /\ new.moveStart = s.moveStart /\ new.moveEnd = s.moveEnd
  BY DEF PauseSession
<1> HIDE DEF new
<1>3. /\ s.status \in Open
      /\ s.endedAt = None /\ s.actual = None
      /\ s.moveStart = None /\ s.moveEnd = None
  BY DEF CanPause, Sound, TableAccepts, StateShape, MoveWindow, Open, Terminal
<1>4. /\ s.updatedAt \in Nat /\ at >= s.updatedAt
      /\ s.pausedAt \in Nat \cup {None} /\ None \notin Int
      /\ s.pausedAt # None => s.pausedAt <= s.updatedAt
  BY SessionAssumption DEF Session, Option, Causal, Sound
<1>5. new.pausedAt \in Nat /\ new.pausedAt <= at
  BY SMT, <1>2, <1>4
<1>6. PauseWindow(new)
  <2>1. new.pauseUntil # None => new.pauseUntil \in Nat /\ new.pauseUntil > at
    BY <1>1, <1>2 DEF Option
  <2>2. new.pausedAt # None
    BY SMT, <1>4, <1>5
  <2> QED
    BY SMT, <1>5, <2>1, <2>2 DEF PauseWindow
<1>7. StateShape(new)
  <2>1. new.pausedAt # None /\ new.endedAt = None
    BY SMT, <1>2, <1>3, <1>4, <1>5
  <2> QED
    BY <1>2, <2>1 DEF StateShape
<1>8. MoveWindow(new) /\ ((new.status \in Terminal) = (new.actual # None))
  BY SMT, <1>2, <1>3 DEF MoveWindow, Terminal
<1>9. Sound(new)
  BY <1>2, <1>5, <1>6, <1>7, <1>8 DEF Sound, TableAccepts
<1> QED
  BY <1>1, <1>2, <1>3, <1>9, ChargedSpan DEF Updated, new

\* resume keeps the row acceptable and starts a new observed span.
LEMMA ResumeUpdates ==
    ASSUME NEW s \in Session, Sound(s), NEW cmd \in Command, NEW at \in Nat,
           NEW observed \in Nat, CanResume(s, cmd)
    PROVE  Updated(s, ResumeSession(s, at, observed), at, observed)
<1> DEFINE new == ResumeSession(s, at, observed)
<1>1. new \in Session
  BY ResumeType
<1>2. /\ new.status = "active" /\ new.updatedAt = at /\ new.item = s.item
      /\ new.accumulated = s.accumulated
      /\ new.runningSince = at /\ new.observedRunningSince = observed
      /\ new.pauseUntil = None /\ new.pausedAt = None
      /\ new.endedAt = s.endedAt /\ new.actual = s.actual
      /\ new.moveStart = s.moveStart /\ new.moveEnd = s.moveEnd
  BY DEF ResumeSession
<1>3. /\ s.status \in Open
      /\ s.endedAt = None /\ s.actual = None
      /\ s.moveStart = None /\ s.moveEnd = None
  BY DEF CanResume, Sound, TableAccepts, StateShape, MoveWindow, Open, Terminal
<1>4. s.accumulated \in Nat /\ None \notin Int
  BY SessionAssumption DEF Session
<1> HIDE DEF new
<1>5. TableAccepts(new)
  <2>1. StateShape(new)
    BY SMT, <1>2, <1>3, <1>4 DEF StateShape
  <2>2. PauseWindow(new)
    BY <1>2 DEF PauseWindow
  <2>3. MoveWindow(new) /\ ((new.status \in Terminal) = (new.actual # None))
    BY SMT, <1>2, <1>3 DEF MoveWindow, Terminal
  <2> QED
    BY <2>1, <2>2, <2>3 DEF TableAccepts
<1> QED
  BY SMT, <1>1, <1>2, <1>3, <1>4, <1>5 DEF Updated, Sound, new

\* finish, with or without a move window, keeps the row acceptable.
LEMMA FinishUpdates ==
    ASSUME NEW s \in Session, Sound(s), NEW cmd \in Command, NEW at \in Nat,
           NEW observed \in Nat, Causal(s, at, observed), s.status \in Open,
           NEW status \in Terminal,
           NEW move \in [start : Option(Nat), end : Option(Nat)],
           IF status = "deferred"
           THEN /\ move.start # None /\ move.end # None
                /\ move.start > at /\ move.start < move.end
                /\ move.end <= move.start + MaxDefer * Second
           ELSE move.start = None /\ move.end = None
    PROVE  Updated(s, FinishSession(s, cmd, status, move, at, observed),
                   at, observed)
<1> DEFINE new == FinishSession(s, cmd, status, move, at, observed)
<1>1. new \in Session
  BY FinishType
<1>2. /\ new.status = status /\ new.updatedAt = at /\ new.item = s.item
      /\ new.accumulated = ElapsedSeconds(s, observed)
      /\ new.actual = FinalSeconds(s, cmd, observed)
      /\ new.runningSince = None /\ new.observedRunningSince = None
      /\ new.pauseUntil = None /\ new.endedAt = at
      /\ new.pausedAt = IF s.pausedAt = None /\ s.status = "paused"
                        THEN at ELSE s.pausedAt
      /\ new.moveStart = move.start /\ new.moveEnd = move.end
  BY DEF FinishSession
<1> HIDE DEF new
<1>3. FinalSeconds(s, cmd, observed) \in Nat /\ None \notin Int
  BY ElapsedBound, SessionAssumption DEF FinalSeconds, Command, Option
<1>4. /\ s.updatedAt \in Nat /\ at >= s.updatedAt
      /\ s.pausedAt \in Nat \cup {None}
      /\ s.pausedAt # None => s.pausedAt <= s.updatedAt
  BY DEF Session, Option, Causal, Sound
<1>5. new.pausedAt # None => new.pausedAt <= at
  BY SMT, <1>2, <1>4
<1>6. StateShape(new) /\ PauseWindow(new)
  <2>1. new.endedAt # None /\ new.status \in Terminal
    BY SMT, <1>2, <1>3
  <2> QED
    BY <1>2, <2>1 DEF StateShape, PauseWindow
<1>7. new.actual # None
  BY SMT, <1>2, <1>3
<1>8. MoveWindow(new)
  BY <1>2 DEF MoveWindow
<1>9. Sound(new)
  BY <1>2, <1>5, <1>6, <1>7, <1>8 DEF Sound, TableAccepts
<1>10. new.status # "active"
  BY <1>2 DEF Terminal
<1> QED
  BY <1>1, <1>2, <1>9, <1>10, ChargedSpan DEF Updated, new

\* Pause, Resume, Complete, Skip and Defer: one commit of an updated row.
LEMMA UpdateActions ==
    ASSUME TypeOK, NEW c \in Clients, Entered(c),
           Sound(sessions[request[c].print.command.session]),
           Pause(c) \/ Resume(c) \/ Finish(c) \/ Defer(c)
    PROVE  LET r == request[c]
               id == r.print.command.session IN
           /\ active = id
           /\ startForward' = startForward
           /\ \E new \in Session :
                 /\ Commit(c, new)
                 /\ Updated(sessions[id], new, TransitionAt(r.now), r.now)
<1> DEFINE r == request[c]
           cmd == r.print.command
           s == sessions[cmd.session]
           at == TransitionAt(r.now)
<1>1. r.now \in Nat /\ cmd \in Command /\ cmd.session \in SessionIds
  BY RequestFields DEF Entered
<1>2. at \in Nat
  BY <1>1, TransitionAtLater
<1>3. s \in Session /\ Sound(s)
  BY <1>1 DEF TypeOK
<1>4. active = cmd.session /\ Causal(s, at, r.now) /\ startForward' = startForward
  BY DEF Pause, Resume, Finish, Defer, CanUpdate
<1>5. CASE Pause(c)
  <2>1. CanPause(s, cmd, at) /\ Commit(c, PauseSession(s, cmd, at, r.now))
    BY <1>5 DEF Pause
  <2> HIDE DEF r, cmd, s, at
  <2>2. Updated(s, PauseSession(s, cmd, at, r.now), at, r.now)
    BY <1>1, <1>2, <1>3, <1>4, <2>1, PauseUpdates
  <2> QED
    BY <1>4, <2>1, <2>2 DEF Updated, r, cmd, s, at
<1>6. CASE Resume(c)
  <2>1. CanResume(s, cmd) /\ Commit(c, ResumeSession(s, at, r.now))
    BY <1>6 DEF Resume
  <2> HIDE DEF r, cmd, s, at
  <2>2. Updated(s, ResumeSession(s, at, r.now), at, r.now)
    BY <1>1, <1>2, <1>3, <1>4, <2>1, ResumeUpdates
  <2> QED
    BY <1>4, <2>1, <2>2 DEF Updated, r, cmd, s, at
<1>7. CASE Finish(c)
  <2>1. CanFinish(s, cmd, r.now) /\ Commit(c, ClosedSession(s, cmd, at, r.now))
    BY <1>7 DEF Finish
  <2> HIDE DEF r, cmd, s, at
  <2>2. s.moveStart = None /\ s.moveEnd = None /\ s.status \in Open
    <3>1. s.status \in Open
      BY <2>1 DEF CanFinish
    <3>2. MoveWindow(s)
      BY <1>3 DEF Sound, TableAccepts
    <3> QED
      BY <3>1, <3>2 DEF MoveWindow, Open
  <2>3. Finished[cmd.type] \in {"completed", "skipped"}
    BY SMT, <2>1 DEF CanFinish, Finished
  <2>4. Updated(s, ClosedSession(s, cmd, at, r.now), at, r.now)
    <3> DEFINE move == [start |-> s.moveStart, end |-> s.moveEnd]
    <3>1. move \in [start : Option(Nat), end : Option(Nat)]
          /\ move.start = None /\ move.end = None
      BY <1>3, <2>2 DEF Session
    <3>2. Finished[cmd.type] \in Terminal /\ Finished[cmd.type] # "deferred"
      BY <2>3, SMTT(20) DEF Terminal
    <3> HIDE DEF move
    <3>3. Updated(s, FinishSession(s, cmd, Finished[cmd.type], move, at, r.now),
                  at, r.now)
      BY <1>1, <1>2, <1>3, <1>4, <2>2, <3>1, <3>2, FinishUpdates
    <3> QED
      BY <3>3 DEF ClosedSession, move
  <2> QED
    BY <1>4, <2>1, <2>4 DEF Updated, r, cmd, s, at
<1>8. CASE Defer(c)
  <2>1. CanDefer(s, cmd, at, r.now) /\ Commit(c, DeferSession(s, cmd, at, r.now))
    BY <1>8 DEF Defer
  <2> HIDE DEF r, cmd, s, at
  <2>2. s.status \in Open /\ DeferInRange(cmd, at)
    BY <2>1 DEF CanDefer, Open
  <2>3. Updated(s, DeferSession(s, cmd, at, r.now), at, r.now)
    <3> DEFINE move == [start |-> cmd.moveStart, end |-> cmd.moveEnd]
    <3>1. /\ move \in [start : Option(Nat), end : Option(Nat)]
          /\ move.start = cmd.moveStart /\ move.end = cmd.moveEnd
      BY <1>1 DEF Command
    <3>2. MaxDefer * Second \in Nat
      BY SMT, SessionAssumption
    <3>3. cmd.moveStart \in Nat /\ cmd.moveEnd \in Nat
      BY <1>1, <2>2 DEF Command, Option, DeferInRange
    <3>4. /\ move.start # None /\ move.end # None
          /\ move.start > at /\ move.start < move.end
          /\ move.end <= move.start + MaxDefer * Second
      <4> DEFINE span == MaxDefer * Second
      <4>1. /\ cmd.moveStart # None /\ cmd.moveEnd # None
            /\ cmd.moveStart > at /\ cmd.moveEnd > cmd.moveStart
            /\ cmd.moveEnd - cmd.moveStart <= span /\ span \in Nat
        BY <2>2, <3>2 DEF DeferInRange
      <4> HIDE DEF span, move
      <4>2. cmd.moveStart < cmd.moveEnd /\ cmd.moveEnd <= cmd.moveStart + span
        BY <3>3, <4>1, SMTT(20)
      <4> QED
        BY <3>1, <4>1, <4>2 DEF span
    <3> HIDE DEF move
    <3>5. Updated(s, FinishSession(s, cmd, "deferred", move, at, r.now),
                  at, r.now)
      BY <1>1, <1>2, <1>3, <1>4, <2>2, <3>1, <3>4, FinishUpdates, SMTT(20) DEF Terminal
    <3> QED
      BY <3>5 DEF DeferSession, move
  <2> QED
    BY <1>4, <2>1, <2>3 DEF Updated, r, cmd, s, at
<1> QED
  BY <1>5, <1>6, <1>7, <1>8

\* What a commit changes, seen from each session and each other request.
LEMMA CommitEffect ==
    ASSUME TypeOK, NEW c \in Clients, Entered(c),
           NEW changed \in Session, Commit(c, changed)
    PROVE  LET r == request[c]
               id == r.print.command.session IN
           /\ id \in SessionIds
           /\ sessions'[id] = changed
           /\ \A s \in SessionIds : s # id => sessions'[s] = sessions[s]
           /\ active' = IF changed.status \in Open THEN id ELSE None
           /\ revision' = revision + 1
           /\ updatedAt' = TransitionAt(r.now)
           /\ \A d \in Clients : request'[d] # None => request'[d] = request[d]
           /\ wall' = wall /\ forward' = forward /\ item' = item
BY RequestFields DEF TypeOK, Entered, Commit, Drop

(***************************************************************************)
(* The lease and its rows.                                                 *)
(***************************************************************************)
Updates(c) == Pause(c) \/ Resume(c) \/ Finish(c) \/ Defer(c)

RowsAreSound ==
    \A s \in SessionIds : sessions[s].status # "none" => Sound(sessions[s])

LeaseInv == TypeOK /\ OneLease /\ RowsAreSound

\* Only the five transactions touch the lease.
LEMMA QuietOrCommit ==
    ASSUME [Next]_vars
    PROVE  \/ UNCHANGED <<lease, startForward>>
           \/ \E c \in Clients : Entered(c) /\ (Start(c) \/ Updates(c))
BY ZenonT(30) DEF Next, vars, ClockForward, ClockBack, ItemChange, Receive, ReplayLookup,
       Validate, ApplyReplay, Start, Pause, Resume, Finish, Defer, Refuse, Lose,
       Updates

\* The row that Start inserts.
LEMMA StartRow ==
    ASSUME NEW cmd \in Command, NEW at \in Nat, NEW observed \in Nat
    PROVE  LET new == StartSession(cmd, at, observed) IN
           /\ new \in Session
           /\ Sound(new)
           /\ new.status = "active"
           /\ new.item = cmd.item
           /\ new.accumulated = 0
           /\ new.observedRunningSince = observed
           /\ new.updatedAt = at
<1> DEFINE new == StartSession(cmd, at, observed)
<1>1. new \in Session
  BY StartType
<1>2. /\ new.status = "active" /\ new.runningSince = at
      /\ new.observedRunningSince = observed
      /\ new.pausedAt = None /\ new.pauseUntil = None /\ new.endedAt = None
      /\ new.moveStart = None /\ new.moveEnd = None /\ new.actual = None
      /\ new.item = cmd.item /\ new.accumulated = 0 /\ new.updatedAt = at
  BY DEF StartSession
<1> HIDE DEF new
<1>3. Sound(new)
  BY SMT, <1>2, SessionAssumption
     DEF Sound, TableAccepts, StateShape, PauseWindow, MoveWindow, Terminal
<1> QED
  BY <1>1, <1>2, <1>3 DEF new

\* Every step keeps the lease exclusive and the rows sound.
LEMMA LeaseStep ==
    LeaseInv /\ [Next]_vars => LeaseInv'
<1> SUFFICES ASSUME LeaseInv, [Next]_vars PROVE LeaseInv'
  OBVIOUS
<1>1. TypeOK /\ TypeOK'
  BY TypeStep DEF LeaseInv
<1>2. CASE UNCHANGED <<lease, startForward>>
  BY <1>1, <1>2 DEF LeaseInv, OneLease, RowsAreSound, lease
<1>3. ASSUME NEW c \in Clients, Entered(c), Start(c)
      PROVE  LeaseInv'
  <2> DEFINE r == request[c]
             cmd == r.print.command
             new == StartSession(cmd, TransitionAt(r.now), r.now)
  <2>1. r.now \in Nat /\ cmd \in Command /\ TransitionAt(r.now) \in Nat
    BY <1>1, <1>3, RequestFields, TransitionAtLater, SMTT(20) DEF Entered
  <2>2. active = None /\ Commit(c, new)
    BY <1>3 DEF Start, CanStart
  <2> HIDE DEF r, cmd
  <2>3. new \in Session /\ Sound(new) /\ new.status \in Open
    BY SMT, <2>1, StartRow DEF Open
  <2> HIDE DEF new
  <2>4. /\ cmd.session \in SessionIds
        /\ sessions'[cmd.session] = new
        /\ \A s \in SessionIds : s # cmd.session => sessions'[s] = sessions[s]
        /\ active' = cmd.session
    BY <1>1, <1>3, <2>2, <2>3, CommitEffect DEF r, cmd
  <2>5. \A s \in SessionIds : sessions[s].status \notin Open
    BY <2>2, SessionAssumption DEF LeaseInv, OneLease
  <2>6. OneLease'
    BY <2>3, <2>4, <2>5 DEF OneLease
  <2>7. RowsAreSound'
    BY <2>3, <2>4 DEF LeaseInv, RowsAreSound
  <2> QED
    BY <1>1, <2>6, <2>7 DEF LeaseInv
<1>4. ASSUME NEW c \in Clients, Entered(c), Updates(c)
      PROVE  LeaseInv'
  <2> DEFINE r == request[c]
             id == r.print.command.session
  <2>1. id \in SessionIds /\ active = id
    BY <1>1, <1>4, RequestFields
       DEF Entered, Updates, Pause, Resume, Finish, Defer, CanUpdate
  <2>2. Sound(sessions[id])
    BY <2>1 DEF LeaseInv, OneLease, RowsAreSound, Open
  <2>3. PICK new \in Session :
           /\ Commit(c, new)
           /\ Updated(sessions[id], new, TransitionAt(r.now), r.now)
    BY <1>1, <1>4, <2>2, UpdateActions DEF Updates
  <2>4. /\ sessions'[id] = new
        /\ \A s \in SessionIds : s # id => sessions'[s] = sessions[s]
        /\ active' = IF new.status \in Open THEN id ELSE None
    BY <1>1, <1>4, <2>3, CommitEffect
  <2> HIDE DEF r, id
  <2>5. OneLease'
    BY <2>1, <2>4, SessionAssumption DEF LeaseInv, OneLease
  <2>6. RowsAreSound'
    BY <2>3, <2>4 DEF LeaseInv, RowsAreSound, Updated
  <2> QED
    BY <1>1, <2>5, <2>6 DEF LeaseInv
<1> QED
  BY <1>2, <1>3, <1>4, QuietOrCommit

\* The lease is free at first.
LEMMA LeaseInit == Init => LeaseInv
<1>1. Init => active = None /\ \A s \in SessionIds : sessions[s].status = "none"
  BY SMT DEF Init, NoSession
<1> QED
  BY <1>1, InitType, SessionAssumption DEF LeaseInv, OneLease, RowsAreSound, Open

\* The lease invariant holds throughout.
LEMMA LeaseInvariant == Spec => []LeaseInv
BY LeaseInit, LeaseStep, PTL DEF Spec

\* At most one open session, and the lease points at it, for any number of
\* clients, sessions and requests in flight.
THEOREM LeaseIsExclusive == Spec => []OneLease
BY LeaseInvariant, PTL DEF LeaseInv

\* The CHECK constraints of execution_sessions never refuse a row that the
\* domain computes, whatever the clock does between validation and transition.
THEOREM RowsAlwaysFit == Spec => []RowsFitTable
<1>1. LeaseInv => RowsFitTable
  BY DEF LeaseInv, RowsAreSound, Sound, RowsFitTable
<1> QED
  BY <1>1, LeaseInvariant, PTL

(***************************************************************************)
(* What each commit replaces, and in which order.                          *)
(***************************************************************************)
\* A commit writes one row, which was not terminal, at the protocol instant.
LEMMA CommittedRow ==
    ASSUME LeaseInv, NEW c \in Clients, Entered(c), Start(c) \/ Updates(c)
    PROVE  LET r == request[c]
               cmd == r.print.command IN
           \E new \in Session :
               /\ Commit(c, new)
               /\ new.updatedAt = TransitionAt(r.now)
               /\ sessions[cmd.session].status \notin Terminal
               /\ \/ new.item = cmd.item /\ StartableItem(cmd) /\ cmd.type = "start"
                  \/ new.item = sessions[cmd.session].item /\ active = cmd.session
<1> DEFINE r == request[c]
           cmd == r.print.command
<1>1. TypeOK /\ r.now \in Nat /\ cmd \in Command /\ cmd.session \in SessionIds
  BY RequestFields DEF Entered, LeaseInv
<1>2. TransitionAt(r.now) \in Nat
  BY <1>1, TransitionAtLater
<1>3. CASE Start(c)
  <2> DEFINE new == StartSession(cmd, TransitionAt(r.now), r.now)
  <2>1. /\ Commit(c, new) /\ StartableItem(cmd) /\ cmd.type = "start"
        /\ sessions[cmd.session].status = "none"
    BY <1>3 DEF Start, CanStart
  <2> HIDE DEF r, cmd
  <2>2. new \in Session /\ new.item = cmd.item /\ new.updatedAt = TransitionAt(r.now)
    <3> DEFINE at == TransitionAt(r.now)
    <3>1. at \in Nat
      BY <1>2
    <3> HIDE DEF at
    <3> DEFINE now == r.now
    <3>2. now \in Nat /\ cmd \in Command
      BY <1>1 DEF r, cmd
    <3> HIDE DEF now
    <3>3. LET row == StartSession(cmd, at, now) IN
          row \in Session /\ row.item = cmd.item /\ row.updatedAt = at
      BY SMT, <3>1, <3>2, StartRow
    <3> QED
      BY <3>3 DEF at, now
  <2> HIDE DEF new
  <2> QED
    BY <2>1, <2>2 DEF Terminal, r, cmd
<1>4. CASE Updates(c)
  <2>1. active = cmd.session
    BY <1>4 DEF Updates, Pause, Resume, Finish, Defer, CanUpdate
  <2>2. sessions[cmd.session].status \in Open /\ Sound(sessions[cmd.session])
    BY <1>1, <2>1 DEF LeaseInv, OneLease, RowsAreSound, Open
  <2>3. PICK new \in Session :
           /\ Commit(c, new)
           /\ Updated(sessions[cmd.session], new, TransitionAt(r.now), r.now)
    BY <1>1, <1>4, <2>2, UpdateActions DEF Updates
  <2> HIDE DEF r, cmd
  <2> QED
    BY <2>1, <2>2, <2>3 DEF Updated, Open, Terminal, r, cmd
<1> QED
  BY <1>3, <1>4

\* A completed, skipped or deferred session never changes again.
THEOREM HistoryIsFinal == Spec => TerminalIsFinal
<1> DEFINE Kept == \A s \in SessionIds :
                       sessions[s].status \in Terminal => sessions'[s] = sessions[s]
<1>1. LeaseInv /\ [Next]_vars => [Kept]_vars
  <2> SUFFICES ASSUME LeaseInv, [Next]_vars PROVE Kept
    OBVIOUS
  <2>1. CASE UNCHANGED <<lease, startForward>>
    BY <2>1 DEF lease
  <2>2. ASSUME NEW c \in Clients, Entered(c), Start(c) \/ Updates(c) PROVE Kept
    <3>1. PICK new \in Session :
             /\ Commit(c, new)
             /\ sessions[request[c].print.command.session].status \notin Terminal
      BY <2>2, CommittedRow
    <3>2. \A s \in SessionIds : s # request[c].print.command.session
                                   => sessions'[s] = sessions[s]
      BY <2>2, <3>1, CommitEffect DEF LeaseInv
    <3> QED
      BY <3>1, <3>2
  <2> QED
    BY <2>1, <2>2, QuietOrCommit
<1> QED
  BY <1>1, LeaseInvariant, PTL DEF Spec, TerminalIsFinal

HistoryInv ==
    /\ LeaseInv
    /\ HistoryOrderIsCommitOrder
    /\ \A s \in SessionIds : sessions[s].status # "none" => revision > 0

\* A commit gives its row an instant after every other row's.
LEMMA HistoryStep ==
    HistoryInv /\ [Next]_vars => HistoryInv'
<1> SUFFICES ASSUME HistoryInv, [Next]_vars PROVE HistoryInv'
  OBVIOUS
<1>1. LeaseInv /\ LeaseInv' /\ TypeOK
  BY LeaseStep DEF HistoryInv, LeaseInv
<1>2. CASE UNCHANGED <<lease, startForward>>
  BY <1>1, <1>2 DEF HistoryInv, HistoryOrderIsCommitOrder, lease
<1>3. ASSUME NEW c \in Clients, Entered(c), Start(c) \/ Updates(c)
      PROVE  HistoryInv'
  <2> DEFINE r == request[c]
             id == r.print.command.session
  <2>1. PICK new \in Session :
           Commit(c, new) /\ new.updatedAt = TransitionAt(r.now)
    BY <1>1, <1>3, CommittedRow
  <2>2. /\ id \in SessionIds /\ sessions'[id] = new
        /\ \A s \in SessionIds : s # id => sessions'[s] = sessions[s]
        /\ revision' = revision + 1 /\ updatedAt' = TransitionAt(r.now)
    BY <1>1, <1>3, <2>1, CommitEffect
  <2>3. /\ TransitionAt(r.now) \in Nat
        /\ revision > 0 => TransitionAt(r.now) > updatedAt
    BY <1>1, <1>3, TransitionAtLater, RequestFields DEF Entered
  <2>4. /\ revision \in Nat /\ updatedAt \in Nat
        /\ \A s \in SessionIds : sessions[s].updatedAt \in Nat
    BY <1>1 DEF TypeOK, Session
  <2> HIDE DEF id
  <2> DEFINE at == TransitionAt(r.now)
  <2>5. \A s \in SessionIds : s # id /\ sessions[s].status # "none"
                                 => sessions[s].updatedAt < at
    <3> HIDE DEF at
    <3>1. revision > 0 => at > updatedAt /\ at \in Nat
      BY <2>3 DEF at
    <3> QED
      BY SMT, <2>3, <2>4, <3>1 DEF HistoryInv, HistoryOrderIsCommitOrder
  <2>6. sessions'[id].updatedAt = at /\ updatedAt' = at /\ at \in Nat
    BY <2>1, <2>2, <2>3
  <2> HIDE DEF at
  <2>7. HistoryOrderIsCommitOrder'
    <3> SUFFICES ASSUME NEW s \in SessionIds, NEW t \in SessionIds,
                        sessions'[s].status # "none"
                 PROVE  /\ sessions'[s].updatedAt <= updatedAt'
                        /\ s # t /\ sessions'[t].status # "none" =>
                              sessions'[s].updatedAt # sessions'[t].updatedAt
      BY DEF HistoryOrderIsCommitOrder
    <3>1. sessions[s].updatedAt \in Nat /\ sessions[t].updatedAt \in Nat
      BY <2>4
    <3>2. CASE s = id
      BY SMT, <2>2, <2>5, <2>6, <3>1, <3>2
    <3>3. CASE s # id /\ t = id
      BY SMT, <2>2, <2>5, <2>6, <3>1, <3>3
    <3>4. CASE s # id /\ t # id
      <4>1. sessions'[s] = sessions[s] /\ sessions'[t] = sessions[t]
        BY <2>2, <3>4
      <4>2. sessions[s].updatedAt < at
        BY <2>5, <3>4, <4>1
      <4>3. s # t /\ sessions[t].status # "none" =>
               sessions[s].updatedAt # sessions[t].updatedAt
        BY <4>1 DEF HistoryInv, HistoryOrderIsCommitOrder
      <4> QED
        BY SMT, <2>6, <3>1, <4>1, <4>2, <4>3
    <3> QED
      BY <3>2, <3>3, <3>4
  <2>8. revision' > 0
    BY SMT, <2>2, <2>4
  <2> QED
    BY <1>1, <2>7, <2>8 DEF HistoryInv
<1> QED
  BY <1>2, <1>3, QuietOrCommit

\* The order of history pages is the order of commits.
THEOREM HistoryIsOrdered == Spec => []HistoryOrderIsCommitOrder
<1>1. Init => HistoryInv
  <2>1. NoSession.status = "none"
    BY DEF NoSession
  <2>2. Init => \A s \in SessionIds : sessions[s].status = "none"
    BY <2>1 DEF Init
  <2> QED
    BY <2>2, LeaseInit DEF HistoryInv, HistoryOrderIsCommitOrder
<1>2. HistoryInv => HistoryOrderIsCommitOrder
  BY DEF HistoryInv
<1> QED
  BY <1>1, <1>2, HistoryStep, PTL DEF Spec

(***************************************************************************)
(* The live item: Start rereads the item in its transaction, and item      *)
(* edits look at the lease.                                                *)
(***************************************************************************)
\* Every step keeps the live item executable.
LEMMA LiveItemStep ==
    LeaseInv /\ LiveItemIsExecutable /\ [Next]_vars => LiveItemIsExecutable'
<1> SUFFICES ASSUME LeaseInv, LiveItemIsExecutable, [Next]_vars, active' # None
             PROVE  item'[LiveItem'].startable
  BY DEF LiveItemIsExecutable
<1>1. TypeOK
  BY DEF LeaseInv
<1>2. CASE UNCHANGED <<lease, startForward>>
  <2>1. active' = active /\ LiveItem' = LiveItem /\ item[LiveItem].startable
    BY <1>2 DEF lease, LiveItem, LiveItemIsExecutable
  <2>2. CASE item' = item
    BY <2>1, <2>2
  <2>3. ASSUME NEW i \in Items, ItemChange(i) PROVE item'[LiveItem'].startable
    <3>1. PICK startable \in BOOLEAN :
             /\ i = LiveItem => startable
             /\ item' = [item EXCEPT ![i] = [revision |-> @.revision + 1,
                                             startable |-> startable]]
      BY <2>3 DEF ItemChange
    <3>2. item'[i].startable = startable
      BY <1>1, <3>1 DEF TypeOK
    <3>3. LiveItem # i => item'[LiveItem] = item[LiveItem]
      BY SMT, <1>1, <3>1 DEF TypeOK
    <3> QED
      BY <2>1, <3>1, <3>2, <3>3
  <2>4. item' = item \/ \E i \in Items : ItemChange(i)
    BY ZenonT(30) DEF Next, vars, ClockForward, ClockBack, Receive, ReplayLookup, Validate,
           ApplyReplay, Start, Pause, Resume, Finish, Defer, Refuse, Lose, Commit
  <2> QED
    BY <2>2, <2>3, <2>4
<1>3. ASSUME NEW c \in Clients, Entered(c), Start(c) \/ Updates(c)
      PROVE  item'[LiveItem'].startable
  <2> DEFINE cmd == request[c].print.command
  <2>1. PICK new \in Session :
           /\ Commit(c, new)
           /\ \/ new.item = cmd.item /\ StartableItem(cmd) /\ cmd.type = "start"
              \/ new.item = sessions[cmd.session].item /\ active = cmd.session
    BY <1>3, CommittedRow
  <2>2. /\ cmd.session \in SessionIds /\ sessions'[cmd.session] = new
        /\ active' = IF new.status \in Open THEN cmd.session ELSE None
        /\ item' = item
    BY <1>1, <1>3, <2>1, CommitEffect
  <2> HIDE DEF cmd
  <2>3. LiveItem' = new.item
    BY <2>2 DEF LiveItem
  <2>4. item[new.item].startable
    BY <2>1, <2>2, SessionAssumption
       DEF StartableItem, LiveItemIsExecutable, LiveItem
  <2> QED
    BY <2>2, <2>3, <2>4
<1> QED
  BY <1>2, <1>3, QuietOrCommit

\* The live session's item stays executable through any item edits.
THEOREM LiveItemStaysExecutable == Spec => []LiveItemIsExecutable
<1>1. Init => LiveItemIsExecutable
  BY DEF Init, LiveItemIsExecutable
<1> QED
  BY <1>1, LiveItemStep, LeaseInvariant, PTL DEF Spec

(***************************************************************************)
(* Effects and answers: the outbox holds one message per revision, each    *)
(* for the revision before it, and what is remembered or told points at    *)
(* the message of the same request.                                        *)
(***************************************************************************)
Names(box, rev, print) == rev \in 1..Len(box) /\ box[rev] = print

LedgerInv ==
    /\ TypeOK
    /\ Len(outbox) = revision
    /\ \A i \in 1..Len(outbox) : outbox[i].expected = i - 1
    /\ \A k \in Keys : idempotency[k] # None =>
          Names(outbox, idempotency[k].revision, idempotency[k].print)
    /\ \A c \in Clients : answer[c] # None =>
          Names(outbox, answer[c].revision, answer[c].print)

\* A step without a commit tells only what is remembered.
LEMMA QuietAnswer ==
    ASSUME TypeOK, [Next]_vars, UNCHANGED <<lease, startForward>>,
           NEW c \in Clients, answer'[c] # None
    PROVE  \/ answer'[c] = answer[c]
           \/ \E k \in Keys :
                 /\ idempotency[k] # None
                 /\ answer'[c].revision = idempotency[k].revision
                 /\ answer'[c].print = idempotency[k].print
<1>1. CASE answer' = answer
  BY <1>1
<1>2. ASSUME NEW d \in Clients, request[d] # None, ReplayOrConflict(d)
      PROVE  \/ answer'[c] = answer[c]
             \/ \E k \in Keys :
                   /\ idempotency[k] # None
                   /\ answer'[c].revision = idempotency[k].revision
                   /\ answer'[c].print = idempotency[k].print
  <2>1. request[d].key \in Keys
    BY <1>2, RequestFields
  <2>2. CASE UNCHANGED answer
    BY <2>2
  <2>3. CASE /\ idempotency[request[d].key].print = request[d].print
             /\ Answer(d, idempotency[request[d].key].revision, TRUE)
    <3>1. CASE c = d
      <4>1. answer'[d] = [key |-> request[d].key, print |-> request[d].print,
                          revision |-> idempotency[request[d].key].revision,
                          replayed |-> TRUE]
        BY <2>3 DEF Answer, TypeOK
      <4> QED
        <5>1. idempotency[request[d].key] # None
          BY <1>2 DEF ReplayOrConflict, Remembers
        <5>2. /\ answer'[c].revision = idempotency[request[d].key].revision
              /\ answer'[c].print = idempotency[request[d].key].print
          <6>1. /\ answer'[d].revision = idempotency[request[d].key].revision
                /\ answer'[d].print = request[d].print
            BY SMT, <4>1
          <6> QED
            BY <2>3, <3>1, <6>1
        <5> QED
          BY <2>1, <5>1, <5>2
    <3>2. CASE c # d
      BY <2>3, <3>2 DEF Answer, TypeOK
    <3> QED
      BY <3>1, <3>2
  <2> QED
    BY <1>2, <2>2, <2>3 DEF ReplayOrConflict
<1>3. ASSUME NEW d \in Clients, Start(d) \/ Updates(d) PROVE FALSE
  <2>1. revision' = revision + 1 /\ revision' = revision
    BY <1>3 DEF Start, Updates, Pause, Resume, Finish, Defer, Commit, lease
  <2> QED
    BY SMT, <2>1 DEF TypeOK
<1>4. \/ answer' = answer
      \/ \E d \in Clients : request[d] # None /\ ReplayOrConflict(d)
      \/ \E d \in Clients : Start(d) \/ Updates(d)
  BY DEF Next, vars, ClockForward, ClockBack, ItemChange, Receive, ReplayLookup,
         Validate, ApplyReplay, Refuse, Lose, Updates
<1> QED
  BY <1>1, <1>2, <1>3, <1>4

\* Every step keeps the ledger.
LEMMA LedgerStep ==
    LeaseInv /\ LedgerInv /\ [Next]_vars => LedgerInv'
<1> SUFFICES ASSUME LeaseInv, LedgerInv, [Next]_vars PROVE LedgerInv'
  OBVIOUS
<1>1. TypeOK /\ TypeOK'
  BY TypeStep DEF LedgerInv
<1>2. CASE UNCHANGED <<lease, startForward>>
  <2>1. /\ outbox' = outbox /\ revision' = revision /\ idempotency' = idempotency
    BY <1>2 DEF lease
  <2>2. ASSUME NEW c \in Clients, answer'[c] # None
        PROVE  Names(outbox, answer'[c].revision, answer'[c].print)
    BY <1>1, <1>2, <2>2, QuietAnswer DEF LedgerInv
  <2> QED
    BY <1>1, <2>1, <2>2 DEF LedgerInv, Names
<1>3. ASSUME NEW c \in Clients, Entered(c), Start(c) \/ Updates(c)
      PROVE  LedgerInv'
  <2> DEFINE r == request[c]
  <2>1. PICK new \in Session : Commit(c, new)
    BY <1>3, CommittedRow
  <2>2. /\ r.key \in Keys /\ r.print \in Fingerprint /\ r.print.expected = revision
        /\ revision \in Nat /\ outbox \in Seq(Fingerprint) /\ Len(outbox) = revision
    BY <1>1, <1>3, RequestFields DEF Entered, TypeOK, LedgerInv
  <2>3. /\ revision' = revision + 1
        /\ outbox' = Append(outbox, r.print)
        /\ idempotency' = [idempotency EXCEPT ![r.key] =
               [print |-> r.print, expiresAt |-> r.now + IdempotencyTtl,
                revision |-> revision + 1]]
        /\ answer' = [answer EXCEPT ![c] =
               [key |-> r.key, print |-> r.print,
                revision |-> revision + 1, replayed |-> FALSE]]
    BY <2>1 DEF Commit, Answer
  <2> HIDE DEF r
  <2>4. /\ Len(outbox') = revision + 1
        /\ outbox'[revision + 1] = r.print
        /\ \A i \in 1..revision : outbox'[i] = outbox[i]
    <3> DEFINE print == r.print
    <3>1. print \in Fingerprint /\ outbox' = Append(outbox, print)
      BY <2>2, <2>3
    <3> HIDE DEF print
    <3>2. /\ Len(outbox') = revision + 1
          /\ outbox'[revision + 1] = print
          /\ \A i \in 1..revision : outbox'[i] = outbox[i]
      BY SMT, <2>2, <3>1
    <3> QED
      BY <3>2 DEF print
  <2>5. \A i \in 1..Len(outbox') : outbox'[i].expected = i - 1
    <3> SUFFICES ASSUME NEW i \in 1..Len(outbox') PROVE outbox'[i].expected = i - 1
      OBVIOUS
    <3>1. i \in 1..revision \/ i = revision + 1
      BY SMT, <2>2, <2>4
    <3>2. CASE i \in 1..revision
      <4>1. outbox[i].expected = i - 1
        BY <2>2, <3>2 DEF LedgerInv
      <4> QED
        BY <2>4, <3>2, <4>1
    <3>3. CASE i = revision + 1
      BY SMT, <2>2, <2>4, <3>3
    <3> QED
      BY <3>1, <3>2, <3>3
  <2>6. /\ \A rev, print : Names(outbox, rev, print) => Names(outbox', rev, print)
        /\ Names(outbox', revision + 1, r.print)
    BY SMT, <2>2, <2>4 DEF Names
  <2>7. ASSUME NEW k \in Keys, idempotency'[k] # None
        PROVE  Names(outbox', idempotency'[k].revision, idempotency'[k].print)
    <3>1. CASE k = r.key
      <4>1. idempotency'[k] = [print |-> r.print, expiresAt |-> r.now + IdempotencyTtl,
                               revision |-> revision + 1]
        BY <1>1, <2>3, <3>1 DEF TypeOK
      <4>2. /\ idempotency'[k].revision = revision + 1
            /\ idempotency'[k].print = r.print
        BY SMT, <4>1
      <4> QED
        BY <2>6, <4>2
    <3>2. CASE k # r.key
      <4>1. idempotency'[k] = idempotency[k]
        BY <1>1, <2>3, <3>2 DEF TypeOK
      <4> QED
        BY <2>6, <2>7, <4>1 DEF LedgerInv
    <3> QED
      BY <3>1, <3>2
  <2>8. ASSUME NEW d \in Clients, answer'[d] # None
        PROVE  Names(outbox', answer'[d].revision, answer'[d].print)
    <3>1. CASE d = c
      <4>1. answer'[d] = [key |-> r.key, print |-> r.print,
                          revision |-> revision + 1, replayed |-> FALSE]
        BY <1>1, <2>3, <3>1 DEF TypeOK
      <4>2. answer'[d].revision = revision + 1 /\ answer'[d].print = r.print
        BY SMT, <4>1
      <4> QED
        BY <2>6, <4>2
    <3>2. CASE d # c
      <4>1. answer'[d] = answer[d]
        BY <1>1, <2>3, <3>2 DEF TypeOK
      <4> QED
        BY <2>6, <2>8, <4>1 DEF LedgerInv
    <3> QED
      BY <3>1, <3>2
  <2> QED
    BY <1>1, <2>2, <2>3, <2>4, <2>5, <2>7, <2>8 DEF LedgerInv
<1> QED
  BY <1>2, <1>3, QuietOrCommit

\* Every success names the one commit made for that revision and command, and
\* no request is committed twice, whatever is retried, lost or expired.
THEOREM EffectsAreSingle == Spec => []AppliedAtMostOnce
<1>1. Init => LedgerInv
  <2> SUFFICES ASSUME Init PROVE LedgerInv
    OBVIOUS
  <2>1. /\ TypeOK /\ outbox = <<>> /\ revision = 0
        /\ \A k \in Keys : idempotency[k] = None
        /\ \A c \in Clients : answer[c] = None
    BY InitType DEF Init
  <2>2. Len(outbox) = revision /\ 1..Len(outbox) = {}
    BY SMT, <2>1
  <2> QED
    BY <2>1, <2>2 DEF LedgerInv
<1>2. LedgerInv => AppliedAtMostOnce
  <2> SUFFICES ASSUME LedgerInv PROVE AppliedAtMostOnce
    OBVIOUS
  <2>1. \A i, j \in 1..Len(outbox) : outbox[i] = outbox[j] => i = j
    <3> SUFFICES ASSUME NEW i \in 1..Len(outbox), NEW j \in 1..Len(outbox),
                        outbox[i] = outbox[j]
                 PROVE  i = j
      OBVIOUS
    <3>1. outbox[i].expected = i - 1 /\ outbox[j].expected = j - 1
      BY DEF LedgerInv
    <3>2. i \in Int /\ j \in Int
      BY SMT
    <3> QED
      BY SMT, <3>1, <3>2
  <2> QED
    BY <2>1 DEF LedgerInv, Names, AppliedAtMostOnce
<1> QED
  BY <1>1, <1>2, LedgerStep, LeaseInvariant, PTL DEF Spec

(***************************************************************************)
(* Charged time.  The revision check orders clock readings: a request that *)
(* can still commit was captured after the last commit, so the span from   *)
(* the observed start to its own reading lies within the forward movement  *)
(* of the clock between the two.                                           *)
(***************************************************************************)
Charge(s) == startForward[s] + sessions[s].accumulated * Second

ReadingsAreOld ==
    \A c \in Clients : request[c] # None =>
        /\ request[c].print.expected <= revision
        /\ request[c].forward <= forward
        /\ wall - request[c].now <= forward - request[c].forward

ChargedSoFar(s, reading, moved) ==
    /\ Charge(s) <= moved
    /\ sessions[s].status = "active" =>
          Charge(s) + (reading - sessions[s].observedRunningSince) <= moved

ChargesAreReal ==
    \A s \in SessionIds :
        /\ ChargedSoFar(s, wall, forward)
        /\ \A c \in Clients :
              request[c] # None /\ request[c].print.expected = revision =>
                  ChargedSoFar(s, request[c].now, request[c].forward)

ClockInv == LeaseInv /\ ReadingsAreOld /\ ChargesAreReal

\* Charges are numbers, and so is the reading a running span starts from.
LEMMA ChargeFields ==
    ASSUME LeaseInv, NEW s \in SessionIds
    PROVE  /\ Charge(s) \in Nat
           /\ startForward[s] \in Nat /\ sessions[s].accumulated \in Nat
           /\ sessions[s].accumulated * Second \in Nat
           /\ sessions[s].status = "active" =>
                 sessions[s].observedRunningSince \in Nat
<1>1. sessions[s] \in Session /\ startForward[s] \in Nat
  BY DEF LeaseInv, TypeOK
<1>2. sessions[s].accumulated \in Nat
  BY <1>1 DEF Session
<1>3. sessions[s].accumulated * Second \in Nat
  BY <1>2, SecondsArithmetic
<1>4. sessions[s].status = "active" => sessions[s].observedRunningSince \in Nat
  BY <1>1 DEF LeaseInv, RowsAreSound, Sound, TableAccepts, StateShape, Session,
              Option, Terminal
<1> QED
  BY SMT, <1>1, <1>2, <1>3, <1>4 DEF Charge

\* A bound on a reading survives any movement of the clock.
LEMMA ReadingArithmetic ==
    ASSUME NEW w \in Nat, NEW w2 \in Nat, NEW f \in Nat, NEW f2 \in Nat,
           NEW n \in Nat, NEW g \in Nat,
           f2 >= f, w2 - w <= f2 - f, w - n <= f - g, g <= f
    PROVE  g <= f2 /\ w2 - n <= f2 - g
BY SMT

\* So does a bound on a charge, with the span that is running or without it.
LEMMA ChargeArithmetic ==
    ASSUME NEW w \in Nat, NEW w2 \in Nat, NEW f \in Nat, NEW f2 \in Nat,
           NEW k \in Nat, f2 >= f, w2 - w <= f2 - f
    PROVE  /\ k <= f => k <= f2
           /\ \A n \in Nat : k + (w - n) <= f => k + (w2 - n) <= f2
BY SMT

\* A step that leaves the lease alone only moves the clock, captures it for a
\* new request, or ends requests.
LEMMA QuietClockStep ==
    ASSUME ClockInv, [Next]_vars, UNCHANGED <<lease, startForward>>
    PROVE  ReadingsAreOld' /\ ChargesAreReal'
<1>1. TypeOK /\ LeaseInv
  BY DEF ClockInv, LeaseInv
<1>2. /\ sessions' = sessions /\ startForward' = startForward
      /\ revision' = revision
      /\ \A s \in SessionIds : Charge(s)' = Charge(s)
  BY DEF lease, Charge
<1>3. wall \in Nat /\ forward \in Nat /\ revision \in Nat
  BY <1>1 DEF TypeOK
<1>4. \A c \in Clients : request[c] # None =>
         /\ request[c].now \in Nat /\ request[c].forward \in Nat
         /\ request[c].print.expected \in Nat
  BY <1>1, RequestFields
<1>5. ASSUME \A c \in Clients : request'[c] # None =>
                 /\ request[c] # None
                 /\ request'[c].now = request[c].now
                 /\ request'[c].forward = request[c].forward
                 /\ request'[c].print = request[c].print,
             wall' \in Nat, forward' \in Nat,
             forward' >= forward, wall' - wall <= forward' - forward
      PROVE  ReadingsAreOld' /\ ChargesAreReal'
  <2>1. ASSUME NEW c \in Clients, request'[c] # None
        PROVE  /\ request'[c].print.expected <= revision'
               /\ request'[c].forward <= forward'
               /\ wall' - request'[c].now <= forward' - request'[c].forward
    <3>1. /\ request[c] # None
          /\ request'[c].now = request[c].now
          /\ request'[c].forward = request[c].forward
          /\ request'[c].print = request[c].print
      BY <1>5, <2>1
    <3>2. /\ request[c].print.expected <= revision
          /\ request[c].forward <= forward
          /\ wall - request[c].now <= forward - request[c].forward
      BY <3>1 DEF ClockInv, ReadingsAreOld
    <3>3. request[c].now \in Nat /\ request[c].forward \in Nat
      BY <1>4, <3>1
    <3>4. /\ wall' \in Nat /\ forward' \in Nat
          /\ forward' >= forward /\ wall' - wall <= forward' - forward
      BY <1>5
    <3>5. /\ request[c].forward <= forward'
          /\ wall' - request[c].now <= forward' - request[c].forward
      <4>1. ASSUME NEW w \in Nat, NEW f \in Nat,
                   f >= forward, w - wall <= f - forward
            PROVE  /\ request[c].forward <= f
                   /\ w - request[c].now <= f - request[c].forward
        BY SMT, <1>3, <3>2, <3>3, <4>1, ReadingArithmetic
      <4> QED
        BY <3>4, <4>1
    <3> QED
      BY <1>2, <3>1, <3>2, <3>5
  <2>2. ASSUME NEW s \in SessionIds PROVE ChargedSoFar(s, wall, forward)'
    <3>1. ChargedSoFar(s, wall, forward)
      BY DEF ClockInv, ChargesAreReal
    <3>2. Charge(s)' = Charge(s) /\ sessions'[s] = sessions[s]
      BY <1>2
    <3>3. /\ Charge(s) \in Nat
          /\ sessions[s].status = "active" =>
                sessions[s].observedRunningSince \in Nat
      BY <1>1, ChargeFields
    <3>4. /\ wall' \in Nat /\ forward' \in Nat
          /\ forward' >= forward /\ wall' - wall <= forward' - forward
      BY <1>5
    <3>5. ASSUME NEW w \in Nat, NEW f \in Nat,
                 f >= forward, w - wall <= f - forward
          PROVE  ChargedSoFar(s, w, f)
      BY SMT, <1>3, <3>1, <3>3, <3>5, ChargeArithmetic DEF ChargedSoFar
    <3>6. ChargedSoFar(s, wall', forward')
      BY <3>4, <3>5
    <3> QED
      BY <3>2, <3>6 DEF ChargedSoFar
  <2>3. ASSUME NEW s \in SessionIds, NEW c \in Clients,
               request'[c] # None, request'[c].print.expected = revision'
        PROVE  ChargedSoFar(s, request[c].now, request[c].forward)'
    BY <1>2, <1>5, <2>3 DEF ClockInv, ChargesAreReal, ChargedSoFar
  <2> QED
    BY <2>1, <2>2, <2>3 DEF ReadingsAreOld, ChargesAreReal
<1>6. CASE ClockForward
  <2>1. wall' = wall + 1 /\ forward' = forward + 1 /\ request' = request
    BY <1>6 DEF ClockForward
  <2>2. /\ wall + 1 \in Nat /\ forward + 1 \in Nat
        /\ forward + 1 >= forward /\ (wall + 1) - wall <= (forward + 1) - forward
    BY SMT, <1>3
  <2> QED
    BY <1>5, <2>1, <2>2
<1>7. CASE ClockBack
  <2>1. PICK t \in Nat :
           t < wall /\ wall' = t /\ forward' = forward /\ request' = request
    BY <1>7, LeaseAssumption DEF ClockBack
  <2>2. forward >= forward /\ t - wall <= forward - forward
    BY SMT, <1>3, <2>1
  <2> QED
    BY <1>3, <1>5, <2>1, <2>2
<1>8. ASSUME NEW i \in Items, ItemChange(i) PROVE ReadingsAreOld' /\ ChargesAreReal'
  BY SMT, <1>3, <1>5, <1>8 DEF ItemChange
<1>9. ASSUME NEW c \in Clients, Receive(c) PROVE ReadingsAreOld' /\ ChargesAreReal'
  <2>1. /\ request[c] = None /\ wall' = wall /\ forward' = forward
        /\ \E k \in Keys, expected \in 0..revision, cmd \in Inputs :
              request' = [request EXCEPT ![c] =
                  [step |-> "received", key |-> k,
                   print |-> [expected |-> expected, command |-> cmd],
                   now |-> wall, forward |-> forward]]
    BY <1>9 DEF Receive
  <2>2. /\ request'[c].now = wall /\ request'[c].forward = forward
        /\ request'[c].print.expected \in 0..revision
        /\ \A d \in Clients \ {c} : request'[d] = request[d]
    <3>1. PICK k \in Keys, expected \in 0..revision, cmd \in Inputs :
             request' = [request EXCEPT ![c] =
                 [step |-> "received", key |-> k,
                  print |-> [expected |-> expected, command |-> cmd],
                  now |-> wall, forward |-> forward]]
      BY <2>1
    <3>2. /\ request'[c] = [step |-> "received", key |-> k,
                            print |-> [expected |-> expected, command |-> cmd],
                            now |-> wall, forward |-> forward]
          /\ \A d \in Clients \ {c} : request'[d] = request[d]
      BY <1>1, <3>1 DEF TypeOK
    <3> QED
      BY SMT, <3>2
  <2>3. ReadingsAreOld'
    <3> SUFFICES ASSUME NEW d \in Clients, request'[d] # None
                 PROVE  /\ request'[d].print.expected <= revision'
                        /\ request'[d].forward <= forward'
                        /\ wall' - request'[d].now <= forward' - request'[d].forward
      BY DEF ReadingsAreOld
    <3>1. CASE d = c
      BY SMT, <1>2, <1>3, <2>1, <2>2, <3>1
    <3>2. CASE d # c
      <4>1. request'[d] = request[d]
        BY <2>2, <3>2
      <4> QED
        BY <1>2, <2>1, <4>1 DEF ClockInv, ReadingsAreOld
    <3> QED
      BY <3>1, <3>2
  <2>4. \A s \in SessionIds : ChargedSoFar(s, wall, forward)'
    BY <1>2, <2>1 DEF ClockInv, ChargesAreReal, ChargedSoFar
  <2>5. ASSUME NEW s \in SessionIds, NEW d \in Clients,
               request'[d] # None, request'[d].print.expected = revision'
        PROVE  ChargedSoFar(s, request[d].now, request[d].forward)'
    <3>1. CASE d = c
      BY <1>2, <2>2, <3>1 DEF ClockInv, ChargesAreReal, ChargedSoFar
    <3>2. CASE d # c
      BY <1>2, <2>2, <2>5, <3>2 DEF ClockInv, ChargesAreReal, ChargedSoFar
    <3> QED
      BY <3>1, <3>2
  <2> QED
    BY <2>3, <2>4, <2>5 DEF ChargesAreReal
<1>10. ASSUME NEW c \in Clients,
              \/ ReplayLookup(c) \/ ApplyReplay(c) \/ Refuse(c) \/ Lose(c)
       PROVE  ReadingsAreOld' /\ ChargesAreReal'
  <2>1. request' = [request EXCEPT ![c] = None] /\ wall' = wall /\ forward' = forward
    BY <1>10 DEF ReplayLookup, ApplyReplay, ReplayOrConflict, Refuse, Lose, Drop
  <2> QED
    BY SMT, <1>1, <1>3, <1>5, <2>1 DEF TypeOK
<1>11. ASSUME NEW c \in Clients, Validate(c) PROVE ReadingsAreOld' /\ ChargesAreReal'
  <2>1. /\ request[c] # None /\ wall' = wall /\ forward' = forward
        /\ \/ request' = [request EXCEPT ![c] = [@ EXCEPT !.step = "validated"]]
           \/ request' = [request EXCEPT ![c] = None]
    BY <1>11 DEF Validate, Drop
  <2>2. request[c] \in Request
    BY <1>1, <2>1, RequestFields
  <2>3. \A d \in Clients : request'[d] # None =>
           /\ request[d] # None
           /\ request'[d].now = request[d].now
           /\ request'[d].forward = request[d].forward
           /\ request'[d].print = request[d].print
    <3> SUFFICES ASSUME NEW d \in Clients, request'[d] # None
                 PROVE  /\ request[d] # None
                        /\ request'[d].now = request[d].now
                        /\ request'[d].forward = request[d].forward
                        /\ request'[d].print = request[d].print
      OBVIOUS
    <3>1. CASE d # c
      BY <1>1, <2>1, <3>1 DEF TypeOK
    <3>2. CASE d = c
      <4>1. request'[c] = [request[c] EXCEPT !.step = "validated"]
        BY <1>1, <2>1, <3>2 DEF TypeOK
      <4> QED
        BY <2>1, <2>2, <3>2, <4>1 DEF Request
    <3> QED
      BY <3>1, <3>2
  <2> QED
    BY SMT, <1>3, <1>5, <2>1, <2>3
<1>12. CASE UNCHANGED vars
  BY SMT, <1>3, <1>5, <1>12 DEF vars
<1>13. ASSUME NEW c \in Clients, Start(c) \/ Updates(c) PROVE FALSE
  <2>1. revision' = revision + 1
    BY <1>13 DEF Start, Updates, Pause, Resume, Finish, Defer, Commit
  <2> QED
    BY SMT, <1>2, <1>3, <2>1
<1> QED
  BY <1>6, <1>7, <1>8, <1>9, <1>10, <1>11, <1>12, <1>13 DEF Next, Updates

\* Every step keeps charges within what the clock has moved.
LEMMA ClockStep ==
    ClockInv /\ [Next]_vars => ClockInv'
<1> SUFFICES ASSUME ClockInv, [Next]_vars PROVE ClockInv'
  OBVIOUS
<1>1. LeaseInv /\ TypeOK /\ LeaseInv' /\ TypeOK'
  BY LeaseStep DEF ClockInv, LeaseInv
<1>2. CASE UNCHANGED <<lease, startForward>>
  BY <1>1, <1>2, QuietClockStep DEF ClockInv
<1>3. ASSUME NEW c \in Clients, Entered(c), Start(c) \/ Updates(c),
             NEW new \in Session, Commit(c, new),
             LET r == request[c]
                 id == r.print.command.session IN
             /\ \A s \in SessionIds : s # id => startForward'[s] = startForward[s]
             /\ startForward'[id] + new.accumulated * Second <= r.forward
             /\ new.status = "active" => new.observedRunningSince = r.now
      PROVE  ClockInv'
  <2> DEFINE r == request[c]
             id == r.print.command.session
  <2>1. /\ id \in SessionIds
        /\ sessions'[id] = new
        /\ \A s \in SessionIds : s # id => sessions'[s] = sessions[s]
        /\ revision' = revision + 1
        /\ \A d \in Clients : request'[d] # None => request'[d] = request[d]
        /\ wall' = wall /\ forward' = forward
    BY <1>1, <1>3, CommitEffect
  <2>2. /\ r.now \in Nat /\ r.forward \in Nat /\ request[c] # None
        /\ r.print.expected = revision
    BY <1>1, <1>3, RequestFields DEF Entered
  <2>3. /\ wall \in Nat /\ forward \in Nat /\ revision \in Nat
        /\ \A d \in Clients : request[d] # None => request[d].print.expected \in Nat
    BY <1>1, RequestFields DEF TypeOK
  <2>4. r.forward <= forward /\ wall - r.now <= forward - r.forward
    BY <2>2 DEF ClockInv, ReadingsAreOld
  <2>5. ReadingsAreOld'
        /\ \A d \in Clients : request'[d] # None => request'[d].print.expected # revision'
    <3>1. ASSUME NEW d \in Clients, request'[d] # None
          PROVE  /\ request'[d].print.expected < revision'
                 /\ request'[d].print.expected \in Nat
                 /\ request'[d].forward <= forward'
                 /\ wall' - request'[d].now <= forward' - request'[d].forward
      <4>1. request'[d] = request[d] /\ request[d] # None
        BY <2>1, <3>1
      <4>2. /\ request[d].print.expected <= revision
            /\ request[d].forward <= forward
            /\ wall - request[d].now <= forward - request[d].forward
        BY <4>1 DEF ClockInv, ReadingsAreOld
      <4>3. request[d].print.expected < revision + 1
        BY SMT, <2>3, <4>1, <4>2
      <4> QED
        BY <2>1, <2>3, <4>1, <4>2, <4>3
    <3>2. ASSUME NEW d \in Clients, request'[d] # None
          PROVE  /\ request'[d].print.expected <= revision'
                 /\ request'[d].print.expected # revision'
      <4>1. revision' \in Nat
        BY SMT, <2>1, <2>3
      <4>2. request'[d].print.expected < revision'
            /\ request'[d].print.expected \in Nat
        BY <3>1, <3>2
      <4> QED
        BY SMT, <4>1, <4>2
    <3> QED
      BY <3>1, <3>2 DEF ReadingsAreOld
  <2>6. ASSUME NEW s \in SessionIds PROVE ChargedSoFar(s, wall, forward)'
    <3>1. CASE s = id
      <4>1. Charge(s)' = startForward'[id] + new.accumulated * Second
        BY <2>1, <3>1 DEF Charge
      <4>2. Charge(s)' \in Nat
        <5>1. startForward'[id] \in Nat /\ new.accumulated \in Nat
          <6>1. startForward'[id] \in Nat
            BY <1>1, <2>1 DEF TypeOK
          <6>2. new.accumulated \in Nat
            BY DEF Session
          <6> QED
            BY <6>1, <6>2
        <5>2. new.accumulated * Second \in Nat
          BY <5>1, SecondsArithmetic
        <5> HIDE DEF id
        <5> QED
          BY SMT, <4>1, <5>1, <5>2
      <4>3. Charge(s)' <= r.forward
        BY <1>3, <4>1
      <4>4. sessions'[s].status = "active" => sessions'[s].observedRunningSince = r.now
        BY <1>3, <2>1, <3>1
      <4> HIDE DEF r
      <4>5. Charge(s)' <= forward
        BY SMT, <2>2, <2>3, <2>4, <4>2, <4>3
      <4>6. Charge(s)' + (wall - r.now) <= forward
        BY SMT, <2>2, <2>3, <2>4, <4>2, <4>3
      <4> QED
        BY <2>1, <4>4, <4>5, <4>6 DEF ChargedSoFar
    <3>2. CASE s # id
      BY <1>3, <2>1, <3>2 DEF ClockInv, ChargesAreReal, ChargedSoFar, Charge
    <3> QED
      BY <3>1, <3>2
  <2> QED
    BY <1>1, <2>5, <2>6 DEF ClockInv, ChargesAreReal
<1>4. ASSUME NEW c \in Clients, Entered(c), Start(c)
      PROVE  ClockInv'
  <2> DEFINE r == request[c]
             cmd == r.print.command
             new == StartSession(cmd, TransitionAt(r.now), r.now)
  <2>1. /\ r.now \in Nat /\ r.forward \in Nat /\ cmd \in Command
        /\ cmd.session \in SessionIds /\ TransitionAt(r.now) \in Nat
    BY <1>1, <1>4, RequestFields, TransitionAtLater DEF Entered
  <2>2. /\ Commit(c, new)
        /\ startForward' = [startForward EXCEPT ![cmd.session] = r.forward]
    BY <1>4 DEF Start
  <2> HIDE DEF cmd, r
  <2>3. /\ new \in Session /\ new.accumulated = 0
        /\ new.observedRunningSince = r.now
    <3> DEFINE at == TransitionAt(r.now)
    <3>1. at \in Nat
      BY <2>1
    <3> HIDE DEF at
    <3> DEFINE now == r.now
    <3>2. now \in Nat /\ cmd \in Command
      BY <2>1
    <3> HIDE DEF now
    <3>3. LET row == StartSession(cmd, at, now) IN
          row \in Session /\ row.accumulated = 0 /\ row.observedRunningSince = now
      BY SMT, <3>1, <3>2, StartRow
    <3> QED
      BY <3>3 DEF at, now
  <2>4. /\ startForward'[cmd.session] = r.forward
        /\ \A s \in SessionIds : s # cmd.session => startForward'[s] = startForward[s]
    BY <1>1, <2>1, <2>2 DEF TypeOK
  <2>5. startForward'[cmd.session] + new.accumulated * Second <= r.forward
    BY SMT, <2>1, <2>3, <2>4, SessionAssumption
  <2> HIDE DEF new
  <2> QED
    BY <1>3, <1>4, <2>2, <2>3, <2>4, <2>5 DEF r, cmd
<1>5. ASSUME NEW c \in Clients, Entered(c), Updates(c)
      PROVE  ClockInv'
  <2> DEFINE r == request[c]
             id == r.print.command.session
  <2>1. /\ r.now \in Nat /\ r.forward \in Nat /\ id \in SessionIds
        /\ r # None /\ r.print.expected = revision
    BY <1>1, <1>5, RequestFields DEF Entered
  <2>2. active = id
    BY <1>5 DEF Updates, Pause, Resume, Finish, Defer, CanUpdate
  <2>3. sessions[id].status \in Open /\ Sound(sessions[id])
    BY <1>1, <2>1, <2>2 DEF LeaseInv, OneLease, RowsAreSound, Open
  <2>4. /\ startForward' = startForward
        /\ \E new \in Session :
              Commit(c, new) /\ Updated(sessions[id], new, TransitionAt(r.now), r.now)
    BY <1>1, <1>5, <2>3, UpdateActions DEF Updates
  <2>5. PICK new \in Session :
              Commit(c, new) /\ Updated(sessions[id], new, TransitionAt(r.now), r.now)
    BY <2>4
  <2>6. ChargedSoFar(id, r.now, r.forward)
    BY <2>1 DEF ClockInv, ChargesAreReal
  <2> HIDE DEF r, id
  <2>7. /\ new.accumulated \in Nat /\ new.accumulated * Second \in Nat
        /\ new.accumulated <= sessions[id].accumulated
              => new.accumulated * Second <= sessions[id].accumulated * Second
    <3>1. new.accumulated \in Nat /\ sessions[id].accumulated \in Nat
      BY <1>1, <2>1 DEF TypeOK, Session
    <3> QED
      BY <3>1, SecondsArithmetic
  <2>8. startForward[id] + new.accumulated * Second <= r.forward
    <3> DEFINE old == sessions[id]
    <3>1. /\ startForward[id] \in Nat /\ old.accumulated * Second \in Nat
          /\ startForward[id] + old.accumulated * Second <= r.forward
          /\ old.status = "active" =>
                /\ old.observedRunningSince \in Nat
                /\ startForward[id] + old.accumulated * Second
                      + (r.now - old.observedRunningSince) <= r.forward
      BY <1>1, <2>1, <2>6, ChargeFields DEF ChargedSoFar, Charge
    <3>2. \/ new.accumulated <= old.accumulated
          \/ /\ old.status = "active"
             /\ new.accumulated * Second
                   <= old.accumulated * Second + (r.now - old.observedRunningSince)
      BY <2>5 DEF Updated
    <3> DEFINE a == new.accumulated * Second
               b == old.accumulated * Second
    <3>3. a \in Nat /\ (a <= b \/ (old.status = "active"
                                     /\ a <= b + (r.now - old.observedRunningSince)))
      BY <2>7, <3>2
    <3> HIDE DEF old, a, b
    <3> QED
      BY SMT, <2>1, <3>1, <3>3 DEF a, b
  <2>9. new.status = "active" => new.observedRunningSince = r.now
    BY <2>5 DEF Updated
  <2> QED
    BY <1>3, <1>5, <2>4, <2>5, <2>8, <2>9 DEF r, id
<1> QED
  BY <1>2, <1>4, <1>5, QuietOrCommit

\* Seconds charged to a session never exceed the forward movement of the
\* wall clock since its Start was captured, for any clock behaviour and any
\* interleaving of any number of requests.
THEOREM ChargesAreBounded == Spec => []CreditedTimeIsReal
<1>1. Init => ClockInv
  <2> SUFFICES ASSUME Init PROVE ClockInv
    OBVIOUS
  <2>1. LeaseInv
    BY LeaseInit
  <2>2. ReadingsAreOld
    BY DEF Init, ReadingsAreOld
  <2>3. \A s \in SessionIds : Charge(s) = 0
    <3>1. \A s \in SessionIds : sessions[s].accumulated = 0 /\ startForward[s] = 0
      BY DEF Init, NoSession
    <3> QED
      BY SMT, <3>1, SessionAssumption DEF Charge
  <2>4. ChargesAreReal
    <3>1. \A s \in SessionIds : sessions[s].status = "none"
      BY DEF Init, NoSession
    <3>2. forward = 0 /\ \A c \in Clients : request[c] = None
      BY DEF Init
    <3> QED
      BY SMT, <2>3, <3>1, <3>2 DEF ChargesAreReal, ChargedSoFar
  <2> QED
    BY <2>1, <2>2, <2>4 DEF ClockInv
<1>2. ClockInv => CreditedTimeIsReal
  <2> SUFFICES ASSUME ClockInv, NEW s \in SessionIds
               PROVE  sessions[s].accumulated * Second <= forward - startForward[s]
    BY DEF CreditedTimeIsReal
  <2>1. forward \in Nat /\ LeaseInv /\ Charge(s) <= forward
    BY DEF ClockInv, LeaseInv, TypeOK, ChargesAreReal, ChargedSoFar
  <2> QED
    BY SMT, <2>1, ChargeFields DEF Charge
<1> QED
  BY <1>1, <1>2, ClockStep, PTL DEF Spec

==============================================================================

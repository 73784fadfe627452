------------------------- MODULE InvalidationStream -------------------------
(***************************************************************************)
(* The server-sent invalidation streams of executions, items, habits and   *)
(* schedules (execution/, items/, habits/ and scheduling/invalidation.rs): *)
(* a process-local hub wakes the streams of its process, a periodic probe  *)
(* finds what other processes committed, and a client that lost its        *)
(* connection opens another one from its cursor.                           *)
(*                                                                         *)
(* Two designs.  Executions and schedules keep a high water mark in a      *)
(* watch channel and send its value.  Items and habits only poke a         *)
(* generation and read the durable head before they send.                  *)
(*                                                                         *)
(* A read of the durable head is two steps, the statement and the arrival  *)
(* of its answer.  The order of signals on one connection is kept, so the  *)
(* latest is all the wire needs to hold.  Heartbeats change nothing except *)
(* where a schedule stream's heartbeat cuts a slow probe short.            *)
(***************************************************************************)
EXTENDS Naturals, FiniteSets

CONSTANTS
    Clients,
    Processes,
    HighWater,       \* the high water design, or the poke design
    ProbeYields,     \* a heartbeat ends a probe (schedules)
    MaxConnections,  \* permits of one hub
    MaxHead,         \* bound: commits
    MaxFaults        \* bound: lost connections, failed reads and crashes

ASSUME StreamAssumption ==
    /\ HighWater \in BOOLEAN
    /\ ProbeYields \in BOOLEAN
    /\ ProbeYields => HighWater   \* schedules have a high water hub
    /\ MaxConnections \in Nat \ {0}
    /\ MaxHead \in Nat
    /\ MaxFaults \in Nat

VARIABLES
    head,       \* the durable revision or change sequence
    owed,       \* per process: committed by it, hub not yet told
    told,       \* per process: the newest revision its hub was told of
    mark,       \* per process: the value in the watch channel
    phase,      \* per client: how far its stream is
    at,         \* the process that serves it
    unseen,     \* its receiver has a change it has not marked seen
    lastSent,   \* last_sent_revision
    fetched,    \* the head that a read returned
    wire,       \* signal under way to the client, 0 for none
    cursor,     \* what the client has been told of
    faults

serverVars == <<head, owed, told, mark>>
streamVars == <<phase, at, unseen, lastSent, fetched>>
vars == <<serverVars, streamVars, wire, cursor, faults>>

Phases ==
    {"none",
     "opening",   \* subscribed, the head to be read
     "opened",    \* the head has been read
     "pending",   \* a catch-up signal is due
     "waiting",   \* in the select
     "probing",   \* the head to be read again
     "probed"}    \* it has been read

TypeOK ==
    /\ head \in 0..MaxHead
    /\ owed \in [Processes -> SUBSET (1..MaxHead)]
    /\ told \in [Processes -> 0..MaxHead]
    /\ mark \in [Processes -> 0..MaxHead]
    /\ phase \in [Clients -> Phases]
    /\ at \in [Clients -> Processes]
    /\ unseen \in [Clients -> BOOLEAN]
    /\ lastSent \in [Clients -> 0..MaxHead]
    /\ fetched \in [Clients -> 0..MaxHead]
    /\ wire \in [Clients -> 0..MaxHead]
    /\ cursor \in [Clients -> 0..MaxHead]
    /\ faults \in 0..MaxFaults

Init ==
    /\ head = 0
    /\ owed = [p \in Processes |-> {}]
    /\ told = [p \in Processes |-> 0]
    /\ mark = [p \in Processes |-> 0]
    /\ phase = [c \in Clients |-> "none"]
    /\ at \in [Clients -> Processes]
    /\ unseen = [c \in Clients |-> FALSE]
    /\ lastSent = [c \in Clients |-> 0]
    /\ fetched = [c \in Clients |-> 0]
    /\ wire = [c \in Clients |-> 0]
    /\ cursor = [c \in Clients |-> 0]
    /\ faults = 0

(***************************************************************************)
(* Commands and the hub                                                    *)
(***************************************************************************)
\* A command's transaction commits; its service call has yet to return.
Commit(p) ==
    /\ head < MaxHead
    /\ head' = head + 1
    /\ owed' = [owed EXCEPT ![p] = @ \cup {head + 1}]
    /\ UNCHANGED <<told, mark, streamVars, wire, cursor, faults>>

Subscribers(p) == {c \in Clients : phase[c] # "none" /\ at[c] = p}

\* publish: the channel only takes a larger revision, and only then wakes.
Advances(p, n) == HighWater /\ n > mark[p]

Raise(p, n) == mark' = IF Advances(p, n) THEN [mark EXCEPT ![p] = n] ELSE mark

\* The receivers that publish or poke marks changed.
Roused(p, n) ==
    IF Advances(p, n) \/ ~HighWater THEN Subscribers(p) ELSE {}

\* publish or poke, the last thing a service call does.
Announce(p, n) ==
    /\ told' = [told EXCEPT ![p] = IF n > @ THEN n ELSE @]
    /\ Raise(p, n)
    /\ unseen' = [c \in Clients |-> unseen[c] \/ c \in Roused(p, n)]
    /\ UNCHANGED <<head, phase, at, lastSent, fetched, wire, cursor, faults>>

\* The announcement of a command; two commands of one process get there in
\* either order.
Tell(p, n) ==
    /\ n \in owed[p]
    /\ owed' = [owed EXCEPT ![p] = @ \ {n}]
    /\ Announce(p, n)

\* A retry, answered from the idempotency record by any process, however
\* late: its old revision is announced again.
Replay(p, n) ==
    /\ Announce(p, n)
    /\ UNCHANGED owed

\* A stream publishes the head it has read, for the other streams.
Share(c, n, seen) ==
    /\ Raise(at[c], n)
    /\ unseen' = [e \in Clients |->
                    (unseen[e] /\ ~(seen /\ e = c))
                        \/ (HighWater /\ e \in Roused(at[c], n))]

(***************************************************************************)
(* Opening a stream                                                        *)
(***************************************************************************)
\* The permit, then the subscription, before any read.
Subscribe(c, p) ==
    /\ phase[c] = "none"
    /\ wire[c] = 0
    /\ Cardinality(Subscribers(p)) < MaxConnections
    /\ phase' = [phase EXCEPT ![c] = "opening"]
    /\ at' = [at EXCEPT ![c] = p]
    /\ unseen' = [unseen EXCEPT ![c] = FALSE]
    /\ UNCHANGED <<serverVars, lastSent, fetched, wire, cursor, faults>>

Fetch(c) ==
    /\ phase[c] \in {"opening", "probing"}
    /\ phase' = [phase EXCEPT ![c] = IF @ = "opening" THEN "opened" ELSE "probed"]
    /\ fetched' = [fetched EXCEPT ![c] = head]
    /\ UNCHANGED <<serverVars, at, unseen, lastSent, wire, cursor, faults>>

\* Mutant: a stream starts from the head, not from the client's cursor.
OpenedAtHead(c) ==
    /\ phase[c] = "opened"
    /\ cursor[c] <= fetched[c]
    /\ lastSent' = [lastSent EXCEPT ![c] = fetched[c]]
    /\ phase' = [phase EXCEPT ![c] = "waiting"]
    /\ Share(c, fetched[c], FALSE)
    /\ UNCHANGED <<head, owed, told, at, fetched, wire, cursor, faults>>

\* The rest of open; a cursor ahead of the head would be refused here.
Opened(c) ==
    /\ phase[c] = "opened"
    /\ cursor[c] <= fetched[c]
    /\ lastSent' = [lastSent EXCEPT ![c] = cursor[c]]
    /\ phase' = [phase EXCEPT ![c] = IF cursor[c] < fetched[c] THEN "pending" ELSE "waiting"]
    /\ Share(c, fetched[c], FALSE)
    /\ UNCHANGED <<head, owed, told, at, fetched, wire, cursor, faults>>

(***************************************************************************)
(* The stream                                                              *)
(***************************************************************************)
\* Mutant: the signal names the revision to expect next.
OfferNext(c, n) ==
    IF n > lastSent[c]
    THEN /\ lastSent' = [lastSent EXCEPT ![c] = n + 1]
         /\ wire' = [wire EXCEPT ![c] = n + 1]
    ELSE UNCHANGED <<lastSent, wire>>

\* A newer revision is sent, and remembered as sent.
Offer(c, n) ==
    IF n > lastSent[c]
    THEN /\ lastSent' = [lastSent EXCEPT ![c] = n]
         /\ wire' = [wire EXCEPT ![c] = n]
    ELSE UNCHANGED <<lastSent, wire>>

\* The catch-up goes out before the select is entered.
CatchUp(c) ==
    /\ phase[c] = "pending"
    /\ Offer(c, fetched[c])
    /\ phase' = [phase EXCEPT ![c] = "waiting"]
    /\ UNCHANGED <<serverVars, at, unseen, fetched, cursor, faults>>

\* The channel has changed: send its value, or read the head.
Published(c) ==
    /\ phase[c] = "waiting"
    /\ unseen[c]
    /\ unseen' = [unseen EXCEPT ![c] = FALSE]
    /\ IF HighWater
       THEN Offer(c, mark[at[c]]) /\ UNCHANGED phase
       ELSE phase' = [phase EXCEPT ![c] = "probing"] /\ UNCHANGED <<lastSent, wire>>
    /\ UNCHANGED <<serverVars, at, fetched, cursor, faults>>

\* Mutant: no probe; other processes' commits wait for a reconnection.
NoProbe(c) == FALSE /\ UNCHANGED vars

\* The probe interval has passed.
Probe(c) ==
    /\ phase[c] = "waiting"
    /\ phase' = [phase EXCEPT ![c] = "probing"]
    /\ UNCHANGED <<serverVars, at, unseen, lastSent, fetched, wire, cursor, faults>>

\* Mutant: the change is marked seen when the head has been read.
ProbedMarkingSeen(c) ==
    /\ phase[c] = "probed"
    /\ Offer(c, fetched[c])
    /\ phase' = [phase EXCEPT ![c] = "waiting"]
    /\ Share(c, fetched[c], TRUE)
    /\ UNCHANGED <<head, owed, told, at, fetched, cursor, faults>>

Probed(c) ==
    /\ phase[c] = "probed"
    /\ Offer(c, fetched[c])
    /\ phase' = [phase EXCEPT ![c] = "waiting"]
    /\ Share(c, fetched[c], FALSE)
    /\ UNCHANGED <<head, owed, told, at, fetched, cursor, faults>>

\* A schedule stream's heartbeat abandons the probe.
Yield(c) ==
    /\ ProbeYields
    /\ phase[c] \in {"probing", "probed"}
    /\ phase' = [phase EXCEPT ![c] = "waiting"]
    /\ UNCHANGED <<serverVars, at, unseen, lastSent, fetched, wire, cursor, faults>>

\* The lifetime is over; what was sent still arrives.
Expire(c) ==
    /\ phase[c] \in {"waiting", "probing", "probed"}
    /\ phase' = [phase EXCEPT ![c] = "none"]
    /\ UNCHANGED <<serverVars, at, unseen, lastSent, fetched, wire, cursor, faults>>

Receive(c) ==
    /\ wire[c] # 0
    /\ cursor' = [cursor EXCEPT ![c] = wire[c]]
    /\ wire' = [wire EXCEPT ![c] = 0]
    /\ UNCHANGED <<serverVars, streamVars, faults>>

(***************************************************************************)
(* Faults                                                                  *)
(***************************************************************************)
Fault == faults < MaxFaults /\ faults' = faults + 1

\* The connection breaks, with what is on it.
Disconnect(c) ==
    /\ Fault
    /\ phase[c] # "none"
    /\ phase' = [phase EXCEPT ![c] = "none"]
    /\ wire' = [wire EXCEPT ![c] = 0]
    /\ UNCHANGED <<serverVars, at, unseen, lastSent, fetched, cursor>>

\* A read fails, which ends the stream.
ReadFails(c) ==
    /\ Fault
    /\ phase[c] \in {"opening", "probing"}
    /\ phase' = [phase EXCEPT ![c] = "none"]
    /\ UNCHANGED <<serverVars, at, unseen, lastSent, fetched, wire, cursor>>

\* A process restarts: committed commands are never announced, its streams
\* are gone and its hub starts from zero.
Crash(p) ==
    /\ Fault
    /\ owed' = [owed EXCEPT ![p] = {}]
    /\ told' = [told EXCEPT ![p] = 0]
    /\ mark' = [mark EXCEPT ![p] = 0]
    /\ phase' = [c \in Clients |-> IF at[c] = p THEN "none" ELSE phase[c]]
    /\ wire' = [c \in Clients |-> IF at[c] = p THEN 0 ELSE wire[c]]
    /\ UNCHANGED <<head, at, unseen, lastSent, fetched, cursor>>

ProcessStep(p) ==
    \/ Commit(p)
    \/ \E n \in owed[p] : Tell(p, n)
    \/ \E n \in 1..head : Replay(p, n)
    \/ Crash(p)

ClientStep(c) ==
    \/ \E p \in Processes : Subscribe(c, p)
    \/ Fetch(c) \/ Opened(c) \/ CatchUp(c) \/ Published(c) \/ Probe(c)
    \/ Probed(c) \/ Yield(c) \/ Expire(c) \/ Receive(c)
    \/ Disconnect(c) \/ ReadFails(c)

Next ==
    \/ \E p \in Processes : ProcessStep(p)
    \/ \E c \in Clients : ClientStep(c)

Spec == Init /\ [][Next]_vars

\* A client reopens its stream, a stream is polled, reads are answered and
\* the probe interval passes.  Nothing is assumed of a stream's lifetime; a
\* heartbeat does not cut every probe short.
Fairness ==
    \A c \in Clients :
        /\ WF_vars(\E p \in Processes : Subscribe(c, p))
        /\ SF_vars(Fetch(c))
        /\ SF_vars(Probed(c))
        /\ WF_vars(Opened(c)) /\ WF_vars(CatchUp(c))
        /\ WF_vars(Published(c) \/ Probe(c))
        /\ WF_vars(Receive(c))

FairSpec == Spec /\ Fairness

(***************************************************************************)
(* Properties                                                              *)
(***************************************************************************)
\* A stream in its select that has not sent something its own process has
\* announced has a change pending: no local wakeup waits for the probe,
\* however the subscription, the reads and other announcements interleave.
NoWakeupLost ==
    \A c \in Clients :
        phase[c] = "waiting" /\ told[at[c]] > lastSent[c] => unseen[c]

\* No client is ever refused because its cursor is ahead of the head: what a
\* client was told of is covered by every later read, after any crash too.
CursorNeverAhead ==
    \A c \in Clients : phase[c] = "opened" => cursor[c] <= fetched[c]

\* Every client hears of every commit, whichever process made it and however
\* many signals were lost, once faults have stopped.
ClientsConverge ==
    \A c \in Clients : \A n \in 1..MaxHead : head >= n ~> cursor[c] >= n
=============================================================================

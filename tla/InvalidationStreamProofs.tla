---------------------- MODULE InvalidationStreamProofs ----------------------
(***************************************************************************)
(* Safety of the invalidation streams, for any number of clients and       *)
(* processes and for both designs of the hub.                              *)
(***************************************************************************)
EXTENDS InvalidationStream, TLAPS

\* Nothing the streams hold is ahead of the durable head.
HeadInv ==
    /\ \A p \in Processes : told[p] <= head /\ mark[p] <= head /\ owed[p] \subseteq 1..head
    /\ \A c \in Clients : /\ lastSent[c] <= head /\ fetched[c] <= head
                          /\ wire[c] <= head /\ cursor[c] <= head

\* A stream is opened on an empty wire, so the cursor it was opened with
\* still stands when the head arrives.
OpenInv ==
    \A c \in Clients :
        /\ phase[c] \in {"opening", "opened"} => wire[c] = 0
        /\ phase[c] = "opened" => cursor[c] <= fetched[c]

\* What the channel stands for, in either design.
Level(p) == IF HighWater THEN mark[p] ELSE told[p]

\* A stream that has read or sent less than its channel stands for has a
\* change pending, from the moment the head is read while opening.
WakeInv ==
    /\ HighWater => \A p \in Processes : told[p] <= mark[p]
    /\ \A c \in Clients :
          /\ phase[c] \in {"opened", "pending"} /\ Level(at[c]) > fetched[c] => unseen[c]
          /\ phase[c] = "waiting" /\ Level(at[c]) > lastSent[c] => unseen[c]
          /\ phase[c] \in {"probing", "probed"} /\ HighWater /\ Level(at[c]) > lastSent[c]
                => unseen[c]
          /\ phase[c] = "probed" /\ ~HighWater /\ Level(at[c]) > fetched[c] => unseen[c]

IInv == TypeOK /\ HeadInv /\ OpenInv /\ WakeInv

\* The initial state satisfies the inductive invariant.
LEMMA InitIInv == Init => IInv
BY StreamAssumption
   DEF Init, IInv, TypeOK, HeadInv, OpenInv, WakeInv, Level, Phases

\* Types and bounds: every number a step writes is the head, at most the
\* head, or comes from a place where that held.
LEMMA BoundStep == IInv /\ [Next]_vars => (TypeOK /\ HeadInv)'
<1> SUFFICES ASSUME IInv, [Next]_vars PROVE (TypeOK /\ HeadInv)'
  OBVIOUS
<1> USE StreamAssumption DEF IInv, TypeOK, HeadInv, Phases
<1>1. ASSUME NEW p \in Processes, Commit(p) PROVE (TypeOK /\ HeadInv)'
  BY <1>1 DEF Commit, streamVars
<1>2. ASSUME NEW p \in Processes, NEW n \in 1..head, Announce(p, n),
             owed' \in {owed, [owed EXCEPT ![p] = @ \ {n}]}
      PROVE  (TypeOK /\ HeadInv)'
  <2>1. n \in 1..head /\ head \in Nat
    BY <1>2
  <2>2. unseen' \in [Clients -> BOOLEAN]
    BY <1>2, Zenon DEF Announce
  <2>3. /\ told' \in [Processes -> 0..MaxHead] /\ mark' \in [Processes -> 0..MaxHead]
        /\ \A q \in Processes : told'[q] <= head /\ mark'[q] <= head
    BY <1>2, <2>1 DEF Announce, Raise
  <2>4. owed' \in [Processes -> SUBSET (1..MaxHead)] /\ \A q \in Processes : owed'[q] \subseteq 1..head
    <3>1. CASE owed' = owed
      BY <3>1
    <3>2. CASE owed' = [owed EXCEPT ![p] = @ \ {n}]
      BY <3>2
    <3> QED
      BY <1>2, <3>1, <3>2
  <2> QED
    BY <1>2, <2>2, <2>3, <2>4 DEF Announce
<1>3. ASSUME NEW p \in Processes, Crash(p) PROVE (TypeOK /\ HeadInv)'
  BY <1>3 DEF Crash, Fault
<1>4. ASSUME NEW c \in Clients, NEW p \in Processes, Subscribe(c, p)
      PROVE  (TypeOK /\ HeadInv)'
  BY <1>4 DEF Subscribe, serverVars
<1>5. ASSUME NEW c \in Clients, Fetch(c) PROVE (TypeOK /\ HeadInv)'
  BY <1>5 DEF Fetch, serverVars
<1>6. ASSUME NEW c \in Clients, Opened(c) \/ Probed(c) PROVE (TypeOK /\ HeadInv)'
  <2>1. Share(c, fetched[c], FALSE)
    BY <1>6, Zenon DEF Opened, Probed
  <2>2. unseen' \in [Clients -> BOOLEAN]
    BY <2>1, Zenon DEF Share
  <2>3. mark' \in [Processes -> 0..MaxHead] /\ \A q \in Processes : mark'[q] <= head
    BY <2>1 DEF Share, Raise
  <2>4. CASE Opened(c)
    BY <2>2, <2>3, <2>4, Zenon DEF Opened, Offer
  <2>5. CASE Probed(c)
    BY <2>2, <2>3, <2>5, Zenon DEF Probed, Offer
  <2> QED
    BY <1>6, <2>4, <2>5
<1>7. ASSUME NEW c \in Clients, CatchUp(c) \/ Published(c) PROVE (TypeOK /\ HeadInv)'
  <2>1. CASE CatchUp(c)
    BY <2>1 DEF CatchUp, Offer, serverVars
  <2>2. CASE Published(c) /\ HighWater
    BY <2>2 DEF Published, Offer, serverVars
  <2>3. CASE Published(c) /\ ~HighWater
    BY <2>3 DEF Published, serverVars
  <2> QED
    BY <1>7, <2>1, <2>2, <2>3
<1>8. ASSUME NEW c \in Clients, Probe(c) \/ Yield(c) \/ Expire(c) \/ Receive(c)
      PROVE  (TypeOK /\ HeadInv)'
  <2>1. CASE Receive(c)
    BY <2>1 DEF Receive, serverVars, streamVars
  <2>2. CASE Probe(c) \/ Yield(c) \/ Expire(c)
    BY <2>2 DEF Probe, Yield, Expire, serverVars
  <2> QED
    BY <1>8, <2>1, <2>2
<1>9. ASSUME NEW c \in Clients, Disconnect(c) \/ ReadFails(c) PROVE (TypeOK /\ HeadInv)'
  BY <1>9 DEF Disconnect, ReadFails, Fault, serverVars
<1>10. CASE UNCHANGED vars
  BY <1>10 DEF vars, serverVars, streamVars
<1> QED
  BY <1>1, <1>2, <1>3, <1>4, <1>5, <1>6, <1>7, <1>8, <1>9, <1>10, Zenon
     DEF Next, ProcessStep, Tell, Replay, ClientStep

\* The cursor a stream was opened with is covered by the head it reads.
LEMMA OpenStep == IInv /\ [Next]_vars => OpenInv'
<1> SUFFICES ASSUME IInv, [Next]_vars PROVE OpenInv'
  OBVIOUS
<1> USE StreamAssumption DEF IInv, TypeOK, OpenInv
<1>1. ASSUME NEW p \in Processes, Commit(p) PROVE OpenInv'
  BY <1>1 DEF Commit, streamVars
<1>2. ASSUME NEW p \in Processes, NEW n \in 1..head, Announce(p, n) PROVE OpenInv'
  BY <1>2 DEF Announce
<1>3. ASSUME NEW p \in Processes, Crash(p) PROVE OpenInv'
  BY <1>3 DEF Crash
<1>4. ASSUME NEW c \in Clients, NEW p \in Processes, Subscribe(c, p) PROVE OpenInv'
  BY <1>4 DEF Subscribe
<1>5. ASSUME NEW c \in Clients, Fetch(c) PROVE OpenInv'
  BY <1>5 DEF Fetch, HeadInv
<1>6. ASSUME NEW c \in Clients, Opened(c) PROVE OpenInv'
  BY <1>6 DEF Opened
<1>7. ASSUME NEW c \in Clients, Probed(c) \/ CatchUp(c) PROVE OpenInv'
  BY <1>7, Zenon DEF Probed, CatchUp, Offer
<1>8. ASSUME NEW c \in Clients, Published(c) PROVE OpenInv'
  BY <1>8 DEF Published, Offer
<1>9. ASSUME NEW c \in Clients, Probe(c) \/ Yield(c) \/ Expire(c) PROVE OpenInv'
  BY <1>9 DEF Probe, Yield, Expire
<1>10. ASSUME NEW c \in Clients, Receive(c) PROVE OpenInv'
  BY <1>10 DEF Receive, streamVars
<1>11. ASSUME NEW c \in Clients, Disconnect(c) \/ ReadFails(c) PROVE OpenInv'
  BY <1>11 DEF Disconnect, ReadFails
<1>12. CASE UNCHANGED vars
  BY <1>12 DEF vars, streamVars
<1>13. \A p \in Processes : owed[p] \subseteq 1..head
  BY DEF HeadInv
<1> QED
  BY <1>1, <1>2, <1>3, <1>4, <1>5, <1>6, <1>7, <1>8, <1>9, <1>10, <1>11, <1>12, <1>13
     DEF Next, ProcessStep, Tell, Replay, ClientStep

\* No step lets the channel run ahead of a stream without marking it changed.
LEMMA WakeStep == IInv /\ [Next]_vars => WakeInv'
<1> SUFFICES ASSUME IInv, [Next]_vars PROVE WakeInv'
  OBVIOUS
<1> USE StreamAssumption DEF IInv, TypeOK, Phases
<1>1. ASSUME NEW p \in Processes, Commit(p) PROVE WakeInv'
  BY <1>1 DEF Commit, streamVars, WakeInv, Level
<1>2. ASSUME NEW p \in Processes, NEW n \in 1..head, Announce(p, n) PROVE WakeInv'
  <2>1. n \in 1..MaxHead /\ n \in 0..MaxHead
    BY <1>2
  <2>2. Raise(p, n)
    BY <1>2 DEF Announce
  <2>3. HighWater => \A q \in Processes : told'[q] <= mark'[q]
    BY <1>2, <2>1, <2>2 DEF Announce, Raise, Advances, WakeInv
  <2>4. ASSUME NEW c \in Clients, phase[c] # "none", Level(at[c])' > Level(at[c])
        PROVE  unseen'[c]
    <3>1. at' = at /\ (c \in Roused(p, n) => unseen'[c])
      BY <1>2, Zenon DEF Announce
    <3>2. CASE HighWater
      BY <2>1, <2>2, <2>4, <3>1, <3>2 DEF Raise, Advances, Roused, Subscribers, Level
    <3>3. CASE ~HighWater
      <4>1. at[c] = p
        BY <1>2, <2>1, <2>4, <3>1, <3>3 DEF Announce, Level
      <4> QED
        BY <2>4, <3>1, <3>3, <4>1 DEF Roused, Subscribers
    <3> QED
      BY <3>2, <3>3
  <2>5. ASSUME NEW c \in Clients, unseen[c] PROVE unseen'[c]
    BY <1>2, <2>5 DEF Announce
  <2>6. \A c \in Clients : Level(at[c]) \in Nat /\ Level(at[c])' \in Nat
    <3>1. told' \in [Processes -> Nat] /\ mark' \in [Processes -> Nat] /\ at' = at
      BY <1>2, <2>1 DEF Announce, Raise
    <3> QED
      BY <3>1 DEF Level
  <2>7. phase' = phase /\ fetched' = fetched /\ lastSent' = lastSent /\ at' = at
    BY <1>2 DEF Announce
  <2>8. ASSUME NEW c \in Clients
        PROVE  /\ phase[c] \in {"opened", "pending"} /\ Level(at[c])' > fetched[c] => unseen'[c]
               /\ phase[c] = "waiting" /\ Level(at[c])' > lastSent[c] => unseen'[c]
               /\ phase[c] \in {"probing", "probed"} /\ HighWater
                     /\ Level(at[c])' > lastSent[c] => unseen'[c]
               /\ phase[c] = "probed" /\ ~HighWater /\ Level(at[c])' > fetched[c] => unseen'[c]
    BY <2>4, <2>5, <2>6 DEF WakeInv
  <2> QED
    BY <2>3, <2>7, <2>8 DEF WakeInv
<1>3. ASSUME NEW p \in Processes, Crash(p) PROVE WakeInv'
  <2>1. HighWater => \A q \in Processes : told'[q] <= mark'[q]
    BY <1>3 DEF Crash, WakeInv
  <2>2. \A c \in Clients : phase'[c] # "none" => phase'[c] = phase[c] /\ at[c] # p
    BY <1>3 DEF Crash
  <2>3. \A c \in Clients : at[c] # p => Level(at[c])' = Level(at[c])
    BY <1>3 DEF Crash, Level
  <2>4. fetched' = fetched /\ lastSent' = lastSent /\ unseen' = unseen /\ at' = at
    BY <1>3 DEF Crash
  <2> QED
    BY <2>1, <2>2, <2>3, <2>4 DEF WakeInv
<1>4. ASSUME NEW c \in Clients, NEW p \in Processes, Subscribe(c, p) PROVE WakeInv'
  BY <1>4 DEF Subscribe, serverVars, WakeInv, Level
<1>5. ASSUME NEW c \in Clients, Fetch(c) PROVE WakeInv'
  BY <1>5 DEF Fetch, serverVars, WakeInv, Level, HeadInv
<1>6. ASSUME NEW c \in Clients, Opened(c) \/ Probed(c) PROVE WakeInv'
  <2>1. Share(c, fetched[c], FALSE) /\ Raise(at[c], fetched[c])
    BY <1>6 DEF Opened, Probed, Share
  <2>2. /\ told' = told /\ at' = at /\ fetched' = fetched
        /\ \A e \in Clients \ {c} : phase'[e] = phase[e] /\ lastSent'[e] = lastSent[e]
    BY <1>6, Zenon DEF Opened, Probed, Offer
  <2>3. HighWater => \A q \in Processes : told'[q] <= mark'[q]
    BY <2>1, <2>2 DEF Raise, Advances, WakeInv
  <2>4. \A q \in Processes : mark'[q] \in Nat
    BY <2>1 DEF Raise
  <2>5. \A e \in Clients : Level(at[e]) \in Nat /\ Level(at[e])' \in Nat
    BY <2>2, <2>4 DEF Level
  <2>6. ASSUME NEW e \in Clients, unseen[e] PROVE unseen'[e]
    BY <2>1, <2>6 DEF Share
  <2>7. ASSUME NEW e \in Clients, phase[e] # "none", Level(at[e])' > Level(at[e])
        PROVE  unseen'[e]
    BY <2>1, <2>2, <2>7 DEF Share, Raise, Advances, Roused, Subscribers, Level
  <2>8. ASSUME NEW e \in Clients \ {c}
        PROVE  /\ phase[e] \in {"opened", "pending"} /\ Level(at[e])' > fetched[e] => unseen'[e]
               /\ phase[e] = "waiting" /\ Level(at[e])' > lastSent[e] => unseen'[e]
               /\ phase[e] \in {"probing", "probed"} /\ HighWater
                     /\ Level(at[e])' > lastSent[e] => unseen'[e]
               /\ phase[e] = "probed" /\ ~HighWater /\ Level(at[e])' > fetched[e] => unseen'[e]
    BY <2>5, <2>6, <2>7 DEF WakeInv
  <2>9. ASSUME phase[c] # "none", Level(at[c])' > fetched[c],
               HighWater => Level(at[c])' > lastSent[c],
               phase[c] \in {"opened", "probed"}
        PROVE  unseen'[c]
    <3>1. CASE Level(at[c])' > Level(at[c])
      BY <2>7, <2>9, <3>1
    <3>2. CASE ~(Level(at[c])' > Level(at[c]))
      BY <2>5, <2>6, <2>9, <3>2 DEF WakeInv
    <3> QED
      BY <3>1, <3>2
  <2>10. CASE Opened(c)
    <3>1. phase[c] = "opened" /\ lastSent'[c] = cursor[c] /\ cursor[c] <= fetched[c]
      BY <2>10 DEF Opened
    <3>2. phase'[c] = IF cursor[c] < fetched[c] THEN "pending" ELSE "waiting"
      BY <2>10 DEF Opened
    <3>3. Level(at[c])' > fetched[c] => unseen'[c]
      <4> HAVE Level(at[c])' > fetched[c]
      <4>1. CASE Level(at[c])' > Level(at[c])
        BY <2>7, <3>1, <4>1
      <4>2. CASE ~(Level(at[c])' > Level(at[c]))
        BY <2>5, <2>6, <3>1, <4>2 DEF WakeInv
      <4> QED
        BY <4>1, <4>2
    <3>4. phase'[c] = "waiting" => lastSent'[c] = fetched[c]
      BY <3>1, <3>2
    <3>5. phase'[c] \in {"pending", "waiting"}
      BY <3>2
    <3> QED
      BY <2>2, <2>3, <2>8, <3>3, <3>4, <3>5 DEF WakeInv
  <2>11. CASE Probed(c)
    <3>1. phase[c] = "probed" /\ phase'[c] = "waiting"
      BY <2>11 DEF Probed
    <3>2. lastSent'[c] >= lastSent[c] /\ lastSent'[c] >= fetched[c] /\ lastSent'[c] \in Nat
      BY <2>11 DEF Probed, Offer
    <3>3. Level(at[c])' > lastSent'[c] => unseen'[c]
      BY <2>5, <2>9, <3>1, <3>2
    <3> QED
      BY <2>2, <2>3, <2>8, <3>1, <3>3 DEF WakeInv
  <2> QED
    BY <1>6, <2>10, <2>11
<1>7. ASSUME NEW c \in Clients, CatchUp(c) PROVE WakeInv'
  <2>1. lastSent'[c] >= fetched[c] /\ lastSent'[c] \in Nat
    BY <1>7 DEF CatchUp, Offer
  <2>2. \A e \in Clients : Level(at[e])' = Level(at[e]) /\ Level(at[e]) \in Nat
    BY <1>7 DEF CatchUp, serverVars, Level
  <2>3. Level(at[c]) > lastSent'[c] => unseen[c]
    BY <1>7, <2>1, <2>2 DEF CatchUp, WakeInv
  <2> QED
    BY <1>7, <2>2, <2>3 DEF CatchUp, Offer, serverVars, WakeInv
<1>8. ASSUME NEW c \in Clients, Published(c) PROVE WakeInv'
  <2>1. \A e \in Clients : Level(at[e])' = Level(at[e]) /\ Level(at[e]) \in Nat
    BY <1>8 DEF Published, serverVars, Level
  <2>2. HighWater => lastSent'[c] >= Level(at[c]) /\ phase'[c] = "waiting"
    BY <1>8 DEF Published, Offer, Level
  <2>3. ~HighWater => phase'[c] = "probing"
    BY <1>8 DEF Published
  <2>4. /\ told' = told /\ mark' = mark /\ at' = at /\ fetched' = fetched
        /\ \A e \in Clients \ {c} : /\ phase'[e] = phase[e] /\ lastSent'[e] = lastSent[e]
                                    /\ unseen'[e] = unseen[e]
        /\ lastSent'[c] \in Nat
    BY <1>8 DEF Published, Offer, serverVars
  <2> QED
    BY <2>1, <2>2, <2>3, <2>4 DEF WakeInv
<1>9. ASSUME NEW c \in Clients, Probe(c) \/ Yield(c) \/ Expire(c) PROVE WakeInv'
  BY <1>9 DEF Probe, Yield, Expire, serverVars, WakeInv, Level
<1>10. ASSUME NEW c \in Clients, Receive(c) PROVE WakeInv'
  BY <1>10 DEF Receive, serverVars, streamVars, WakeInv, Level
<1>11. ASSUME NEW c \in Clients, Disconnect(c) \/ ReadFails(c) PROVE WakeInv'
  BY <1>11 DEF Disconnect, ReadFails, serverVars, WakeInv, Level
<1>12. CASE UNCHANGED vars
  BY <1>12 DEF vars, serverVars, streamVars, WakeInv, Level
<1>13. \A p \in Processes : owed[p] \subseteq 1..head
  BY DEF HeadInv
<1> QED
  BY <1>1, <1>2, <1>3, <1>4, <1>5, <1>6, <1>7, <1>8, <1>9, <1>10, <1>11, <1>12, <1>13
     DEF Next, ProcessStep, Tell, Replay, ClientStep

\* The conjuncts together are inductive.
THEOREM Inductive == Spec => []IInv
<1>1. IInv /\ [Next]_vars => IInv'
  BY BoundStep, OpenStep, WakeStep DEF IInv
<1> QED
  BY InitIInv, <1>1, PTL DEF Spec

\* Every variable of the hubs and streams keeps its type.
THEOREM StreamsTyped == Spec => []TypeOK
<1>1. IInv => TypeOK
  BY DEF IInv
<1> QED
  BY Inductive, <1>1, PTL

\* Subscribing before the read, and marking a change seen before acting on
\* it, lose no local announcement.
THEOREM WakeupsAreKept == Spec => []NoWakeupLost
<1>1. IInv => NoWakeupLost
  BY StreamAssumption DEF IInv, TypeOK, WakeInv, Level, NoWakeupLost
<1> QED
  BY Inductive, <1>1, PTL

\* No stream is refused for a cursor ahead of the durable head.
THEOREM CursorsAreCovered == Spec => []CursorNeverAhead
<1>1. IInv => CursorNeverAhead
  BY DEF IInv, OpenInv, CursorNeverAhead
<1> QED
  BY Inductive, <1>1, PTL
=============================================================================

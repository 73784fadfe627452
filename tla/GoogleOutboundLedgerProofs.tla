--------------------- MODULE GoogleOutboundLedgerProofs ---------------------
(***************************************************************************)
(* The inductive invariant of GoogleOutbound, and that the steps which     *)
(* leave Google alone keep it and the promise of ProviderWrite: the user,  *)
(* the account, the run, the feed and the outcomes of deliveries.  For any *)
(* number of items, workers, revisions, claims, edits and configurations.  *)
(***************************************************************************)
EXTENDS GoogleOutbound, TLAPS

(* Zenon does the leaves; SMT is named where one needs arithmetic. *)
USE Zenon

(***************************************************************************)
(* Types                                                                   *)
(***************************************************************************)
States == Open \cup Closed \cup {"none", "published"}

Row == [state : States, op : {"upsert", "delete"}, coll : 0..MaxConfigs,
        remote : Nat, etag : Nat, claim : 0..MaxClaims,
        permit : BOOLEAN, posted : BOOLEAN, unresolved : BOOLEAN]

Review == [rev : Revisions, op : {"upsert", "delete"}, coll : 0..MaxConfigs,
           remote : Nat, etag : Nat, approved : BOOLEAN]

Version == [etag : Nat \ {0}, content : 0..MaxRevision, live : BOOLEAN, edits : Nat]

Pcs == {"down", "idle", "inbound", "page", "outbound", "lookup", "ready",
        "found", "permit", "sent", "answer", "done", "failing"}

Answers == {"none", "ok", "unresolved", "transient", "garbled"} \cup Explicit

Process == [pc : Pcs, claim : 0..MaxClaims, key : Keys \cup {None}, posted : BOOLEAN,
            page : SUBSET (Items \X (1..2) \X Version), coll : 0..MaxConfigs, answer : Answers,
            remote : Nat, etag : Nat]

Mapping == [remote : Nat, etag : Nat, content : Nat, gone : BOOLEAN]

Runs == [state : {"idle", "running", "backoff", "failed", "reauthorization_required"},
         claim : 0..MaxClaims, gen : 0..MaxClaims, leased : BOOLEAN]

Types ==
    /\ item \in [Items -> [rev : Revisions, trashed : BOOLEAN]]
    /\ account \in {"active", "paused", "disconnecting"}
    /\ outbox \in [Keys -> Row]
    /\ run \in Runs
    /\ effects \in [Keys -> Nat]
    /\ kind \in [Items -> {"task", "event"}]
    /\ coll \in [rev : 1..MaxConfigs, writable : BOOLEAN]
    /\ preview \in [Items -> Review \cup {None}]
    /\ mapping \in [Items -> Mapping]
    /\ worker \in [Workers -> Process]
    /\ flight \subseteq [by : Workers, claim : 0..MaxClaims, key : Keys]
    /\ google \in [Items -> Seq(Version)]

\* The bounds are numbers, and there is a first revision and configuration.
LEMMA BoundsAre ==
    /\ MaxRevision \in Nat /\ MaxRevision > 0 /\ MaxConfigs \in Nat /\ MaxConfigs > 0
    /\ MaxClaims \in Nat /\ MaxEdits \in Nat /\ MaxStarts \in Nat /\ None \notin Items
BY OutboundAssumption

\* Types says all that TypeOK says.
LEMMA TypesAre == Types => TypeOK
BY DEF Types, TypeOK, Row, States, Runs, Process, Pcs

\* A key has an item and a revision.
LEMMA KeysAre ==
    ASSUME NEW k \in Keys
    PROVE  k[1] \in Items /\ k[2] \in Revisions /\ k = <<k[1], k[2]>>
BY SMT DEF Keys

\* Revisions are numbers from one on.
LEMMA RevisionsAre ==
    /\ Revisions \subseteq Nat \ {0}
    /\ Types => \A i \in Items : item[i].rev \in Revisions
<1>1. Revisions \subseteq Nat \ {0}
  BY SMT, BoundsAre DEF Revisions
<1>2. Types => \A i \in Items : item[i].rev \in Revisions
  BY DEF Types
<1> QED
  BY <1>1, <1>2

\* Zero is a claim, a configuration and a number.
LEMMA ZeroIs == 0 \in 0..MaxClaims /\ 0 \in 0..MaxConfigs /\ 0 \in Nat
BY SMT, BoundsAre

\* A process that waits for work is a process.
LEMMA RestingType == ASSUME NEW pc \in Pcs PROVE Resting(pc) \in Process
BY ZeroIs DEF Resting, Process, Answers

\* Initially everything is at rest (the tables of a new account).
LEMMA InitTypes == Init => Types
<1> SUFFICES ASSUME Init PROVE Types
  OBVIOUS
<1>1. Absent \in Row
  BY SMT, BoundsAre DEF Absent, Row, States, Open, Closed
<1>2. Resting("idle") \in Process
  BY RestingType DEF Pcs
<1>3. outbox \in [Keys -> Row] /\ worker \in [Workers -> Process]
  BY <1>1, <1>2 DEF Init
<1>4. item \in [Items -> [rev : Revisions, trashed : BOOLEAN]]
  BY SMT, BoundsAre DEF Init, Revisions
<1>5. run \in Runs
  BY SMT, BoundsAre DEF Init, Runs
<1>6. coll \in [rev : 1..MaxConfigs, writable : BOOLEAN]
  BY SMT, BoundsAre DEF Init
<1>7. mapping \in [Items -> Mapping]
  BY DEF Init, Unmapped, Mapping
<1>8. google \in [Items -> Seq(Version)] /\ preview \in [Items -> Review \cup {None}]
  BY SMT DEF Init
<1>9. effects \in [Keys -> Nat] /\ account \in {"active", "paused", "disconnecting"}
  BY DEF Init
<1>10. flight \subseteq [by : Workers, claim : 0..MaxClaims, key : Keys]
  BY DEF Init
<1> QED
  BY <1>3, <1>4, <1>5, <1>6, <1>7, <1>8, <1>9, <1>10 DEF Types, Init

(***************************************************************************)
(* Rows                                                                    *)
(***************************************************************************)
\* What a row was approved for does not change, nor does a closed row open.
SameIntent(r, s) ==
    /\ s \in Row
    /\ s.op = r.op /\ s.coll = r.coll /\ s.remote = r.remote /\ s.etag = r.etag
    /\ s.state = "none" <=> r.state = "none"
    /\ s.state \in Open => r.state \in Open
    /\ r.state = "published" => s.state = "published"

\* No row is put into delivery, and that a create may have been sent is kept.
Stay(k, r, s) ==
    /\ SameIntent(r, s)
    /\ s.state = "delivering" => r.state = "delivering" /\ s.claim = r.claim
    /\ Markerless(k) => s.posted = r.posted

\* Release ends a delivery and leaves the intent and the mark of a post.
LEMMA ReleaseIs ==
    ASSUME NEW r \in Row, NEW state \in States
    PROVE  /\ Release(r, state) \in Row
           /\ Release(r, state).state = state
           /\ Release(r, state).op = r.op /\ Release(r, state).coll = r.coll
           /\ Release(r, state).remote = r.remote /\ Release(r, state).etag = r.etag
           /\ Release(r, state).posted = r.posted
<1> DEFINE a == [r EXCEPT !.state = state]
           b == [a EXCEPT !.claim = 0]
           c == [b EXCEPT !.permit = FALSE]
           d == [c EXCEPT !.unresolved = FALSE]
<1>1. /\ a \in Row /\ a.state = state /\ a.op = r.op /\ a.coll = r.coll
      /\ a.remote = r.remote /\ a.etag = r.etag /\ a.posted = r.posted
  BY DEF Row
<1>2. Release(r, state) = d
  BY DEF Release
<1> HIDE DEF a
<1>3. /\ b \in Row /\ b.state = a.state /\ b.op = a.op /\ b.coll = a.coll
      /\ b.remote = a.remote /\ b.etag = a.etag /\ b.posted = a.posted
  BY <1>1, ZeroIs DEF Row
<1> HIDE DEF b
<1>4. /\ c \in Row /\ c.state = b.state /\ c.op = b.op /\ c.coll = b.coll
      /\ c.remote = b.remote /\ c.etag = b.etag /\ c.posted = b.posted
  BY <1>3 DEF Row
<1> HIDE DEF c
<1>5. /\ d \in Row /\ d.state = c.state /\ d.op = c.op /\ d.coll = c.coll
      /\ d.remote = c.remote /\ d.etag = c.etag /\ d.posted = c.posted
  BY <1>4 DEF Row
<1> HIDE DEF d
<1> QED
  BY <1>1, <1>2, <1>3, <1>4, <1>5

\* A row that is taken back keeps its intent and the mark of a post.
LEMMA ReleaseStays ==
    ASSUME NEW k, NEW r \in Row, NEW state \in States \ {"none", "delivering"},
           r.state \notin {"none", "published"}, state \in Open => r.state \in Open
    PROVE  /\ Stay(k, r, Release(r, state)) /\ Release(r, state).state = state
           /\ Stay(k, r, TakeBack(k, r, state))
           /\ TakeBack(k, r, state).state \in {state, "conflict"}
<1>1. Stay(k, r, Release(r, state)) /\ Release(r, state).state = state
  BY ReleaseIs DEF Stay, SameIntent, States, Open, Closed
<1>2. CASE Markerless(k) /\ r.posted
  <2> DEFINE c == Release(r, "conflict")
             t == [c EXCEPT !.unresolved = TRUE]
  <2>1. c \in Row /\ Stay(k, r, c) /\ c.state = "conflict"
    BY SMT, ReleaseIs DEF Stay, SameIntent, States, Open, Closed
  <2> HIDE DEF c
  <2>2. /\ t \in Row /\ t.state = c.state /\ t.op = c.op /\ t.coll = c.coll
        /\ t.remote = c.remote /\ t.etag = c.etag /\ t.posted = c.posted
    BY <2>1 DEF Row
  <2>3. TakeBack(k, r, state) = t
    BY <1>2 DEF TakeBack, c
  <2> HIDE DEF t
  <2> QED
    BY <1>1, <2>1, <2>2, <2>3 DEF Stay, SameIntent, Open
<1>3. CASE ~(Markerless(k) /\ r.posted)
  BY <1>1, <1>3 DEF TakeBack
<1> QED
  BY <1>2, <1>3

\* A row that is left alone stays.
LEMMA StaysSame == ASSUME NEW k, NEW r \in Row PROVE Stay(k, r, r)
BY DEF Stay, SameIntent

\* Repairs of a row add up (claim_outbound makes several).
LEMMA StaysFurther ==
    ASSUME NEW k, NEW r \in Row, NEW s, Stay(k, r, s), NEW t, Stay(k, s, t)
    PROVE  Stay(k, r, t)
BY DEF Stay, SameIntent

\* No row is opened or put into delivery.
RowsStay(rows) == rows \in [Keys -> Row] /\ \A k \in Keys : Stay(k, outbox[k], rows[k])

\* No row is published.
Silent(rows) == \A k \in Keys : rows[k].state = "published" => outbox[k].state = "published"

\* A row is left alone or loses its delivery.
Ended(k, r, s) ==
    \/ s = r
    \/ /\ r.state \notin {"none", "published"}
       /\ \E state \in Closed \cup {"backoff"} :
            /\ state = "backoff" => r.state \in Open
            /\ s = Release(r, state) \/ s = TakeBack(k, r, state)

\* A row that is released or taken back stays what it was approved for.
LEMMA EndedStays ==
    ASSUME NEW k, NEW r \in Row, NEW s, Ended(k, r, s)
    PROVE  s \in Row /\ Stay(k, r, s) /\ (s.state = "published" => r.state = "published")
<1>1. CASE s = r
  BY <1>1, StaysSame
<1>2. ASSUME NEW state \in Closed \cup {"backoff"}, r.state \notin {"none", "published"},
             state = "backoff" => r.state \in Open,
             s = Release(r, state) \/ s = TakeBack(k, r, state)
      PROVE  Stay(k, r, s) /\ s.state # "published"
  <2>1. /\ state \in States \ {"none", "delivering"} /\ state # "published"
        /\ state \in Open => r.state \in Open
    BY <1>2 DEF States, Open, Closed
  <2>2. /\ Stay(k, r, Release(r, state)) /\ Release(r, state).state = state
        /\ Stay(k, r, TakeBack(k, r, state)) /\ TakeBack(k, r, state).state \in {state, "conflict"}
    BY <1>2, <2>1, ReleaseStays
  <2> QED
    BY <1>2, <2>1, <2>2
<1>3. Stay(k, r, s) /\ (s.state = "published" => r.state = "published")
  BY <1>1, <1>2 DEF Ended
<1> QED
  BY <1>3 DEF Stay, SameIntent

\* A statement that only ends deliveries neither opens nor publishes a row.
LEMMA RowsEnded ==
    ASSUME outbox \in [Keys -> Row], NEW rows, rows = [k \in Keys |-> rows[k]],
           \A k \in Keys : Ended(k, outbox[k], rows[k])
    PROVE  RowsStay(rows) /\ Silent(rows)
<1>1. ASSUME NEW k \in Keys
      PROVE  /\ Stay(k, outbox[k], rows[k]) /\ rows[k] \in Row
             /\ rows[k].state = "published" => outbox[k].state = "published"
  <2>1. outbox[k] \in Row /\ Ended(k, outbox[k], rows[k])
    OBVIOUS
  <2>2. /\ Stay(k, outbox[k], rows[k])
        /\ rows[k].state = "published" => outbox[k].state = "published"
    BY <2>1, EndedStays
  <2>3. rows[k] \in Row
    BY <2>2 DEF Stay, SameIntent
  <2> QED
    BY <2>2, <2>3
<1>2. rows \in [Keys -> Row]
  BY <1>1
<1> QED
  BY <1>1, <1>2 DEF RowsStay, Silent

\* A step that does not write the outbox neither opens nor publishes a row.
LEMMA RowsSame == ASSUME outbox \in [Keys -> Row] PROVE RowsStay(outbox) /\ Silent(outbox)
<1>1. \A k \in Keys : Stay(k, outbox[k], outbox[k])
  BY StaysSame
<1> QED
  BY <1>1 DEF RowsStay, Silent

\* The statements that take deliveries back
\* (reconcile_outbound_for_parent_end, update_collection, set_paused, the
\* disconnect fence, a replaced authorization, recover_startup,
\* conflict_active_outbox and enqueue_outbound).
LEMMA TakenBack ==
    ASSUME outbox \in [Keys -> Row]
    PROVE  /\ \A g : RowsStay(EndChildren(g)) /\ Silent(EndChildren(g))
           /\ RowsStay(ConflictOpen) /\ Silent(ConflictOpen)
           /\ LET rows == [k \in Keys |-> IF outbox[k].state = "delivering"
                                          THEN Release(outbox[k], "backoff") ELSE outbox[k]]
              IN RowsStay(rows) /\ Silent(rows)
           /\ LET rows == [k \in Keys |-> IF outbox[k].state = "delivering"
                                          THEN TakeBack(k, outbox[k], "backoff") ELSE outbox[k]]
              IN RowsStay(rows) /\ Silent(rows)
           /\ \A i : RowsStay(ConflictActive(i, outbox)) /\ Silent(ConflictActive(i, outbox))
           /\ \A i, n : RowsStay(SupersedeOlder(i, n)) /\ Silent(SupersedeOlder(i, n))
<1>o. "delivering" \in Open /\ "backoff" \in Closed \cup {"backoff"}
      /\ \A state \in Open \cup {"conflict", "failed"} : state \notin {"none", "published"}
      /\ "conflict" \in Closed /\ "superseded" \in Closed /\ "backoff" \notin Closed
  BY DEF Open, Closed
<1>1. ASSUME NEW g PROVE RowsStay(EndChildren(g)) /\ Silent(EndChildren(g))
  <2> DEFINE rows == EndChildren(g)
  <2>1. rows = [k \in Keys |-> rows[k]]
    BY DEF EndChildren
  <2>2. ASSUME NEW k \in Keys PROVE Ended(k, outbox[k], rows[k])
    BY <1>o DEF EndChildren, Ended, RowHeld
  <2> HIDE DEF rows
  <2>3. RowsStay(rows) /\ Silent(rows)
    BY <2>1, <2>2, RowsEnded
  <2> QED
    BY <2>3 DEF rows
<1>2. RowsStay(ConflictOpen) /\ Silent(ConflictOpen)
  <2> DEFINE rows == ConflictOpen
  <2>1. rows = [k \in Keys |-> rows[k]]
    BY DEF ConflictOpen
  <2>2. ASSUME NEW k \in Keys PROVE Ended(k, outbox[k], rows[k])
    BY <1>o DEF ConflictOpen, Ended
  <2> HIDE DEF rows
  <2>3. RowsStay(rows) /\ Silent(rows)
    BY <2>1, <2>2, RowsEnded
  <2> QED
    BY <2>3 DEF rows
<1>3. ASSUME NEW rows, rows = [k \in Keys |-> IF outbox[k].state = "delivering"
                                              THEN Release(outbox[k], "backoff") ELSE outbox[k]]
      PROVE  RowsStay(rows) /\ Silent(rows)
  <2>1. rows = [k \in Keys |-> rows[k]]
    BY <1>3
  <2>2. ASSUME NEW k \in Keys PROVE Ended(k, outbox[k], rows[k])
    BY <1>o, <1>3 DEF Ended
  <2> QED
    BY <2>1, <2>2, RowsEnded
<1>4. ASSUME NEW rows, rows = [k \in Keys |-> IF outbox[k].state = "delivering"
                                              THEN TakeBack(k, outbox[k], "backoff") ELSE outbox[k]]
      PROVE  RowsStay(rows) /\ Silent(rows)
  <2>1. rows = [k \in Keys |-> rows[k]]
    BY <1>4
  <2>2. ASSUME NEW k \in Keys PROVE Ended(k, outbox[k], rows[k])
    BY <1>o, <1>4 DEF Ended
  <2> QED
    BY <2>1, <2>2, RowsEnded
<1>5. ASSUME NEW i PROVE RowsStay(ConflictActive(i, outbox)) /\ Silent(ConflictActive(i, outbox))
  <2> DEFINE rows == ConflictActive(i, outbox)
  <2>1. rows = [k \in Keys |-> rows[k]]
    BY DEF ConflictActive
  <2>2. ASSUME NEW k \in Keys PROVE Ended(k, outbox[k], rows[k])
    BY <1>o DEF ConflictActive, Ended
  <2> HIDE DEF rows
  <2>3. RowsStay(rows) /\ Silent(rows)
    BY <2>1, <2>2, RowsEnded
  <2> QED
    BY <2>3 DEF rows
<1>6. ASSUME NEW i, NEW n PROVE RowsStay(SupersedeOlder(i, n)) /\ Silent(SupersedeOlder(i, n))
  <2> DEFINE rows == SupersedeOlder(i, n)
  <2>1. rows = [k \in Keys |-> rows[k]]
    BY DEF SupersedeOlder
  <2>2. ASSUME NEW k \in Keys PROVE Ended(k, outbox[k], rows[k])
    BY <1>o DEF SupersedeOlder, Ended
  <2> HIDE DEF rows
  <2>3. RowsStay(rows) /\ Silent(rows)
    BY <2>1, <2>2, RowsEnded
  <2> QED
    BY <2>3 DEF rows
<1> QED
  BY <1>1, <1>2, <1>3, <1>4, <1>5, <1>6

\* The repairs of claim_outbound take deliveries back.
LEMMA RepairedStays ==
    ASSUME NEW k \in Keys, outbox[k] \in Row, NEW g, NEW old
    PROVE  /\ Stay(k, outbox[k], Repaired(k, g, old))
           /\ Repaired(k, g, old).state = "published" => outbox[k].state = "published"
<1> DEFINE r == outbox[k]
           r1 == IF r.state = "delivering" /\ r.claim # g THEN TakeBack(k, r, "backoff") ELSE r
           r2 == IF r1.state \in Open /\ ~Current(k) THEN TakeBack(k, r1, "superseded") ELSE r1
           r3 == IF r2.state = "delivering" /\ old THEN TakeBack(k, r2, "backoff") ELSE r2
           r4 == IF r3.state \in {"pending", "backoff"} /\ ~MappingFits(k)
                 THEN Release(r3, "conflict") ELSE r3
<1>o. /\ "delivering" \in Open /\ "backoff" \in Closed \cup {"backoff"}
      /\ \A state \in Open : state \notin {"none", "published"}
      /\ {"pending", "backoff"} \subseteq Open
      /\ {"conflict", "superseded"} \subseteq Closed /\ "backoff" \notin Closed
  BY DEF Open, Closed
<1>e. /\ Ended(k, r, r1) /\ Ended(k, r1, r2) /\ Ended(k, r2, r3) /\ Ended(k, r3, r4)
  <2>1. Ended(k, r, r1)
    BY <1>o DEF Ended
  <2> HIDE DEF r1
  <2>2. Ended(k, r1, r2)
    BY <1>o DEF Ended
  <2> HIDE DEF r2
  <2>3. Ended(k, r2, r3)
    BY <1>o DEF Ended
  <2> HIDE DEF r3
  <2>4. Ended(k, r3, r4)
    BY <1>o DEF Ended
  <2> QED
    BY <2>1, <2>2, <2>3, <2>4
<1>r. Repaired(k, g, old) = r4
  BY DEF Repaired
<1> HIDE DEF r, r1, r2, r3, r4
<1>1. r \in Row
  BY DEF r
<1>2. Stay(k, r, r1) /\ r1 \in Row /\ (r1.state = "published" => r.state = "published")
  BY <1>1, <1>e, EndedStays
<1>3. Stay(k, r1, r2) /\ r2 \in Row /\ (r2.state = "published" => r1.state = "published")
  BY <1>2, <1>e, EndedStays
<1>4. Stay(k, r2, r3) /\ r3 \in Row /\ (r3.state = "published" => r2.state = "published")
  BY <1>3, <1>e, EndedStays
<1>5. Stay(k, r3, r4) /\ (r4.state = "published" => r3.state = "published")
  BY <1>4, <1>e, EndedStays
<1>6. Stay(k, r, r4)
  <2>1. Stay(k, r, r2)
    BY <1>1, <1>2, <1>3, StaysFurther
  <2>2. Stay(k, r, r3)
    BY <1>1, <1>4, <2>1, StaysFurther
  <2> QED
    BY <1>1, <1>5, <2>2, StaysFurther
<1> QED
  BY <1>2, <1>3, <1>4, <1>5, <1>6, <1>r DEF r

\* One row is ended.
LEMMA RowEnded ==
    ASSUME outbox \in [Keys -> Row], NEW k \in Keys, NEW s, Stay(k, outbox[k], s)
    PROVE  LET rows == [outbox EXCEPT ![k] = s]
           IN RowsStay(rows) /\ rows[k] = s /\ \A j \in Keys \ {k} : rows[j] = outbox[j]
<1> DEFINE rows == [outbox EXCEPT ![k] = s]
<1>1. s \in Row
  BY DEF Stay, SameIntent
<1>2. rows \in [Keys -> Row] /\ rows[k] = s /\ \A j \in Keys \ {k} : rows[j] = outbox[j]
  BY <1>1
<1>3. ASSUME NEW j \in Keys PROVE Stay(j, outbox[j], rows[j])
  <2>1. CASE j = k
    BY <1>2, <2>1
  <2>2. CASE j # k
    <3>1. outbox[j] \in Row /\ rows[j] = outbox[j]
      BY <1>2, <2>2
    <3> QED
      BY <3>1, StaysSame
  <2> QED
    BY <2>1, <2>2
<1> QED
  BY <1>2, <1>3 DEF RowsStay

(***************************************************************************)
(* What the feed does                                                      *)
(***************************************************************************)
\* recover_dayweave_mapping ends the rows it picks, and publishes no other.
LEMMA ReleasedAll ==
    ASSUME outbox \in [Keys -> Row], NEW S, NEW state \in {"published", "conflict"},
           \A k \in S : outbox[k].state \notin {"none", "published"}
    PROVE  /\ RowsStay(ReleaseAll(S, state))
           /\ \A k \in Keys : ReleaseAll(S, state)[k].state = "published" =>
                  outbox[k].state = "published" \/ (k \in S /\ state = "published")
<1> DEFINE rows == ReleaseAll(S, state)
<1>1. ASSUME NEW k \in Keys
      PROVE  /\ Stay(k, outbox[k], rows[k]) /\ rows[k] \in Row
             /\ rows[k].state = "published" =>
                    outbox[k].state = "published" \/ (k \in S /\ state = "published")
  <2>1. outbox[k] \in Row
    OBVIOUS
  <2>2. rows[k] = IF k \in S THEN Release(outbox[k], state) ELSE outbox[k]
    BY DEF ReleaseAll
  <2> HIDE DEF rows
  <2>3. CASE k \notin S
    BY <2>1, <2>2, <2>3, StaysSame
  <2>4. CASE k \in S
    <3>1. /\ Stay(k, outbox[k], Release(outbox[k], state))
          /\ Release(outbox[k], state).state = state
      BY <2>1, <2>4, ReleaseStays DEF States, Open, Closed
    <3> QED
      BY <2>2, <2>4, <3>1 DEF Stay, SameIntent
  <2> QED
    BY <2>3, <2>4
<1>2. rows = [k \in Keys |-> rows[k]]
  BY DEF ReleaseAll
<1> HIDE DEF rows
<1>3. rows \in [Keys -> Row]
  BY <1>1, <1>2
<1>4. /\ RowsStay(rows)
      /\ \A k \in Keys : rows[k].state = "published" =>
             outbox[k].state = "published" \/ (k \in S /\ state = "published")
  BY <1>1, <1>3 DEF RowsStay
<1> QED
  BY <1>4 DEF rows

\* apply_remote_upsert and recover_dayweave_mapping: rows are ended, and the
\* one that is published is the create of what Google was seen to have.
LEMMA ApplyLiveIs ==
    ASSUME Types, NEW i \in Items, NEW n \in Nat, NEW o \in Version,
           NEW d, d = ApplyLive(i, n, o)
    PROVE  /\ RowsStay(d.outbox)
           /\ \A k \in Keys : d.outbox[k].state = "published" =>
                  outbox[k].state = "published" \/ k = <<i, o.content>>
           /\ d.mapping \in Mapping
           /\ \/ d.mapping = mapping[i]
              \/ d.mapping.remote = n /\ d.mapping.etag = o.etag /\ d.mapping.content = o.content
<1> DEFINE m == mapping[i]
           rows == Recoverable(i)
           exact == {k \in rows : o.content = k[2]}
           latest == {k \in rows : \A j \in rows : j[2] <= k[2]}
<1>t. /\ outbox \in [Keys -> Row] /\ m \in Mapping
      /\ o.etag \in Nat /\ o.content \in Nat
  <2>1. o.etag \in Nat /\ o.content \in Nat
    BY SMT, BoundsAre DEF Version
  <2> QED
    BY <2>1 DEF Types
<1>r. ASSUME NEW k \in rows
      PROVE  /\ k \in Keys /\ k[1] = i /\ k = <<i, k[2]>>
             /\ outbox[k].state \notin {"none", "published"}
  BY KeysAre DEF Recoverable, Open
<1>1. CASE m.remote = n
  <2>1. /\ d.outbox = ConflictActive(i, outbox) \/ d.outbox = outbox
        /\ d.mapping = Observed(m, o)
    BY <1>1 DEF ApplyLive
  <2>2. /\ Observed(m, o) \in Mapping
        /\ Observed(m, o).remote = n /\ Observed(m, o).etag = o.etag
        /\ Observed(m, o).content = o.content
    <3> HIDE DEF m
    <3> QED
      BY <1>t, <1>1 DEF Observed, Mapping
  <2>3. RowsStay(d.outbox) /\ Silent(d.outbox)
    BY <1>t, <2>1, TakenBack, RowsSame
  <2> QED
    BY <2>1, <2>2, <2>3 DEF Silent
<1>2. CASE m.remote # n /\ rows = {}
  <2>1. d.outbox = outbox /\ d.mapping = m
    BY <1>2 DEF ApplyLive
  <2> QED
    BY <1>t, <2>1, RowsSame DEF Silent
<1>3. CASE m.remote # n /\ rows # {} /\ exact # {} /\ m.remote = 0 /\ n \notin foreign[i]
  <2>1. /\ d.outbox = ReleaseAll(exact, "published")
        /\ d.mapping = [remote |-> n, etag |-> o.etag, content |-> o.content, gone |-> FALSE]
    BY <1>3 DEF ApplyLive
  <2>2. \A k \in exact : k = <<i, o.content>> /\ outbox[k].state \notin {"none", "published"}
    BY <1>r
  <2> HIDE DEF rows, exact, m
  <2>3. /\ RowsStay(d.outbox)
        /\ \A k \in Keys : d.outbox[k].state = "published" =>
               outbox[k].state = "published" \/ k \in exact
    BY <1>t, <2>1, <2>2, ReleasedAll
  <2>4. /\ d.mapping \in Mapping
        /\ d.mapping.remote = n /\ d.mapping.etag = o.etag /\ d.mapping.content = o.content
    BY SMT, <1>t, <2>1 DEF Mapping
  <2> QED
    BY <2>2, <2>3, <2>4
<1>4. CASE m.remote # n /\ rows # {} /\ ~(exact # {} /\ m.remote = 0 /\ n \notin foreign[i])
  <2> DEFINE best == IF exact # {} THEN exact ELSE latest
  <2>1. d.outbox = ReleaseAll(best, "conflict") /\ d.mapping = m
    BY <1>4 DEF ApplyLive
  <2>2. \A k \in best : outbox[k].state \notin {"none", "published"}
    BY <1>r
  <2> HIDE DEF best, rows, exact, m
  <2>3. /\ RowsStay(d.outbox)
        /\ \A k \in Keys : d.outbox[k].state = "published" => outbox[k].state = "published"
    BY <1>t, <2>1, <2>2, ReleasedAll
  <2>4. d.mapping = mapping[i] /\ d.mapping \in Mapping
    BY <1>t, <2>1 DEF m
  <2> QED
    BY <2>3, <2>4
<1> QED
  BY <1>1, <1>2, <1>3, <1>4

\* apply_remote_delete: DayWeave's own mapping notes the version.
LEMMA ApplyGoneIs ==
    ASSUME Types, NEW i \in Items, NEW n \in Nat, NEW o \in Version,
           NEW d, d = ApplyGone(i, n, o)
    PROVE  /\ RowsStay(d.outbox) /\ Silent(d.outbox)
           /\ d.mapping \in Mapping
           /\ \/ d.mapping = mapping[i]
              \/ d.mapping.remote = n /\ d.mapping.etag = o.etag /\ d.mapping.content = 0
<1> DEFINE m == mapping[i]
<1>t. outbox \in [Keys -> Row] /\ m \in Mapping /\ o.etag \in Nat
  BY BoundsAre DEF Version, Types
<1>1. d.outbox = ConflictActive(i, outbox) \/ d.outbox = outbox
  BY DEF ApplyGone
<1>2. d.mapping = m \/ (m.remote = n /\ d.mapping = [m EXCEPT !.etag = o.etag, !.content = 0])
  BY DEF ApplyGone
<1>3. RowsStay(d.outbox) /\ Silent(d.outbox)
  BY <1>t, <1>1, TakenBack, RowsSame
<1>4. CASE d.mapping = m
  BY <1>t, <1>3, <1>4
<1>5. CASE m.remote = n /\ d.mapping = [m EXCEPT !.etag = o.etag, !.content = 0]
  <2> HIDE DEF m
  <2>1. /\ d.mapping \in Mapping /\ d.mapping.remote = n
        /\ d.mapping.etag = o.etag /\ d.mapping.content = 0
    BY <1>t, <1>5, ZeroIs DEF Mapping
  <2> QED
    BY <1>3, <2>1
<1> QED
  BY <1>2, <1>4, <1>5

(***************************************************************************)
(* Processes                                                               *)
(***************************************************************************)
\* A process that has a row, and one that has a claim.
Busy == {"lookup", "ready", "found", "permit", "sent", "answer"}
Active(w) == worker[w].pc \notin {"down", "idle"}

\* One process moves.
LEMMA Moved ==
    ASSUME worker \in [Workers -> Process], NEW w \in Workers, NEW p \in Process,
           worker' = [worker EXCEPT ![w] = p]
    PROVE  /\ worker' \in [Workers -> Process] /\ worker'[w] = p
           /\ \A v \in Workers \ {w} : worker'[v] = worker[v]
OBVIOUS

\* A worker that drops its row goes on with its run.
LEMMA DroppedIs ==
    ASSUME worker \in [Workers -> Process], NEW w \in Workers
    PROVE  /\ Dropped(w) \in Process /\ Dropped(w).pc = "outbound"
           /\ Dropped(w).claim = worker[w].claim /\ Dropped(w).page = worker[w].page
           /\ [Dropped(w) EXCEPT !.pc = "failing"] \in Process
           /\ [Dropped(w) EXCEPT !.pc = "failing"].pc = "failing"
           /\ [Dropped(w) EXCEPT !.pc = "failing"].claim = worker[w].claim
           /\ [Dropped(w) EXCEPT !.pc = "failing"].page = worker[w].page
<1> DEFINE p == worker[w]
           d == Dropped(w)
           f == [d EXCEPT !.pc = "failing"]
<1>1. p \in Process
  OBVIOUS
<1>2. "none" \in Answers /\ {"outbound", "failing"} \subseteq Pcs /\ None \in Keys \cup {None}
  BY DEF Answers, Pcs
<1>3. d = [p EXCEPT !.pc = "outbound", !.key = None, !.posted = FALSE,
                    !.answer = "none", !.remote = 0, !.etag = 0]
  BY DEF Dropped
<1> HIDE DEF p, d
<1>4. d \in Process /\ d.pc = "outbound" /\ d.claim = p.claim /\ d.page = p.page
  BY <1>1, <1>2, <1>3 DEF Process
<1>5. f \in Process /\ f.pc = "failing" /\ f.claim = d.claim /\ f.page = d.page
  BY <1>2, <1>4 DEF Process
<1> QED
  BY <1>4, <1>5 DEF p, d

\* A worker that has its answer keeps its row and its claim.
LEMMA AnsweredIs ==
    ASSUME worker \in [Workers -> Process], NEW w \in Workers, NEW answer \in Answers,
           NEW p, p = Answered(w, answer)
    PROVE  /\ p \in Process /\ p.pc = "answer" /\ p.answer = answer
           /\ p.claim = worker[w].claim /\ p.page = worker[w].page /\ p.key = worker[w].key
           /\ p.remote = worker[w].remote /\ p.etag = worker[w].etag
<1> DEFINE r == worker[w]
<1>1. r \in Process /\ p = [r EXCEPT !.pc = "answer", !.answer = answer]
  BY DEF Answered
<1> HIDE DEF r
<1>2. "answer" \in Pcs
  BY DEF Pcs
<1>3. /\ p \in Process /\ p.pc = "answer" /\ p.answer = answer
      /\ p.claim = r.claim /\ p.page = r.page /\ p.key = r.key
      /\ p.remote = r.remote /\ p.etag = r.etag
  BY <1>1, <1>2 DEF Process
<1> QED
  BY <1>3 DEF r

(***************************************************************************)
(* The invariant                                                           *)
(***************************************************************************)
\* The run: a live claim is of the present or an earlier generation, and no
\* two workers have the same.
RunInv ==
    /\ run.claim <= run.gen
    /\ run.leased => run.state = "running"
    /\ DeliveringIsOwned
    /\ \A w \in Workers : Active(w) => worker[w].claim \in 1..run.gen
    /\ \A v, w \in Workers :
           Active(v) /\ Active(w) /\ worker[v].claim = worker[w].claim => v = w

\* What is approved: no row is ahead of its item, and what has an object has
\* a version of it.
Consistent(r) == (r.remote = 0 <=> r.etag = 0) /\ (r.op = "delete" => r.remote # 0)

RowInv ==
    /\ \A k \in Keys : outbox[k].state # "none" => k[2] <= item[k[1]].rev
    /\ \A k \in Keys : Consistent(outbox[k])
    /\ \A i \in Items : preview[i] # None => Consistent(preview[i])
    /\ \A i \in Items : mapping[i].remote = 0 => mapping[i].etag = 0

\* Whoever works on a row or carries its request has a row to work on.
WorkInv ==
    /\ \A w \in Workers : worker[w].pc \in Busy =>
           worker[w].key \in Keys /\ outbox[worker[w].key].state # "none"
    /\ \A w \in Workers : worker[w].pc \in {"lookup", "found"} =>
           kind[worker[w].key[1]] = "event" /\ IsCreate(outbox[worker[w].key])
    /\ \A q \in flight : outbox[q.key].state # "none"

\* A create of a task may have been sent.
Posted(k) == Markerless(k) /\ outbox[k].state # "none" /\ outbox[k].posted
\* A request to create task i is under way, or may be sent next.
Asks(q, i) == q.key[1] = i /\ Markerless(q.key)
May(w, i) == worker[w].pc = "permit" /\ worker[w].key[1] = i /\ Markerless(worker[w].key)
\* Task i is not at Google and is not on its way there.
Quiet(i) ==
    /\ google[i] = <<>>
    /\ \A q \in flight : ~Asks(q, i)
    /\ \A w \in Workers : ~May(w, i)

\* Of a task there is an object, a request or a permit to send one, or none
\* of them; one row is marked for it, and no other row can be authorized.
ThreatInv ==
    /\ \A i \in Items : kind[i] = "task" /\ google[i] # <<>> =>
           \E k \in Keys : k[1] = i /\ Posted(k)
    /\ \A q \in flight : Markerless(q.key) =>
           /\ Posted(q.key) /\ google[q.key[1]] = <<>>
           /\ \A p \in flight : Asks(p, q.key[1]) => p = q
           /\ \A w \in Workers : ~May(w, q.key[1])
    /\ \A w \in Workers, i \in Items : May(w, i) =>
           /\ Posted(worker[w].key) /\ google[i] = <<>>
           /\ \A v \in Workers : May(v, i) => v = w
    /\ \A j, k \in Keys : j[1] = k[1] /\ Posted(j) /\ Posted(k) => j = k
    /\ \A j, k \in Keys :
           /\ j[1] = k[1] /\ Posted(j)
           /\ Markerless(k) /\ outbox[k].state \in Open /\ Current(k)
           => j = k

\* A worker that still holds its task's row: it has not sent it when it is
\* about to, and nothing was created when Google said so.
Holder(w) ==
    LET k == worker[w].key
    IN worker[w].pc \in Busy /\ RowHeld(k, worker[w].claim) /\ Markerless(k) =>
           /\ worker[w].pc = "ready" => ~outbox[k].posted
           /\ worker[w].pc = "answer" /\ worker[w].answer \in Explicit /\ outbox[k].posted
                 => Quiet(k[1])

HolderInv == \A w \in Workers : Holder(w)

\* Version e of object n of item i, with content c, is or was at Google.
Known(i, n, e, c) ==
    /\ n = 1 /\ Len(google[i]) = 1
    /\ e <= google[i][1].etag
    /\ e = google[i][1].etag => c = google[i][1].content
\* DayWeave's content was put there by the row of that revision.
Genuine(i, c) == c # 0 => effects[<<i, c>>] = 1
\* What a row's write makes of the object.
Content(k) == IF outbox[k].op = "upsert" THEN k[2] ELSE 0
\* What a worker has read of Google's objects.
PageKnown(w) ==
    \A x \in worker[w].page :
        /\ Known(x[1], x[2], x[3].etag, x[3].content)
        /\ Genuine(x[1], x[3].content)
        /\ x[3].live \/ x[3].content = 0
\* A worker that was told of its write's success was told the truth.
AnswerKnown(w) ==
    worker[w].pc = "found" \/ (worker[w].pc = "answer" /\ worker[w].answer = "ok") =>
        /\ effects[worker[w].key] = 1
        /\ Known(worker[w].key[1], worker[w].remote, worker[w].etag, Content(worker[w].key))

KnownInv ==
    /\ OneObjectPerItem
    /\ \A i \in Items : google[i] # <<>> =>
           Genuine(i, google[i][1].content) /\ (google[i][1].live \/ google[i][1].content = 0)
    /\ \A i \in Items : mapping[i].remote # 0 =>
           Known(i, mapping[i].remote, mapping[i].etag, mapping[i].content)
    /\ \A w \in Workers : PageKnown(w)
    /\ \A w \in Workers : AnswerKnown(w)
    /\ \A k \in Keys : effects[k] # 0 =>
           /\ effects[k] = 1 /\ outbox[k].state # "none" /\ google[k[1]] # <<>>
           /\ ~IsCreate(outbox[k]) => google[k[1]][1].etag > outbox[k].etag

Inv == Types /\ RunInv /\ RowInv /\ WorkInv /\ ThreatInv /\ HolderInv /\ KnownInv

(***************************************************************************)
(* What the steps have in common                                           *)
(***************************************************************************)
\* The approved intents stay what they are.
IntentsKept ==
    /\ kind' = kind /\ outbox' \in [Keys -> Row]
    /\ \A k \in Keys : SameIntent(outbox[k], outbox'[k])

\* No task gets closer to Google.
NothingSent ==
    /\ flight' \subseteq flight
    /\ \A i \in Items : google[i] = <<>> => google'[i] = <<>>
    /\ \A v \in Workers : worker'[v].pc = "permit" => worker'[v] = worker[v]

\* Revisions only grow.
RevisionsGrow == \A i \in Items : item[i].rev <= item'[i].rev

\* Revisions do not shrink when no item is written.
LEMMA SameRevisions == ASSUME Types, item' = item PROVE RevisionsGrow
<1>1. \A i \in Items : item[i].rev \in Nat
  BY RevisionsAre
<1> QED
  BY SMT, <1>1 DEF RevisionsGrow

\* No worker gets a claim.
ClaimsKept ==
    \A v \in Workers : Active(v)' => Active(v) /\ worker'[v].claim = worker[v].claim

\* A row loses its delivery, and its mark only when nothing came of it.
Settled(k) ==
    \/ Stay(k, outbox[k], outbox'[k])
    \/ /\ SameIntent(outbox[k], outbox'[k])
       /\ outbox'[k].state # "delivering" /\ ~outbox'[k].posted
       /\ Markerless(k) /\ outbox[k].posted => Quiet(k[1])'

RowsSettle == outbox' \in [Keys -> Row] /\ \A k \in Keys : Settled(k)

\* Rows that stay are settled.
LEMMA StaysSettle == ASSUME RowsStay(outbox') PROVE RowsSettle
BY DEF RowsStay, RowsSettle, Settled

\* Settled rows keep their intents.
LEMMA SettlesKeep == ASSUME kind' = kind, RowsSettle PROVE IntentsKept
BY DEF RowsSettle, Settled, Stay, IntentsKept

\* Rows that stay keep their intents.
LEMMA RowsStayKeep == ASSUME kind' = kind, RowsStay(outbox') PROVE IntentsKept
BY DEF RowsStay, Stay, IntentsKept

\* A kept intent is still a create or not, markerless or not, and writes the
\* same content.
LEMMA MarkerlessKept ==
    ASSUME IntentsKept, NEW k \in Keys
    PROVE  /\ Markerless(k)' <=> Markerless(k)
           /\ IsCreate(outbox'[k]) <=> IsCreate(outbox[k])
           /\ Consistent(outbox'[k]) <=> Consistent(outbox[k])
           /\ outbox'[k].state = "none" <=> outbox[k].state = "none"
           /\ Content(k)' = Content(k)
<1>1. SameIntent(outbox[k], outbox'[k]) /\ kind' = kind
  BY DEF IntentsKept
<1> QED
  BY <1>1 DEF SameIntent, Markerless, IsCreate, Content, Consistent

\* A task that is not on its way to Google is not sent by a step that sends
\* nothing.
LEMMA QuietStays ==
    ASSUME Types, WorkInv, IntentsKept, NothingSent, NEW i \in Items, Quiet(i)
    PROVE  Quiet(i)'
<1>1. google'[i] = <<>>
  BY DEF Quiet, NothingSent
<1>2. ASSUME NEW q \in flight' PROVE ~Asks(q, i)'
  <2>1. q \in flight /\ q.key \in Keys /\ ~Asks(q, i)
    BY SMT DEF NothingSent, Quiet, Types
  <2> QED
    BY <2>1, MarkerlessKept DEF Asks
<1>3. ASSUME NEW v \in Workers, May(v, i)' PROVE FALSE
  <2>1. worker'[v].pc = "permit" /\ worker'[v] = worker[v]
    BY <1>3 DEF May, NothingSent
  <2>2. worker[v].key \in Keys
    BY <2>1 DEF WorkInv, Busy
  <2>3. May(v, i)
    BY <1>3, <2>1, <2>2, MarkerlessKept DEF May
  <2> QED
    BY <2>3 DEF Quiet
<1> QED
  BY <1>1, <1>2, <1>3 DEF Quiet

\* A row keeps its mark unless nothing came of the request.
LEMMA ThreatStays ==
    ASSUME Types, RowInv, WorkInv, ThreatInv, IntentsKept, NothingSent, RevisionsGrow, Types',
           \A k \in Keys : Markerless(k) =>
               outbox'[k].posted = outbox[k].posted \/ (~outbox'[k].posted /\ Quiet(k[1])')
    PROVE  ThreatInv'
<1>1. ASSUME NEW k \in Keys
      PROVE  (Posted(k)' => Posted(k)) /\ (Posted(k) => Posted(k)' \/ Quiet(k[1])')
  BY MarkerlessKept DEF Posted
<1>2. ASSUME NEW v \in Workers, NEW i \in Items, May(v, i)'
      PROVE  May(v, i) /\ worker'[v] = worker[v] /\ worker[v].key \in Keys /\ worker[v].key[1] = i
  <2>1. worker'[v].pc = "permit" /\ worker'[v] = worker[v]
    BY <1>2 DEF May, NothingSent
  <2>2. worker[v].key \in Keys
    BY <2>1 DEF WorkInv, Busy
  <2> QED
    BY <1>2, <2>1, <2>2, MarkerlessKept DEF May
<1>3. ASSUME NEW i \in Items, kind'[i] = "task", google'[i] # <<>>
      PROVE  \E k \in Keys : k[1] = i /\ Posted(k)'
  <2>1. kind[i] = "task" /\ google[i] # <<>>
    BY <1>3 DEF NothingSent, IntentsKept
  <2>2. PICK k \in Keys : k[1] = i /\ Posted(k)
    BY <2>1 DEF ThreatInv
  <2>3. ~Quiet(k[1])'
    BY <1>3, <2>2 DEF Quiet
  <2> QED
    BY <1>1, <2>2, <2>3
<1>4. ASSUME NEW q \in flight', Markerless(q.key)'
      PROVE  /\ Posted(q.key)' /\ google'[q.key[1]] = <<>>
             /\ \A p \in flight' : Asks(p, q.key[1])' => p = q
             /\ \A w \in Workers : ~May(w, q.key[1])'
  <2>1. q \in flight /\ q.key \in Keys /\ q.key[1] \in Items /\ flight' \subseteq flight
    BY KeysAre DEF NothingSent, Types
  <2>2. Markerless(q.key)
    BY <1>4, <2>1, MarkerlessKept
  <2>3. /\ Posted(q.key) /\ google[q.key[1]] = <<>>
        /\ \A p \in flight : Asks(p, q.key[1]) => p = q
        /\ \A w \in Workers : ~May(w, q.key[1])
    BY <2>1, <2>2 DEF ThreatInv
  <2>4. ~Quiet(q.key[1])'
    BY <1>4 DEF Quiet, Asks
  <2>5. Posted(q.key)' /\ google'[q.key[1]] = <<>>
    BY <1>1, <2>1, <2>3, <2>4 DEF NothingSent
  <2>6. ASSUME NEW p \in flight', Asks(p, q.key[1])' PROVE p = q
    <3>1. p \in flight /\ p.key \in Keys
      BY <2>1 DEF Types
    <3>2. Asks(p, q.key[1])
      BY <2>6, <3>1, MarkerlessKept DEF Asks
    <3> QED
      BY <2>3, <3>1, <3>2
  <2> QED
    BY <1>2, <2>1, <2>3, <2>5, <2>6
<1>5. ASSUME NEW w \in Workers, NEW i \in Items, May(w, i)'
      PROVE  /\ Posted(worker[w].key)' /\ google'[i] = <<>>
             /\ \A v \in Workers : May(v, i)' => v = w
             /\ worker'[w] = worker[w]
  <2>1. May(w, i) /\ worker'[w] = worker[w] /\ worker[w].key \in Keys /\ worker[w].key[1] = i
    BY <1>2, <1>5
  <2>2. Posted(worker[w].key) /\ google[i] = <<>> /\ \A v \in Workers : May(v, i) => v = w
    BY <2>1 DEF ThreatInv
  <2>3. ~Quiet(i)'
    BY <1>5 DEF Quiet
  <2>4. ASSUME NEW k \in Keys, k = worker[w].key PROVE Posted(k)'
    BY <1>1, <2>1, <2>2, <2>3, <2>4
  <2>5. Posted(worker[w].key)'
    BY <2>1, <2>4 DEF Posted, Markerless
  <2> QED
    BY <1>2, <2>1, <2>2, <2>5 DEF NothingSent
<1>6. ASSUME NEW j \in Keys, NEW k \in Keys, j[1] = k[1], Posted(j)',
             Posted(k)' \/ (Markerless(k)' /\ outbox'[k].state \in Open /\ Current(k)')
      PROVE  j = k
  <2>1. Posted(j)
    BY <1>1, <1>6
  <2>2. CASE Posted(k)'
    <3>1. Posted(k)
      BY <1>1, <2>2
    <3> QED
      BY <1>6, <2>1, <3>1 DEF ThreatInv
  <2>3. CASE Markerless(k)' /\ outbox'[k].state \in Open /\ Current(k)'
    <3>1. Markerless(k) /\ outbox[k].state \in Open /\ outbox[k].state # "none"
      BY <2>3, MarkerlessKept DEF IntentsKept, SameIntent, Open
    <3>2. Current(k)
      <4>1. k[2] <= item[k[1]].rev /\ item[k[1]].rev <= item'[k[1]].rev /\ item'[k[1]].rev = k[2]
        BY <2>3, <3>1, KeysAre DEF RowInv, RevisionsGrow, Current
      <4>2. k[2] \in Nat /\ item[k[1]].rev \in Nat
        BY KeysAre, RevisionsAre
      <4> QED
        BY SMT, <4>1, <4>2 DEF Current
    <3> QED
      BY <1>6, <2>1, <3>1, <3>2 DEF ThreatInv
  <2> QED
    BY <1>6, <2>2, <2>3
<1> QED
  BY <1>3, <1>4, <1>5, <1>6 DEF ThreatInv

\* A worker that does not move, and whose row is not put into delivery,
\* holds what it held.
LEMMA HolderStays ==
    ASSUME Types, WorkInv, HolderInv, IntentsKept, NothingSent,
           NEW v \in Workers, worker'[v] = worker[v],
           worker[v].pc \in Busy /\ outbox'[worker[v].key].state = "delivering" =>
               Stay(worker[v].key, outbox[worker[v].key], outbox'[worker[v].key])
    PROVE  Holder(v)'
<1> DEFINE k == worker[v].key
<1> SUFFICES ASSUME worker[v].pc \in Busy, RowHeld(k, worker[v].claim)', Markerless(k)'
             PROVE  /\ worker[v].pc = "ready" => ~outbox'[k].posted
                    /\ /\ worker[v].pc = "answer" /\ worker[v].answer \in Explicit
                       /\ outbox'[k].posted
                       => Quiet(k[1])'
  BY DEF Holder, Markerless, RowHeld, Quiet
<1>1. k \in Keys /\ k[1] \in Items
  BY KeysAre DEF WorkInv
<1>2. Stay(k, outbox[k], outbox'[k])
  BY DEF RowHeld
<1>3. worker'[v].key = k /\ worker'[v].claim = worker[v].claim
  OBVIOUS
<1>4. Markerless(k) /\ RowHeld(k, worker[v].claim) /\ outbox'[k].posted = outbox[k].posted
  BY SMT, <1>1, <1>2, <1>3 DEF Stay, SameIntent, Markerless, RowHeld, IntentsKept
<1>5. Holder(v)
  BY DEF HolderInv
<1>6. /\ worker[v].pc = "ready" => ~outbox[k].posted
      /\ worker[v].pc = "answer" /\ worker[v].answer \in Explicit /\ outbox[k].posted => Quiet(k[1])
  BY <1>4, <1>5 DEF Holder
<1>7. Quiet(k[1]) => \A i \in Items : i = k[1] => Quiet(i)'
  BY <1>1, QuietStays
<1> QED
  BY <1>1, <1>3, <1>4, <1>6, <1>7 DEF Quiet, Asks, May

\* The run and the claims on it stay as they are.
LEMMA RunStays ==
    ASSUME RunInv, RowsStay(outbox'), ClaimsKept,
           run'.state = run.state, run'.claim = run.claim, run'.gen = run.gen,
           run'.leased => run.leased
    PROVE  RunInv'
<1>1. DeliveringIsOwned'
  BY DEF RunInv, DeliveringIsOwned, RowsStay, Stay
<1>2. \A w \in Workers : Active(w)' => worker'[w].claim \in 1..run'.gen
  BY DEF RunInv, ClaimsKept
<1>3. \A v, w \in Workers :
          Active(v)' /\ Active(w)' /\ worker'[v].claim = worker'[w].claim => v = w
  BY DEF RunInv, ClaimsKept
<1> QED
  BY <1>1, <1>2, <1>3 DEF RunInv

\* What is approved stays consistent and is never ahead of its item.
LEMMA RowInvStays ==
    ASSUME Types, Types', RowInv, IntentsKept, RevisionsGrow,
           \A i \in Items : preview'[i] # None => Consistent(preview'[i]),
           \A i \in Items : mapping'[i].remote = 0 => mapping'[i].etag = 0
    PROVE  RowInv'
<1>1. ASSUME NEW k \in Keys, outbox'[k].state # "none" PROVE k[2] <= item'[k[1]].rev
  <2>1. k[2] <= item[k[1]].rev /\ item[k[1]].rev <= item'[k[1]].rev
    BY <1>1, MarkerlessKept, KeysAre DEF RowInv, RevisionsGrow
  <2>2. k[2] \in Nat /\ item[k[1]].rev \in Nat /\ item'[k[1]].rev \in Nat
    <3>1. item'[k[1]].rev \in Revisions
      BY KeysAre DEF Types
    <3> QED
      BY <3>1, KeysAre, RevisionsAre
  <2> QED
    BY SMT, <2>1, <2>2
<1>2. \A k \in Keys : Consistent(outbox'[k])
  BY MarkerlessKept DEF RowInv
<1> QED
  BY <1>1, <1>2 DEF RowInv, Consistent

\* Whoever works on a row still has one.
LEMMA WorkInvStays ==
    ASSUME Types, WorkInv, IntentsKept, flight' \subseteq flight,
           \A v \in Workers : worker'[v].pc \in Busy =>
               /\ worker'[v].key \in Keys /\ outbox[worker'[v].key].state # "none"
               /\ worker'[v].pc \in {"lookup", "found"} =>
                      kind[worker'[v].key[1]] = "event" /\ IsCreate(outbox[worker'[v].key])
    PROVE  WorkInv'
<1>1. ASSUME NEW v \in Workers, worker'[v].pc \in Busy
      PROVE  worker'[v].key \in Keys /\ outbox'[worker'[v].key].state # "none"
  BY <1>1, MarkerlessKept
<1>2. ASSUME NEW v \in Workers, worker'[v].pc \in {"lookup", "found"}
      PROVE  kind'[worker'[v].key[1]] = "event" /\ IsCreate(outbox'[worker'[v].key])
  <2>1. worker'[v].pc \in Busy
    BY <1>2 DEF Busy
  <2>2. kind' = kind
    BY DEF IntentsKept
  <2> QED
    BY <1>2, <2>1, <2>2, MarkerlessKept
<1>3. ASSUME NEW q \in flight' PROVE outbox'[q.key].state # "none"
  BY MarkerlessKept DEF WorkInv, Types
<1> QED
  BY <1>1, <1>2, <1>3 DEF WorkInv

\* Objects stay, their versions grow, and what took effect did so.
VersionsGrow ==
    /\ \A i \in Items : google[i] # <<>> =>
           /\ Len(google'[i]) = 1 /\ google[i][1].etag <= google'[i][1].etag
           /\ google'[i][1].etag = google[i][1].etag => google'[i][1].content = google[i][1].content
    /\ \A k \in Keys : effects[k] = 1 => effects'[k] = 1

\* The object of an item has a version that Google counts from one.
LEMMA EtagsAre ==
    ASSUME Types, NEW i \in Items
    PROVE  /\ Len(google[i]) \in Nat /\ (google[i] = <<>> <=> Len(google[i]) = 0)
           /\ Len(google[i]) = 1 => google[i][1] \in Version
           /\ Len(google[i]) = 1 => google[i][1].etag \in Nat \ {0}
           /\ Len(google[i]) = 1 => google[i][1].content \in 0..MaxRevision
<1>1. google[i] \in Seq(Version)
  BY DEF Types
<1>2. Len(google[i]) = 1 => google[i][1] \in Version
  BY SMT, <1>1
<1> QED
  BY SMT, <1>1, <1>2 DEF Version

\* A version that was at Google stays a version that was at Google.
LEMMA KnownStays ==
    ASSUME Types, Types', VersionsGrow, NEW i \in Items
    PROVE  /\ \A n, c : \A e \in Nat : Known(i, n, e, c) => Known(i, n, e, c)'
           /\ \A c \in 0..MaxRevision : Genuine(i, c) => Genuine(i, c)'
<1>1. ASSUME NEW n, NEW c, NEW e \in Nat, Known(i, n, e, c) PROVE Known(i, n, e, c)'
  <2>1. Len(google[i]) = 1 /\ google[i] # <<>> /\ google[i][1].etag \in Nat
    BY SMT, <1>1, EtagsAre DEF Known
  <2>2. /\ Len(google'[i]) = 1 /\ google[i][1].etag <= google'[i][1].etag
        /\ google'[i][1].etag = google[i][1].etag => google'[i][1].content = google[i][1].content
    BY <2>1 DEF VersionsGrow
  <2>3. google'[i][1].etag \in Nat
    <3>1. google'[i] \in Seq(Version)
      BY DEF Types
    <3>2. google'[i][1] \in Version
      BY SMT, <2>2, <3>1
    <3> QED
      BY <3>2 DEF Version
  <2> QED
    BY SMT, <1>1, <2>1, <2>2, <2>3 DEF Known
<1>2. ASSUME NEW c \in 0..MaxRevision, Genuine(i, c) PROVE Genuine(i, c)'
  <2>1. c # 0 => <<i, c>> \in Keys
    BY SMT, BoundsAre DEF Keys, Revisions
  <2> QED
    BY <1>2, <2>1 DEF Genuine, VersionsGrow
<1> QED
  BY <1>1, <1>2

\* A worker that neither moves nor reads knows what it knew.
LEMMA WorkerKnows ==
    ASSUME Types, Types', WorkInv, IntentsKept, VersionsGrow, NEW v \in Workers
    PROVE  /\ PageKnown(v) /\ worker'[v].page \subseteq worker[v].page => PageKnown(v)'
           /\ AnswerKnown(v) /\ worker'[v] = worker[v] => AnswerKnown(v)'
<1>1. ASSUME PageKnown(v), NEW x \in worker'[v].page, worker'[v].page \subseteq worker[v].page
      PROVE  /\ Known(x[1], x[2], x[3].etag, x[3].content)' /\ Genuine(x[1], x[3].content)'
             /\ x[3].live \/ x[3].content = 0
  <2>1. x \in worker[v].page /\ worker[v] \in Process
    BY <1>1 DEF Types
  <2>2. x \in Items \X (1..2) \X Version
    BY <2>1 DEF Process
  <2>3. x[1] \in Items /\ x[3].etag \in Nat /\ x[3].content \in 0..MaxRevision
    BY <2>2 DEF Version
  <2>4. /\ Known(x[1], x[2], x[3].etag, x[3].content) /\ Genuine(x[1], x[3].content)
        /\ x[3].live \/ x[3].content = 0
    BY <1>1, <2>1 DEF PageKnown
  <2> QED
    BY <2>3, <2>4, KnownStays
<1>2. ASSUME AnswerKnown(v), worker'[v] = worker[v],
             worker[v].pc = "found" \/ (worker[v].pc = "answer" /\ worker[v].answer = "ok"),
             NEW k, k = worker[v].key
      PROVE  /\ effects'[k] = 1
             /\ Known(k[1], worker[v].remote, worker[v].etag, Content(k))'
  <2>1. k \in Keys /\ k[1] \in Items /\ worker[v].etag \in Nat
    BY <1>2, KeysAre DEF WorkInv, Busy, Types, Process
  <2>2. effects[k] = 1 /\ Known(k[1], worker[v].remote, worker[v].etag, Content(k))
    BY <1>2 DEF AnswerKnown
  <2>3. Content(k)' = Content(k)
    BY <2>1, MarkerlessKept
  <2>4. ASSUME NEW n, NEW c, NEW e \in Nat, Known(k[1], n, e, c) PROVE Known(k[1], n, e, c)'
    BY <2>1, <2>4, KnownStays
  <2> QED
    BY <1>2, <2>1, <2>2, <2>3, <2>4 DEF VersionsGrow, Known
<1> QED
  BY <1>1, <1>2 DEF PageKnown, AnswerKnown, Known, Content

\* Versions do not shrink when Google does nothing.
LEMMA SameVersions ==
    ASSUME Types, KnownInv, google' = google, effects' = effects
    PROVE  VersionsGrow
<1>1. ASSUME NEW i \in Items, google[i] # <<>> PROVE Len(google[i]) = 1 /\ google[i][1].etag \in Nat
  <2> DEFINE n == Len(google[i])
  <2>1. n \in Nat /\ n # 0 /\ n <= 1
    BY <1>1, EtagsAre DEF KnownInv, OneObjectPerItem
  <2>2. n = 1
    <3> HIDE DEF n
    <3> QED
      BY SMT, <2>1
  <2> QED
    BY <2>2, EtagsAre
<1> QED
  BY SMT, <1>1 DEF VersionsGrow

\* What DayWeave knows of Google stays true when Google does nothing.
LEMMA KnownInvStays ==
    ASSUME Types, KnownInv, IntentsKept, google' = google, effects' = effects,
           \A i \in Items : mapping'[i].remote # 0 =>
               Known(i, mapping'[i].remote, mapping'[i].etag, mapping'[i].content),
           \A v \in Workers : PageKnown(v)' /\ AnswerKnown(v)'
    PROVE  KnownInv'
<1>1. OneObjectPerItem' /\ \A i \in Items : google'[i] # <<>> =>
          Genuine(i, google[i][1].content)' /\ (google'[i][1].live \/ google'[i][1].content = 0)
  BY DEF KnownInv, OneObjectPerItem, Genuine
<1>2. \A i \in Items : mapping'[i].remote # 0 =>
          Known(i, mapping[i].remote, mapping[i].etag, mapping[i].content)'
  BY DEF Known
<1>3. ASSUME NEW k \in Keys, effects'[k] # 0
      PROVE  /\ effects'[k] = 1 /\ outbox'[k].state # "none" /\ google'[k[1]] # <<>>
             /\ ~IsCreate(outbox'[k]) => google'[k[1]][1].etag > outbox'[k].etag
  <2>1. outbox'[k].etag = outbox[k].etag
    BY DEF IntentsKept, SameIntent
  <2> QED
    BY <1>3, <2>1, MarkerlessKept DEF KnownInv
<1> QED
  BY <1>1, <1>2, <1>3 DEF KnownInv

(***************************************************************************)
(* The promise                                                             *)
(***************************************************************************)
\* A step the user's promise allows.
Promised == [Promise!Next]_(Promise!vars)

\* Only what Google has is reported as published.
Honest ==
    \A k \in Keys : outbox'[k].state = "published" => outbox[k].state = "published" \/ effects[k] = 1

\* Steps that keep the intents and publish only what Google has are outcomes
\* the promise allows.
LEMMA SettleStep ==
    ASSUME outbox \in [Keys -> Row], IntentsKept, effects' = effects, Honest
    PROVE  Promised
<1> DEFINE ps == {k \in Keys : outbox[k].state # "published" /\ outbox'[k].state = "published"}
           ks == {k \in Keys : outbox[k].state \in Open /\ outbox'[k].state \in Closed}
<1>1. ASSUME NEW k \in Keys
      PROVE  /\ outbox[k].state \in States /\ outbox'[k].state \in States
             /\ SameIntent(outbox[k], outbox'[k])
  BY DEF IntentsKept, Row
<1>2. ASSUME NEW k \in ps PROVE Report[k] \in {"open", "closed"} /\ effects[k] = 1
  BY <1>1 DEF Report, Honest, States, SameIntent
<1>3. ASSUME NEW k \in ks PROVE Report[k] = "open"
  BY DEF Report
<1>4. ASSUME NEW k \in Keys
      PROVE  Report'[k] = IF k \in ps THEN "published" ELSE IF k \in ks THEN "closed" ELSE Report[k]
  BY <1>1 DEF Report, States, SameIntent, Open, Closed
<1>5. Report' = [k \in Keys |-> IF k \in ps THEN "published"
                               ELSE IF k \in ks THEN "closed" ELSE Report[k]]
  BY <1>4 DEF Report
<1> HIDE DEF ps, ks
<1>6. Promise!Settle(ps, ks)
  BY <1>2, <1>3, <1>5 DEF Promise!Settle
<1>7. ps \in SUBSET Keys /\ ks \in SUBSET Keys
  BY DEF ps, ks
<1> QED
  BY <1>6, <1>7 DEF Promised, Promise!Next

(***************************************************************************)
(* Calm steps: nothing is sent, no row is put into delivery                *)
(***************************************************************************)
Calm ==
    /\ kind' = kind /\ flight' \subseteq flight /\ google' = google /\ effects' = effects
    /\ RevisionsGrow /\ RowsSettle /\ Honest
    /\ \A v \in Workers : worker'[v] = worker[v] \/ worker'[v].pc \notin Busy

\* A calm step keeps the invariant and the promise.
LEMMA CalmStep ==
    ASSUME Inv, Types', RunInv', Calm,
           \A i \in Items : preview'[i] # None => Consistent(preview'[i]),
           \A i \in Items : mapping'[i].remote = 0 => mapping'[i].etag = 0,
           \A i \in Items : mapping'[i].remote # 0 =>
               Known(i, mapping'[i].remote, mapping'[i].etag, mapping'[i].content),
           \A v \in Workers : PageKnown(v)'
    PROVE  Inv' /\ Promised
<1>i. Types /\ RunInv /\ RowInv /\ WorkInv /\ ThreatInv /\ HolderInv /\ KnownInv
  BY DEF Inv
<1>1. IntentsKept /\ RevisionsGrow
  BY SettlesKeep DEF Calm
<1>2. NothingSent
  BY DEF NothingSent, Calm, Busy
<1>3. RowInv'
  BY <1>i, <1>1, RowInvStays
<1>4. WorkInv'
  <2>1. ASSUME NEW v \in Workers, worker'[v].pc \in Busy
        PROVE  /\ worker'[v].key \in Keys /\ outbox[worker'[v].key].state # "none"
               /\ worker'[v].pc \in {"lookup", "found"} =>
                      kind[worker'[v].key[1]] = "event" /\ IsCreate(outbox[worker'[v].key])
    <3>1. worker'[v] = worker[v]
      BY <2>1 DEF Calm
    <3> QED
      BY <1>i, <2>1, <3>1 DEF WorkInv
  <2> QED
    BY <1>i, <1>1, <1>2, <2>1, WorkInvStays DEF NothingSent
<1>5. ThreatInv'
  <2>1. ASSUME NEW k \in Keys, Markerless(k)
        PROVE  outbox'[k].posted = outbox[k].posted \/ (~outbox'[k].posted /\ Quiet(k[1])')
    <3>1. Settled(k) /\ outbox[k].posted \in BOOLEAN /\ outbox'[k].posted \in BOOLEAN
      BY <1>i DEF Calm, RowsSettle, Types, Row
    <3>2. \/ outbox'[k].posted = outbox[k].posted
          \/ ~outbox'[k].posted /\ (outbox[k].posted => Quiet(k[1])')
      BY <2>1, <3>1 DEF Settled, Stay
    <3> QED
      BY <3>1, <3>2
  <2> QED
    BY <1>i, <1>1, <1>2, <2>1, ThreatStays
<1>6. ASSUME NEW v \in Workers PROVE Holder(v)'
  <2>1. CASE worker'[v] = worker[v]
    <3>1. worker[v].pc \in Busy /\ outbox'[worker[v].key].state = "delivering" =>
              Stay(worker[v].key, outbox[worker[v].key], outbox'[worker[v].key])
      BY <1>i DEF Calm, RowsSettle, Settled, WorkInv
    <3> QED
      BY <1>i, <1>1, <1>2, <2>1, <3>1, HolderStays
  <2>2. CASE worker'[v].pc \notin Busy
    BY <2>2 DEF Holder
  <2> QED
    BY <2>1, <2>2 DEF Calm
<1>7. KnownInv'
  <2>1. VersionsGrow
    BY <1>i, SameVersions DEF Calm
  <2>2. ASSUME NEW v \in Workers PROVE AnswerKnown(v)'
    <3>1. CASE worker'[v] = worker[v]
      <4>1. AnswerKnown(v)
        BY <1>i DEF KnownInv
      <4> QED
        BY <1>i, <1>1, <2>1, <3>1, <4>1, WorkerKnows
    <3>2. CASE worker'[v].pc \notin Busy
      BY <3>2 DEF AnswerKnown, Busy
    <3> QED
      BY <3>1, <3>2 DEF Calm
  <2> QED
    BY <1>i, <1>1, <2>2, KnownInvStays DEF Calm
<1>8. Promised
  BY <1>i, <1>1, SettleStep DEF Calm, Types
<1> QED
  BY <1>3, <1>4, <1>5, <1>6, <1>7, <1>8 DEF Inv, HolderInv

\* Most calm steps leave the mappings and what the workers have read.
LEMMA CalmKeeps ==
    ASSUME Inv, Types', RunInv', Calm, mapping' = mapping,
           \A i \in Items : preview'[i] # None => Consistent(preview'[i]),
           \A v \in Workers : worker'[v].page \subseteq worker[v].page
    PROVE  Inv' /\ Promised
<1>i. Types /\ RowInv /\ WorkInv /\ KnownInv
  BY DEF Inv
<1>1. IntentsKept /\ VersionsGrow
  BY <1>i, SettlesKeep, SameVersions DEF Calm
<1>2. ASSUME NEW v \in Workers PROVE PageKnown(v)'
  <2>1. PageKnown(v)
    BY <1>i DEF KnownInv
  <2> QED
    BY <1>i, <1>1, <2>1, WorkerKnows
<1>3. \A i \in Items : mapping'[i].remote = 0 => mapping'[i].etag = 0
  BY <1>i DEF RowInv
<1>4. \A i \in Items : mapping'[i].remote # 0 =>
          Known(i, mapping'[i].remote, mapping'[i].etag, mapping'[i].content)
  BY <1>i DEF KnownInv
<1> QED
  BY <1>2, <1>3, <1>4, CalmStep

(***************************************************************************)
(* The user                                                                *)
(***************************************************************************)
\* A step of the user that writes neither rows, run nor mappings.
LEMMA LocalStep ==
    ASSUME Inv, Types', RevisionsGrow, UNCHANGED <<kind, ledgerVars, worker, providerVars>>,
           \A i \in Items : preview'[i] # None => Consistent(preview'[i])
    PROVE  Inv' /\ Promised
<1>u. /\ kind' = kind /\ outbox' = outbox /\ mapping' = mapping /\ run' = run
      /\ worker' = worker /\ flight' = flight /\ google' = google /\ effects' = effects
  BY DEF ledgerVars, providerVars
<1>i. Types /\ RunInv
  BY DEF Inv
<1>1. RowsStay(outbox') /\ Silent(outbox')
  BY <1>i, <1>u, RowsSame DEF Types
<1>2. Calm
  BY <1>u, <1>1, StaysSettle DEF Calm, Honest, Silent
<1>3. RunInv'
  BY <1>i, <1>u, <1>1, RunStays DEF ClaimsKept, Active
<1> QED
  BY <1>u, <1>2, <1>3, CalmKeeps

\* Editing an item (item writes of the API).
LEMMA EditItemStep == ASSUME Inv, NEW i \in Items, EditItem(i) PROVE Inv' /\ Promised
<1>i. Types /\ RowInv
  BY DEF Inv
<1>u. UNCHANGED <<kind, account, coll, preview, ledgerVars, worker, providerVars, starts>>
  BY DEF EditItem
<1>1. PICK trashed \in BOOLEAN : item' = [item EXCEPT ![i] = [rev |-> item[i].rev + 1, trashed |-> trashed]]
  BY DEF EditItem
<1>2. item[i].rev \in Revisions /\ item[i].rev + 1 \in Revisions
  BY SMT, <1>i, BoundsAre, RevisionsAre DEF EditItem, Revisions
<1>3. [rev |-> item[i].rev + 1, trashed |-> trashed] \in [rev : Revisions, trashed : BOOLEAN]
  BY <1>2
<1>4. item' \in [Items -> [rev : Revisions, trashed : BOOLEAN]]
  BY <1>i, <1>1, <1>3 DEF Types
<1>5. RevisionsGrow
  <2>1. ASSUME NEW j \in Items PROVE item[j].rev <= item'[j].rev
    <3>1. item[j].rev \in Nat /\ item[i].rev \in Nat
      BY <1>i, RevisionsAre
    <3>2. item \in [Items -> [rev : Revisions, trashed : BOOLEAN]]
      BY <1>i DEF Types
    <3>3. item'[j] = IF j = i THEN [rev |-> item[i].rev + 1, trashed |-> trashed] ELSE item[j]
      BY <1>1, <3>2
    <3>4. item'[j].rev = IF j = i THEN item[i].rev + 1 ELSE item[j].rev
      BY SMT, <3>3
    <3> QED
      BY SMT, <3>1, <3>4
  <2> QED
    BY <2>1 DEF RevisionsGrow
<1>6. Types'
  BY <1>i, <1>u, <1>4 DEF Types, ledgerVars, providerVars
<1> QED
  BY <1>i, <1>u, <1>5, <1>6, LocalStep DEF RowInv

\* Previews (create_outbound_preview, approve_outbound and expiry).
LEMMA PreviewStep ==
    ASSUME Inv, NEW i \in Items, NEW p \in Review \cup {None}, p # None => Consistent(p),
           preview' = [preview EXCEPT ![i] = p],
           UNCHANGED <<kind, item, account, coll, ledgerVars, worker, providerVars, starts>>
    PROVE  Inv' /\ Promised
<1>i. Types /\ RowInv
  BY DEF Inv
<1>1. preview' \in [Items -> Review \cup {None}]
  BY <1>i DEF Types
<1>2. Types'
  BY <1>i, <1>1 DEF Types, ledgerVars, providerVars
<1>3. RevisionsGrow
  BY <1>i, SameRevisions
<1>4. \A j \in Items : preview'[j] # None => Consistent(preview'[j])
  BY <1>i DEF Types, RowInv
<1> QED
  BY <1>2, <1>3, <1>4, LocalStep

\* create_outbound_preview.
LEMMA CreatePreviewStep == ASSUME Inv, NEW i \in Items, CreatePreview(i) PROVE Inv' /\ Promised
<1>i. Types /\ RowInv
  BY DEF Inv
<1> DEFINE op == IF item[i].trashed THEN "delete" ELSE "upsert"
           p == [rev |-> item[i].rev, op |-> op, coll |-> coll.rev,
                 remote |-> mapping[i].remote, etag |-> mapping[i].etag, approved |-> FALSE]
<1>1. preview' = [preview EXCEPT ![i] = p]
  BY DEF CreatePreview
<1>2. /\ UNCHANGED <<kind, item, account, coll, ledgerVars, worker, providerVars, starts>>
      /\ mapping[i].remote # 0 => mapping[i].etag # 0
      /\ op = "delete" => mapping[i].remote # 0
  BY DEF CreatePreview
<1>3. p \in Review
  <2>1. item[i].rev \in Revisions /\ op \in {"upsert", "delete"}
    BY <1>i, RevisionsAre
  <2>2. coll.rev \in 0..MaxConfigs
    BY SMT, <1>i, BoundsAre DEF Types
  <2>3. mapping[i].remote \in Nat /\ mapping[i].etag \in Nat
    BY <1>i DEF Types, Mapping
  <2> HIDE DEF op
  <2> QED
    BY <2>1, <2>2, <2>3 DEF Review
<1>4. Consistent(p)
  <2>1. mapping[i].remote = 0 => mapping[i].etag = 0
    BY <1>i DEF RowInv
  <2> HIDE DEF op
  <2> QED
    BY <1>2, <2>1 DEF Consistent
<1> HIDE DEF p
<1> QED
  BY <1>1, <1>2, <1>3, <1>4, PreviewStep

\* approve_outbound.
LEMMA ApproveStep == ASSUME Inv, NEW i \in Items, ApproveOutbound(i) PROVE Inv' /\ Promised
<1>i. Types /\ RowInv
  BY DEF Inv
<1> DEFINE o == preview[i]
           p == [o EXCEPT !.approved = TRUE]
<1>1. /\ preview' = [preview EXCEPT ![i] = p] /\ o # None
      /\ UNCHANGED <<kind, item, account, coll, ledgerVars, worker, providerVars, starts>>
  BY DEF ApproveOutbound
<1>2. o \in Review /\ Consistent(o)
  BY <1>i, <1>1 DEF Types, RowInv
<1> HIDE DEF o
<1>3. p \in Review /\ Consistent(p)
  BY <1>2 DEF Review, Consistent
<1> HIDE DEF p
<1> QED
  BY <1>1, <1>3, PreviewStep

\* An approval runs out.
LEMMA ExpireStep == ASSUME Inv, NEW i \in Items, ApprovalExpires(i) PROVE Inv' /\ Promised
BY PreviewStep DEF ApprovalExpires

(***************************************************************************)
(* The account and the run                                                 *)
(***************************************************************************)
\* Every statement that ends deliveries leaves none of those it is about.
LEMMA NoneDelivered ==
    ASSUME outbox \in [Keys -> Row], NEW k \in Keys
    PROVE  /\ ConflictOpen[k].state # "delivering"
           /\ outbox[k].state = "delivering" =>
                  /\ Release(outbox[k], "backoff").state # "delivering"
                  /\ TakeBack(k, outbox[k], "backoff").state # "delivering"
           /\ \A g : (outbox[k].state = "delivering" => outbox[k].claim = g) =>
                  EndChildren(g)[k].state # "delivering"
<1>1. outbox[k] \in Row
  OBVIOUS
<1>2. ASSUME outbox[k].state = "delivering"
      PROVE  /\ Release(outbox[k], "backoff").state # "delivering"
             /\ TakeBack(k, outbox[k], "backoff").state # "delivering"
  <2>1. "backoff" \in States \ {"none", "delivering"} /\ "delivering" \in Open
    BY DEF States, Open
  <2>2. /\ Release(outbox[k], "backoff").state = "backoff"
        /\ TakeBack(k, outbox[k], "backoff").state \in {"backoff", "conflict"}
    BY <1>1, <1>2, <2>1, ReleaseStays
  <2> QED
    BY <2>2
<1>3. ConflictOpen[k].state # "delivering"
  <2>1. CASE outbox[k].state \in Open
    <3>1. ConflictOpen[k] = Release(outbox[k], "conflict")
      BY <2>1 DEF ConflictOpen
    <3>2. "conflict" \in States
      BY DEF States, Closed
    <3> QED
      BY <1>1, <3>1, <3>2, ReleaseIs
  <2>2. CASE outbox[k].state \notin Open
    BY <2>2 DEF ConflictOpen, Open
  <2> QED
    BY <2>1, <2>2
<1>4. ASSUME NEW g, outbox[k].state = "delivering" => outbox[k].claim = g
      PROVE  EndChildren(g)[k].state # "delivering"
  BY <1>2, <1>4 DEF EndChildren, RowHeld
<1> QED
  BY <1>2, <1>3, <1>4

\* A run that ends, or changes hands, leaves no delivery behind.
LEMMA RunEnds ==
    ASSUME RunInv, ClaimsKept, run' \in Runs, run'.gen = run.gen,
           run'.claim = 0 \/ run'.claim = run.claim, run'.leased => run'.state = "running",
           \A k \in Keys : outbox'[k].state # "delivering"
    PROVE  RunInv'
<1>1. DeliveringIsOwned'
  BY DEF DeliveringIsOwned
<1>2. run'.claim <= run'.gen
  BY SMT, BoundsAre DEF RunInv, Runs
<1>3. \A w \in Workers : Active(w)' => worker'[w].claim \in 1..run'.gen
  BY DEF RunInv, ClaimsKept
<1>4. \A v, w \in Workers :
          Active(v)' /\ Active(w)' /\ worker'[v].claim = worker'[w].claim => v = w
  BY DEF RunInv, ClaimsKept
<1> QED
  BY <1>1, <1>2, <1>3, <1>4 DEF RunInv

\* Rows and run are written, the workers do not move.
LEMMA LedgerStep ==
    ASSUME Inv, Types', RunInv', RowsStay(outbox'), Silent(outbox'), RevisionsGrow,
           UNCHANGED <<kind, mapping, providerVars>>,
           \A i \in Items : preview'[i] # None => Consistent(preview'[i]),
           \A v \in Workers : \/ worker'[v] = worker[v]
                              \/ worker'[v].pc \notin Busy /\ worker'[v].page \subseteq worker[v].page
    PROVE  Inv' /\ Promised
<1>1. Calm
  BY StaysSettle DEF Calm, Honest, Silent, providerVars
<1>2. \A v \in Workers : worker'[v].page \subseteq worker[v].page
  OBVIOUS
<1> QED
  BY <1>1, <1>2, CalmKeeps

\* request_refresh.
LEMMA RefreshStep == ASSUME Inv, RequestRefresh PROVE Inv' /\ Promised
<1>i. Types /\ RunInv /\ RowInv
  BY DEF Inv
<1>u. UNCHANGED <<kind, localVars, outbox, mapping, foreign, worker, providerVars, starts>>
  BY DEF RequestRefresh
<1>1. /\ run.state # "running" /\ run' \in Runs /\ run'.claim = run.claim /\ run'.gen = run.gen
      /\ run'.leased = run.leased
  <2>1. run \in Runs
    BY <1>i DEF Types
  <2> QED
    BY <2>1 DEF RequestRefresh, Runs
<1>2. Types'
  BY <1>i, <1>u, <1>1 DEF Types, localVars, providerVars
<1>3. RowsStay(outbox') /\ Silent(outbox')
  BY <1>i, <1>u, RowsSame DEF Types
<1>4. RunInv'
  <2>1. \A k \in Keys : outbox'[k].state # "delivering"
    BY <1>i, <1>u, <1>1 DEF RunInv, DeliveringIsOwned
  <2>2. ~run'.leased
    BY <1>i, <1>1 DEF RunInv
  <2>3. ClaimsKept
    BY <1>u DEF ClaimsKept, Active
  <2> QED
    BY <1>i, <1>1, <2>1, <2>2, <2>3, RunEnds
<1>5. RevisionsGrow
  BY <1>i, <1>u, SameRevisions DEF localVars
<1> QED
  BY <1>i, <1>u, <1>2, <1>3, <1>4, <1>5, LedgerStep DEF localVars, RowInv

\* The lease of the run runs out.
LEMMA ExpiryStep == ASSUME Inv, LeaseExpires PROVE Inv' /\ Promised
<1>i. Types /\ RunInv /\ RowInv
  BY DEF Inv
<1>u. UNCHANGED <<kind, localVars, outbox, mapping, foreign, worker, providerVars, starts>>
  BY DEF LeaseExpires
<1>1. /\ run' \in Runs /\ run'.claim = run.claim /\ run'.gen = run.gen
      /\ run'.state = run.state /\ ~run'.leased
  <2>1. run \in Runs
    BY <1>i DEF Types
  <2> QED
    BY <2>1 DEF LeaseExpires, Runs
<1>2. Types'
  BY <1>i, <1>u, <1>1 DEF Types, localVars, providerVars
<1>3. RowsStay(outbox') /\ Silent(outbox')
  BY <1>i, <1>u, RowsSame DEF Types
<1>4. RunInv'
  <2>1. ClaimsKept
    BY <1>u DEF ClaimsKept, Active
  <2> QED
    BY <1>i, <1>1, <1>3, <2>1, RunStays
<1>5. RevisionsGrow
  BY <1>i, <1>u, SameRevisions DEF localVars
<1> QED
  BY <1>i, <1>u, <1>2, <1>3, <1>4, <1>5, LedgerStep DEF localVars, RowInv

\* update_collection and discovery: every open row becomes a conflict.
LEMMA ConfigureStep == ASSUME Inv, ConfigureCollection PROVE Inv' /\ Promised
<1>i. Types /\ RunInv /\ RowInv
  BY DEF Inv
<1>u. /\ UNCHANGED <<kind, item, account, preview, mapping, foreign, run, worker, providerVars, starts>>
      /\ outbox' = ConflictOpen
  BY DEF ConfigureCollection
<1>1. outbox \in [Keys -> Row]
  BY <1>i DEF Types
<1>2. RowsStay(outbox') /\ Silent(outbox')
  BY <1>u, <1>1, TakenBack
<1>3. coll' \in [rev : 1..MaxConfigs, writable : BOOLEAN]
  <2>1. coll.rev \in 1..MaxConfigs /\ coll.rev < MaxConfigs
    BY <1>i DEF Types, ConfigureCollection
  <2>2. coll.rev + 1 \in 1..MaxConfigs
    BY SMT, <2>1, BoundsAre
  <2> QED
    BY SMT, <2>2 DEF ConfigureCollection
<1>4. Types'
  <2>1. outbox' \in [Keys -> Row]
    BY <1>2 DEF RowsStay
  <2> QED
    BY <1>i, <1>u, <1>3, <2>1 DEF Types, providerVars
<1>5. RunInv'
  BY <1>i, <1>u, <1>2, RunStays DEF ClaimsKept, Active
<1>6. RevisionsGrow
  BY <1>i, <1>u, SameRevisions
<1> QED
  BY <1>i, <1>u, <1>2, <1>4, <1>5, <1>6, LedgerStep DEF RowInv

\* The account or a process ends the run and every delivery (set_paused, the
\* disconnect fence, a replaced authorization and recover_startup).
LEMMA StopStep ==
    ASSUME Inv, RowsStay(outbox'), Silent(outbox'), run' \in Runs, run'.gen = run.gen,
           run'.claim = 0 \/ run'.claim = run.claim, run'.leased => run'.state = "running",
           \A k \in Keys : outbox'[k].state # "delivering",
           account' \in {"active", "paused", "disconnecting"},
           worker' \in [Workers -> Process],
           UNCHANGED <<kind, item, coll, preview, mapping, foreign, providerVars>>,
           \A v \in Workers : worker'[v] = worker[v] \/ worker'[v] = Resting("idle")
    PROVE  Inv' /\ Promised
<1>i. Types /\ RunInv /\ RowInv
  BY DEF Inv
<1>1. outbox' \in [Keys -> Row]
  BY DEF RowsStay
<1>2. Types'
  BY <1>i, <1>1 DEF Types, providerVars
<1>3. ClaimsKept
  BY SMT DEF ClaimsKept, Active, Resting
<1>4. RunInv'
  BY <1>i, <1>3, RunEnds
<1>5. RevisionsGrow
  BY <1>i, SameRevisions
<1>6. \A v \in Workers : \/ worker'[v] = worker[v]
                         \/ worker'[v].pc \notin Busy /\ worker'[v].page \subseteq worker[v].page
  BY SMT DEF Resting, Busy
<1>7. \A j \in Items : preview'[j] # None => Consistent(preview'[j])
  BY <1>i DEF RowInv
<1> QED
  BY <1>2, <1>4, <1>5, <1>6, <1>7, LedgerStep

\* What ends with the claim and the lease of a run.
LEMMA Unclaimed ==
    ASSUME run \in Runs, NEW state \in {"idle", "backoff", "failed", "reauthorization_required"},
           run' = [run EXCEPT !.state = state, !.claim = 0, !.leased = FALSE]
    PROVE  /\ run' \in Runs /\ run'.gen = run.gen /\ run'.claim = 0
           /\ run'.leased => run'.state = "running"
BY ZeroIs DEF Runs

\* set_paused(true) ends every delivery with the run.
LEMMA PauseStep == ASSUME Inv, PauseAccount PROVE Inv' /\ Promised
<1>1. outbox \in [Keys -> Row] /\ run \in Runs /\ worker \in [Workers -> Process]
  BY DEF Inv, Types
<1>2. run' = [run EXCEPT !.state = "idle", !.claim = 0, !.leased = FALSE]
  BY DEF PauseAccount
<1>3. /\ run' \in Runs /\ run'.gen = run.gen /\ run'.claim = 0
      /\ run'.leased => run'.state = "running"
  BY <1>1, <1>2, Unclaimed
<1>4. outbox' = [k \in Keys |-> IF outbox[k].state = "delivering"
                                THEN Release(outbox[k], "backoff") ELSE outbox[k]]
  BY DEF PauseAccount
<1>5. RowsStay(outbox') /\ Silent(outbox')
  BY <1>1, <1>4, TakenBack
<1>6. \A k \in Keys : outbox'[k].state # "delivering"
  BY <1>1, <1>4, NoneDelivered
<1>7. /\ account' = "paused" /\ worker' = worker
      /\ UNCHANGED <<kind, item, coll, preview, mapping, foreign, providerVars>>
  BY DEF PauseAccount
<1> QED
  BY <1>1, <1>3, <1>5, <1>6, <1>7, StopStep

\* set_paused(false).
LEMMA ResumeStep == ASSUME Inv, ResumeAccount PROVE Inv' /\ Promised
<1>i. Types /\ RowInv
  BY DEF Inv
<1>1. /\ account' = "active"
      /\ UNCHANGED <<kind, item, coll, preview, ledgerVars, worker, providerVars, starts>>
  BY DEF ResumeAccount
<1>2. Types'
  BY <1>i, <1>1 DEF Types, ledgerVars, providerVars
<1>3. RevisionsGrow
  BY <1>i, <1>1, SameRevisions
<1> QED
  BY <1>i, <1>1, <1>2, <1>3, LocalStep DEF RowInv

\* The disconnect fence ends every delivery with the run.
LEMMA DisconnectStep == ASSUME Inv, DisconnectAccount PROVE Inv' /\ Promised
<1>1. outbox \in [Keys -> Row] /\ run \in Runs /\ worker \in [Workers -> Process]
  BY DEF Inv, Types
<1>2. run' = [run EXCEPT !.state = "idle", !.claim = 0, !.leased = FALSE]
  BY DEF DisconnectAccount
<1>3. /\ run' \in Runs /\ run'.gen = run.gen /\ run'.claim = 0
      /\ run'.leased => run'.state = "running"
  BY <1>1, <1>2, Unclaimed
<1>4. /\ outbox' = ConflictOpen /\ account' = "disconnecting" /\ worker' = worker
      /\ UNCHANGED <<kind, item, coll, preview, mapping, foreign, providerVars>>
  BY DEF DisconnectAccount
<1>5. RowsStay(outbox') /\ Silent(outbox')
  BY <1>1, <1>4, TakenBack
<1>6. \A k \in Keys : outbox'[k].state # "delivering"
  BY <1>1, <1>4, NoneDelivered
<1> QED
  BY <1>1, <1>3, <1>4, <1>5, <1>6, StopStep

\* A replaced authorization ends every delivery with the run.
LEMMA ReplaceStep == ASSUME Inv, ReplaceAuthorization PROVE Inv' /\ Promised
<1>1. outbox \in [Keys -> Row] /\ run \in Runs /\ worker \in [Workers -> Process]
  BY DEF Inv, Types
<1> DEFINE state == IF run.state \in {"running", "reauthorization_required"} THEN "idle" ELSE run.state
<1>2. /\ run' = [run EXCEPT !.state = state, !.claim = 0, !.leased = FALSE]
      /\ state \in {"idle", "backoff", "failed", "reauthorization_required"}
  BY <1>1 DEF ReplaceAuthorization, Runs
<1>3. /\ run' \in Runs /\ run'.gen = run.gen /\ run'.claim = 0
      /\ run'.leased => run'.state = "running"
  <2> HIDE DEF state
  <2> QED
    BY <1>1, <1>2, Unclaimed
<1>4. outbox' = [k \in Keys |-> IF outbox[k].state = "delivering"
                                THEN TakeBack(k, outbox[k], "backoff") ELSE outbox[k]]
  BY DEF ReplaceAuthorization
<1>5. RowsStay(outbox') /\ Silent(outbox')
  BY <1>1, <1>4, TakenBack
<1>6. \A k \in Keys : outbox'[k].state # "delivering"
  BY <1>1, <1>4, NoneDelivered
<1>7. /\ account' = "active" /\ worker' = worker
      /\ UNCHANGED <<kind, item, coll, preview, mapping, foreign, providerVars>>
  BY DEF ReplaceAuthorization
<1> QED
  BY <1>1, <1>3, <1>5, <1>6, <1>7, StopStep

\* recover_startup.
LEMMA StartStep == ASSUME Inv, NEW w \in Workers, Start(w) PROVE Inv' /\ Promised
<1>1. /\ outbox \in [Keys -> Row] /\ run \in Runs /\ worker \in [Workers -> Process]
      /\ account \in {"active", "paused", "disconnecting"} /\ RunInv
  BY DEF Inv, Types
<1>2. \/ run' = [run EXCEPT !.state = "backoff", !.claim = 0, !.leased = FALSE]
      \/ run' = run
  BY DEF Start
<1>3. /\ run' \in Runs /\ run'.gen = run.gen /\ (run'.claim = 0 \/ run'.claim = run.claim)
      /\ run'.leased => run'.state = "running"
  <2>1. CASE run' = [run EXCEPT !.state = "backoff", !.claim = 0, !.leased = FALSE]
    BY <1>1, <2>1, Unclaimed
  <2>2. CASE run' = run
    BY <1>1, <2>2 DEF RunInv
  <2> QED
    BY <1>2, <2>1, <2>2
<1>4. outbox' = [k \in Keys |-> IF outbox[k].state = "delivering"
                                THEN TakeBack(k, outbox[k], "backoff") ELSE outbox[k]]
  BY DEF Start
<1>5. RowsStay(outbox') /\ Silent(outbox')
  BY <1>1, <1>4, TakenBack
<1>6. \A k \in Keys : outbox'[k].state # "delivering"
  BY <1>1, <1>4, NoneDelivered
<1>7. /\ worker' = [worker EXCEPT ![w] = Resting("idle")] /\ account' = account
      /\ UNCHANGED <<kind, item, coll, preview, mapping, foreign, providerVars>>
  BY DEF Start, localVars
<1>8. /\ worker' \in [Workers -> Process] /\ worker'[w] = Resting("idle")
      /\ \A v \in Workers \ {w} : worker'[v] = worker[v]
  <2>1. Resting("idle") \in Process
    BY RestingType DEF Pcs
  <2> QED
    BY <1>1, <1>7, <2>1, Moved
<1> QED
  BY <1>1, <1>3, <1>5, <1>6, <1>7, <1>8, StopStep

(***************************************************************************)
(* Workers between rows                                                    *)
(***************************************************************************)
\* A worker puts its row down, or has none.
Rests(w, p) ==
    /\ p \in Process /\ p.pc \notin Busy /\ p.page \subseteq worker[w].page
    /\ p.pc \notin {"down", "idle"} => Active(w) /\ p.claim = worker[w].claim

\* A worker that puts its row down gains no claim and reads nothing.
LEMMA RestMoves ==
    ASSUME worker \in [Workers -> Process], NEW w \in Workers, NEW p, Rests(w, p),
           worker' = [worker EXCEPT ![w] = p]
    PROVE  /\ worker' \in [Workers -> Process] /\ ClaimsKept
           /\ \A v \in Workers : \/ worker'[v] = worker[v]
                                 \/ worker'[v].pc \notin Busy /\ worker'[v].page \subseteq worker[v].page
<1>1. p \in Process
  BY DEF Rests
<1>2. /\ worker' \in [Workers -> Process] /\ worker'[w] = p
      /\ \A v \in Workers \ {w} : worker'[v] = worker[v]
  BY <1>1, Moved
<1> QED
  BY <1>2 DEF Rests, ClaimsKept, Active

\* A worker puts its row down, or has none, and no row is opened.
LEMMA RestStep ==
    ASSUME Inv, NEW w \in Workers, NEW p, Rests(w, p), worker' = [worker EXCEPT ![w] = p],
           RowsStay(outbox'), Silent(outbox'),
           UNCHANGED <<kind, localVars, mapping, foreign, run, providerVars>>
    PROVE  Inv' /\ Promised
<1>i. Types /\ RunInv /\ RowInv
  BY DEF Inv
<1>1. /\ worker' \in [Workers -> Process] /\ ClaimsKept
      /\ \A v \in Workers : \/ worker'[v] = worker[v]
                            \/ worker'[v].pc \notin Busy /\ worker'[v].page \subseteq worker[v].page
  <2>1. worker \in [Workers -> Process]
    BY <1>i DEF Types
  <2> QED
    BY <2>1, RestMoves
<1>2. Types'
  <2>1. outbox' \in [Keys -> Row]
    BY DEF RowsStay
  <2> QED
    BY <1>i, <1>1, <2>1 DEF Types, localVars, providerVars
<1>3. RunInv'
  BY <1>i, <1>1, RunStays
<1>4. RevisionsGrow
  BY <1>i, SameRevisions DEF localVars
<1>5. \A j \in Items : preview'[j] # None => Consistent(preview'[j])
  BY <1>i DEF RowInv, localVars
<1> QED
  BY <1>1, <1>2, <1>3, <1>4, <1>5, LedgerStep

\* A process dies: its row stays in delivery until it is taken back.
LEMMA CrashStep == ASSUME Inv, NEW w \in Workers, Crash(w) PROVE Inv' /\ Promised
<1>1. Rests(w, Resting("down"))
  <2>1. Resting("down") \in Process
    BY RestingType DEF Pcs
  <2> QED
    BY <2>1 DEF Rests, Resting, Busy
<1>2. /\ worker' = [worker EXCEPT ![w] = Resting("down")] /\ outbox' = outbox
      /\ UNCHANGED <<kind, localVars, mapping, foreign, run, providerVars>>
  BY DEF Crash, ledgerVars
<1>3. RowsStay(outbox') /\ Silent(outbox')
  BY <1>2, RowsSame DEF Inv, Types
<1> QED
  BY <1>1, <1>2, <1>3, RestStep

\* The worker finds its run taken or the account paused.
LEMMA LoseRunStep == ASSUME Inv, NEW w \in Workers, LoseRun(w) PROVE Inv' /\ Promised
<1> DEFINE r == worker[w]
           p == [r EXCEPT !.pc = "failing"]
<1>1. worker \in [Workers -> Process] /\ r \in Process /\ r.pc = "outbound"
  BY DEF Inv, Types, LoseRun
<1>2. /\ worker' = [worker EXCEPT ![w] = p] /\ outbox' = outbox
      /\ UNCHANGED <<kind, localVars, mapping, foreign, run, providerVars>>
  BY DEF LoseRun, ledgerVars
<1>3. Rests(w, p)
  <2>1. p \in Process /\ p.pc = "failing" /\ p.page = r.page /\ p.claim = r.claim
    <3> HIDE DEF r
    <3> QED
      BY <1>1 DEF Process, Pcs
  <2> QED
    BY <1>1, <2>1 DEF Rests, Busy, Active
<1>4. RowsStay(outbox') /\ Silent(outbox')
  BY <1>2, RowsSame DEF Inv, Types
<1> HIDE DEF p
<1> QED
  BY <1>2, <1>3, <1>4, RestStep

\* The worker has applied its page.
LEMMA EndInboundStep == ASSUME Inv, NEW w \in Workers, EndInbound(w) PROVE Inv' /\ Promised
<1> DEFINE r == worker[w]
           p == [r EXCEPT !.pc = "outbound", !.coll = 0]
<1>1. worker \in [Workers -> Process] /\ r \in Process /\ r.pc = "page"
  BY DEF Inv, Types, EndInbound
<1>2. outbox' = outbox /\ UNCHANGED <<kind, localVars, mapping, foreign, run, providerVars>>
  BY DEF EndInbound, ledgerVars
<1>3. worker' = [worker EXCEPT ![w] = p]
  BY <1>1 DEF EndInbound
<1>4. Rests(w, p)
  <2>1. p \in Process /\ p.pc = "outbound" /\ p.page = r.page /\ p.claim = r.claim
    <3> HIDE DEF r
    <3> QED
      BY <1>1, ZeroIs DEF Process, Pcs
  <2> QED
    BY <1>1, <2>1 DEF Rests, Busy, Active
<1>5. RowsStay(outbox') /\ Silent(outbox')
  BY <1>2, RowsSame DEF Inv, Types
<1> HIDE DEF p
<1> QED
  BY <1>2, <1>3, <1>4, <1>5, RestStep

\* complete_claim and fail_claim.
LEMMA EndRunStep ==
    ASSUME Inv, NEW w \in Workers, EndRun(w, "idle") \/ \E state \in
               {"backoff", "reauthorization_required", "failed"} : EndRun(w, state)
    PROVE  Inv' /\ Promised
<1>i. Types /\ RunInv /\ outbox \in [Keys -> Row] /\ run \in Runs /\ worker \in [Workers -> Process]
  BY DEF Inv, Types
<1>1. PICK state \in {"idle", "backoff", "reauthorization_required", "failed"} : EndRun(w, state)
  OBVIOUS
<1>2. /\ worker' = [worker EXCEPT ![w] = Resting("idle")]
      /\ UNCHANGED <<kind, localVars, mapping, foreign, providerVars>>
  BY <1>1 DEF EndRun
<1>3. Rests(w, Resting("idle")) /\ Resting("idle") \in Process
  <2>1. Resting("idle") \in Process
    BY RestingType DEF Pcs
  <2> QED
    BY <2>1 DEF Rests, Resting, Busy
<1>4. CASE RunHeld(worker[w].claim)
  <2>1. /\ outbox' = EndChildren(worker[w].claim) /\ run.claim = worker[w].claim
        /\ run' = [run EXCEPT !.state = state, !.claim = 0, !.leased = FALSE]
    BY <1>1, <1>4 DEF EndRun, RunHeld, RunIs
  <2>2. /\ run' \in Runs /\ run'.gen = run.gen /\ run'.claim = 0
        /\ run'.leased => run'.state = "running"
    BY <1>i, <2>1, Unclaimed
  <2>3. RowsStay(outbox') /\ Silent(outbox')
    BY <1>i, <2>1, TakenBack
  <2>4. \A k \in Keys : outbox'[k].state # "delivering"
    BY <1>i, <2>1, NoneDelivered DEF RunInv, DeliveringIsOwned
  <2>5. /\ worker' \in [Workers -> Process] /\ worker'[w] = Resting("idle")
        /\ \A v \in Workers \ {w} : worker'[v] = worker[v]
    BY <1>i, <1>2, <1>3, Moved
  <2>6. /\ account' \in {"active", "paused", "disconnecting"}
        /\ UNCHANGED <<kind, item, coll, preview, mapping, foreign, providerVars>>
    BY <1>i, <1>2 DEF Types, localVars
  <2> QED
    BY <2>2, <2>3, <2>4, <2>5, <2>6, StopStep
<1>5. CASE ~RunHeld(worker[w].claim)
  <2>1. outbox' = outbox /\ run' = run
    BY <1>1, <1>5 DEF EndRun
  <2>2. RowsStay(outbox') /\ Silent(outbox')
    BY <1>i, <2>1, RowsSame
  <2> QED
    BY <1>2, <1>3, <2>1, <2>2, RestStep
<1> QED
  BY <1>4, <1>5

\* claim_due: whatever the run left behind is ended before it is claimed.
LEMMA ClaimDueStep == ASSUME Inv, NEW w \in Workers, ClaimDue(w) PROVE Inv' /\ Promised
<1>i. /\ Types /\ RunInv /\ RowInv
      /\ outbox \in [Keys -> Row] /\ run \in Runs /\ worker \in [Workers -> Process]
  BY DEF Inv, Types
<1>u. /\ UNCHANGED <<kind, item, account, coll, preview, mapping, foreign, providerVars>>
      /\ worker[w].pc = "idle"
  BY DEF ClaimDue, localVars
<1>1. /\ RowsStay(outbox') /\ Silent(outbox')
      /\ \A k \in Keys : outbox'[k].state # "delivering"
  <2>1. CASE Expired
    <3>1. outbox' = EndChildren(run.claim)
      BY <2>1 DEF ClaimDue
    <3> QED
      BY <1>i, <3>1, TakenBack, NoneDelivered DEF RunInv, DeliveringIsOwned
  <2>2. CASE ~Expired
    <3>1. outbox' = outbox /\ run.state \in {"idle", "backoff"}
      BY <2>2 DEF ClaimDue
    <3> QED
      BY <1>i, <3>1, RowsSame DEF RunInv, DeliveringIsOwned
  <2> QED
    BY <2>1, <2>2
<1>2. CASE /\ run.gen < MaxClaims
           /\ run' = [state |-> "running", claim |-> run.gen + 1, gen |-> run.gen + 1, leased |-> TRUE]
           /\ worker' = [worker EXCEPT ![w].pc = "inbound", ![w].claim = run.gen + 1]
  <2> DEFINE r == worker[w]
             g == run.gen + 1
             p == [r EXCEPT !.pc = "inbound", !.claim = g]
  <2>1. run.gen \in 0..MaxClaims /\ run.gen \in Nat /\ g \in 0..MaxClaims /\ g \in Nat /\ g \in 1..g
    <3>1. run.gen \in 0..MaxClaims
      BY <1>i DEF Runs
    <3> QED
      BY SMT, <1>2, <3>1, BoundsAre
  <2>2. worker' = [worker EXCEPT ![w] = p]
    BY <1>i, <1>2
  <2> HIDE DEF g
  <2>3. run' = [state |-> "running", claim |-> g, gen |-> g, leased |-> TRUE]
    BY <1>2 DEF g
  <2>4. p \in Process /\ p.pc = "inbound" /\ p.claim = g /\ p.page = r.page
    <3>1. r \in Process /\ "inbound" \in Pcs
      BY <1>i DEF Pcs
    <3> HIDE DEF r
    <3> QED
      BY <2>1, <3>1 DEF Process
  <2>5. /\ worker' \in [Workers -> Process] /\ worker'[w] = p
        /\ \A v \in Workers \ {w} : worker'[v] = worker[v]
    <3> HIDE DEF p
    <3> QED
      BY <1>i, <2>2, <2>4, Moved
  <2> HIDE DEF p
  <2>6. run' \in Runs /\ run'.state = "running" /\ run'.claim = g /\ run'.gen = g
    BY <2>1, <2>3 DEF Runs
  <2>7. Types'
    <3>1. outbox' \in [Keys -> Row]
      BY <1>1 DEF RowsStay
    <3> QED
      BY <1>i, <1>u, <2>5, <2>6, <3>1 DEF Types, providerVars
  <2>8. RunInv'
    <3>1. DeliveringIsOwned'
      BY <1>1 DEF DeliveringIsOwned
    <3>2. \A v \in Workers \ {w} : Active(v)' => worker'[v].claim \in 1..run.gen
      BY <1>i, <2>5 DEF RunInv, Active
    <3>3. \A c \in 1..run.gen : c \in 1..g /\ c # g
      BY SMT, <2>1 DEF g
    <3>4. \A v \in Workers : Active(v)' => worker'[v].claim \in 1..g
      BY <2>1, <2>4, <2>5, <3>2, <3>3
    <3>5. ASSUME NEW v \in Workers, NEW x \in Workers, Active(v)', Active(x)',
                 worker'[v].claim = worker'[x].claim
          PROVE  v = x
      BY <1>i, <2>4, <2>5, <3>2, <3>3, <3>5 DEF RunInv, Active
    <3> QED
      BY SMT, <2>1, <2>6, <3>1, <3>4, <3>5 DEF RunInv
  <2>9. RevisionsGrow
    BY <1>i, <1>u, SameRevisions
  <2>10. \A v \in Workers : \/ worker'[v] = worker[v]
                            \/ worker'[v].pc \notin Busy /\ worker'[v].page \subseteq worker[v].page
    BY <2>4, <2>5 DEF Busy
  <2>11. \A j \in Items : preview'[j] # None => Consistent(preview'[j])
    BY <1>i, <1>u DEF RowInv
  <2> QED
    BY <1>u, <1>1, <2>7, <2>8, <2>9, <2>10, <2>11, LedgerStep
<1>3. CASE Expired /\ run' = [run EXCEPT !.state = "backoff", !.claim = 0] /\ worker' = worker
  <2>1. /\ run' \in Runs /\ run'.gen = run.gen /\ run'.claim = 0 /\ ~run'.leased
    BY <1>i, <1>3, ZeroIs DEF Runs, Expired
  <2>2. account' \in {"active", "paused", "disconnecting"}
    BY <1>i, <1>u DEF Types
  <2> QED
    BY <1>i, <1>u, <1>1, <1>3, <2>1, <2>2, StopStep
<1> QED
  BY <1>2, <1>3 DEF ClaimDue

(***************************************************************************)
(* The feed                                                                *)
(***************************************************************************)
\* A page lists objects in the version they have now.
LEMMA ReadPageStep == ASSUME Inv, NEW w \in Workers, ReadPage(w) PROVE Inv' /\ Promised
<1>i. /\ Types /\ RunInv /\ RowInv /\ KnownInv
      /\ outbox \in [Keys -> Row] /\ worker \in [Workers -> Process]
  BY DEF Inv, Types
<1>u. /\ outbox' = outbox /\ UNCHANGED <<kind, localVars, mapping, foreign, run, providerVars>>
      /\ worker[w].pc = "inbound"
  BY DEF ReadPage, ledgerVars
<1> DEFINE r == worker[w]
<1>r. r \in Process /\ {"page", "failing"} \subseteq Pcs
  BY <1>i DEF Pcs
<1>1. RowsStay(outbox') /\ Silent(outbox')
  BY <1>i, <1>u, RowsSame
<1>2. ASSUME NEW listed \in SUBSET Objects,
             worker' = [worker EXCEPT ![w].pc = "page", ![w].coll = coll.rev,
                          ![w].page = {<<j[1], j[2], google[j[1]][j[2]]>> : j \in listed}]
      PROVE  Inv' /\ Promised
  <2> DEFINE page == {<<j[1], j[2], google[j[1]][j[2]]>> : j \in listed}
             c == coll.rev
             p == [r EXCEPT !.pc = "page", !.coll = c, !.page = page]
  <2>1. ASSUME NEW j \in listed
        PROVE  /\ j[1] \in Items /\ j[2] \in 1..2 /\ j[2] = 1 /\ Len(google[j[1]]) = 1
               /\ google[j[1]][1] \in Version /\ google[j[1]][1].etag \in Nat
    <3>1. j \in Items \X (1..2) /\ j[2] <= Len(google[j[1]])
      BY DEF Objects
    <3>2. j[1] \in Items /\ j[2] \in 1..2
      BY <3>1
    <3>3. Len(google[j[1]]) <= 1 /\ Len(google[j[1]]) \in Nat
      BY <1>i, <3>2, EtagsAre DEF KnownInv, OneObjectPerItem
    <3> DEFINE n == Len(google[j[1]])
               m == j[2]
    <3>4. m = 1 /\ n = 1
      <4>1. m <= n /\ n <= 1 /\ n \in Nat /\ m \in 1..2
        BY <3>1, <3>2, <3>3
      <4> HIDE DEF n, m
      <4> QED
        BY SMT, <4>1
    <3> QED
      BY <1>i, <3>2, <3>4, EtagsAre
  <2>2. page \in SUBSET (Items \X (1..2) \X Version)
    BY SMT, <2>1
  <2>3. c \in 0..MaxConfigs
    BY SMT, <1>i, BoundsAre DEF Types
  <2>4. worker' = [worker EXCEPT ![w] = p]
    BY <1>i, <1>2
  <2>5. p \in Process /\ p.pc = "page" /\ p.claim = r.claim /\ p.page = page
    <3> HIDE DEF page, r, c
    <3> QED
      BY <1>r, <2>2, <2>3 DEF Process
  <2>6. /\ worker' \in [Workers -> Process] /\ worker'[w] = p
        /\ \A v \in Workers \ {w} : worker'[v] = worker[v]
    <3> HIDE DEF p
    <3> QED
      BY <1>i, <2>4, <2>5, Moved
  <2>7. ASSUME NEW x \in page
        PROVE  /\ Known(x[1], x[2], x[3].etag, x[3].content) /\ Genuine(x[1], x[3].content)
               /\ x[3].live \/ x[3].content = 0
    <3>1. PICK j \in listed : x = <<j[1], j[2], google[j[1]][j[2]]>>
      OBVIOUS
    <3>2. google[j[1]] # <<>>
      BY SMT, <1>i, <2>1, EtagsAre
    <3>3. /\ Genuine(j[1], google[j[1]][1].content)
          /\ google[j[1]][1].live \/ google[j[1]][1].content = 0
      BY <1>i, <2>1, <3>2 DEF KnownInv
    <3>4. x[1] = j[1] /\ x[2] = 1 /\ x[3] = google[j[1]][1]
      BY <2>1, <3>1
    <3> QED
      BY SMT, <2>1, <3>3, <3>4 DEF Known
  <2> HIDE DEF p, page
  <2>8. Types'
    BY <1>i, <1>u, <2>6 DEF Types, localVars, providerVars
  <2>9. RunInv'
    <3>1. ClaimsKept
      BY <1>u, <2>5, <2>6 DEF ClaimsKept, Active
    <3> QED
      BY <1>i, <1>u, <1>1, <3>1, RunStays
  <2>10. google' = google /\ effects' = effects /\ flight' = flight /\ item' = item /\ preview' = preview
    BY <1>u DEF providerVars, localVars
  <2>11. Calm
    <3>1. RevisionsGrow
      BY <1>i, <2>10, SameRevisions
    <3>2. \A v \in Workers : worker'[v] = worker[v] \/ worker'[v].pc \notin Busy
      BY <2>5, <2>6 DEF Busy
    <3> QED
      BY <1>u, <1>1, <2>10, <3>1, <3>2, StaysSettle DEF Calm, Honest, Silent
  <2>12. ASSUME NEW v \in Workers PROVE PageKnown(v)'
    <3>1. CASE v = w
      BY <2>5, <2>6, <2>7, <2>10, <3>1 DEF PageKnown, Known, Genuine
    <3>2. CASE v # w
      BY ZenonT(30), <1>i, <2>6, <2>10, <3>2 DEF PageKnown, Known, Genuine, KnownInv
    <3> QED
      BY <3>1, <3>2
  <2>13. /\ \A i \in Items : preview'[i] # None => Consistent(preview'[i])
         /\ \A i \in Items : mapping'[i].remote = 0 => mapping'[i].etag = 0
    BY <1>i, <1>u, <2>10 DEF RowInv
  <2>14. \A i \in Items : mapping'[i].remote # 0 =>
             Known(i, mapping'[i].remote, mapping'[i].etag, mapping'[i].content)
    BY <1>i, <1>u DEF KnownInv
  <2> QED
    BY <2>8, <2>9, <2>11, <2>12, <2>13, <2>14, CalmStep
<1>3. ASSUME worker' = [worker EXCEPT ![w].pc = "failing"] PROVE Inv' /\ Promised
  <2> DEFINE p == [r EXCEPT !.pc = "failing"]
  <2>1. p \in Process /\ p.pc = "failing" /\ p.claim = r.claim /\ p.page = r.page
    <3> HIDE DEF r
    <3> QED
      BY <1>r DEF Process
  <2>2. Rests(w, p)
    BY <1>u, <2>1 DEF Rests, Busy, Active
  <2>3. worker' = [worker EXCEPT ![w] = p]
    BY <1>3
  <2> HIDE DEF p
  <2> QED
    BY <1>u, <1>1, <2>2, <2>3, RestStep
<1> QED
  BY <1>2, <1>3 DEF ReadPage

\* A mapping is written: what it names is or was at Google.
LEMMA MappingStep ==
    ASSUME Inv, NEW w \in Workers, NEW p, Rests(w, p), worker' = [worker EXCEPT ![w] = p],
           RowsStay(outbox'), Honest, NEW i \in Items, NEW m \in Mapping,
           mapping' = [mapping EXCEPT ![i] = m],
           m = mapping[i] \/ (m.remote # 0 /\ Known(i, m.remote, m.etag, m.content)),
           UNCHANGED <<kind, localVars, run, providerVars>>
    PROVE  Inv' /\ Promised
<1>i. /\ Types /\ RunInv /\ RowInv /\ WorkInv /\ KnownInv
      /\ mapping \in [Items -> Mapping] /\ worker \in [Workers -> Process]
  BY DEF Inv, Types
<1>1. /\ worker' \in [Workers -> Process] /\ ClaimsKept
      /\ \A v \in Workers : \/ worker'[v] = worker[v]
                            \/ worker'[v].pc \notin Busy /\ worker'[v].page \subseteq worker[v].page
  BY <1>i, RestMoves
<1>2. /\ mapping' \in [Items -> Mapping] /\ mapping'[i] = m
      /\ \A j \in Items \ {i} : mapping'[j] = mapping[j]
  BY <1>i
<1>3. Types'
  <2>1. outbox' \in [Keys -> Row]
    BY DEF RowsStay
  <2> QED
    BY <1>i, <1>1, <1>2, <2>1 DEF Types, localVars, providerVars
<1>4. RunInv'
  BY <1>i, <1>1, RunStays
<1>5. Calm
  <2>1. RevisionsGrow
    BY <1>i, SameRevisions DEF localVars
  <2> QED
    BY <1>1, <2>1, StaysSettle DEF Calm, providerVars
<1>6. IntentsKept /\ VersionsGrow
  BY <1>i, RowsStayKeep, SameVersions DEF providerVars
<1>7. ASSUME NEW v \in Workers PROVE PageKnown(v)'
  <2>1. PageKnown(v) /\ worker'[v].page \subseteq worker[v].page
    BY <1>i, <1>1 DEF KnownInv
  <2> QED
    BY <1>i, <1>3, <1>6, <2>1, WorkerKnows
<1>8. /\ \A j \in Items : preview'[j] # None => Consistent(preview'[j])
      /\ \A j \in Items : mapping'[j].remote = 0 => mapping'[j].etag = 0
  BY <1>i, <1>2 DEF RowInv, localVars
<1>9. \A j \in Items : mapping'[j].remote # 0 =>
          Known(j, mapping'[j].remote, mapping'[j].etag, mapping'[j].content)
  BY ZenonT(30), <1>i, <1>2 DEF KnownInv
<1> QED
  BY <1>3, <1>4, <1>5, <1>7, <1>8, <1>9, CalmStep

\* apply_remote_item.
LEMMA ApplyRemoteItemStep ==
    ASSUME Inv, NEW w \in Workers, ApplyRemoteItem(w) PROVE Inv' /\ Promised
<1>i. Types /\ KnownInv /\ outbox \in [Keys -> Row] /\ worker \in [Workers -> Process]
  BY DEF Inv, Types
<1>u. worker[w].pc = "page" /\ UNCHANGED <<kind, localVars, run, providerVars>>
  BY DEF ApplyRemoteItem
<1> DEFINE r == worker[w]
           held == RunHeld(worker[w].claim) /\ account = "active" /\ coll.rev = worker[w].coll
<1>r. r \in Process
  BY <1>i
<1>1. PICK x \in worker[w].page :
          IF held
          THEN LET d == IF x[3].live THEN ApplyLive(x[1], x[2], x[3]) ELSE ApplyGone(x[1], x[2], x[3])
               IN /\ outbox' = d.outbox
                  /\ mapping' = [mapping EXCEPT ![x[1]] = d.mapping]
                  /\ foreign' = [foreign EXCEPT ![x[1]] = d.foreign]
                  /\ worker' = [worker EXCEPT ![w].page = @ \ {x}]
          ELSE /\ worker' = [worker EXCEPT ![w].pc = "failing", ![w].page = {}]
               /\ UNCHANGED <<outbox, mapping, foreign>>
  BY DEF ApplyRemoteItem
<1>2. CASE held
  <2> DEFINE i == x[1]
             n == x[2]
             o == x[3]
             d == IF o.live THEN ApplyLive(i, n, o) ELSE ApplyGone(i, n, o)
             rest == r.page \ {x}
             p == [r EXCEPT !.page = rest]
  <2>1. /\ outbox' = d.outbox /\ mapping' = [mapping EXCEPT ![i] = d.mapping]
        /\ worker' = [worker EXCEPT ![w] = p]
    BY <1>1, <1>2
  <2>2. i \in Items /\ n \in Nat /\ n # 0 /\ o \in Version /\ o.content \in 0..MaxRevision
    <3>1. x \in Items \X (1..2) \X Version
      BY <1>r DEF Process
    <3>2. i \in Items /\ n \in 1..2 /\ o \in Version
      BY <3>1
    <3> HIDE DEF i, n, o
    <3> QED
      BY SMT, <3>2 DEF Version
  <2>3. Known(i, n, o.etag, o.content) /\ Genuine(i, o.content) /\ (o.live \/ o.content = 0)
    BY <1>i DEF KnownInv, PageKnown
  <2>4. Rests(w, p)
    <3>1. p \in Process /\ p.pc = r.pc /\ p.claim = r.claim /\ p.page = rest
      <4>1. rest \in SUBSET (Items \X (1..2) \X Version)
        BY <1>r DEF Process
      <4> HIDE DEF rest, r
      <4> QED
        BY <1>r, <4>1 DEF Process
    <3> QED
      BY <1>u, <3>1 DEF Rests, Busy, Active
  <2> HIDE DEF p, i, n, o
  <2>5. CASE o.live
    <3>1. d = ApplyLive(i, n, o)
      BY <2>5
    <3> HIDE DEF d
    <3>2. /\ RowsStay(d.outbox)
          /\ \A k \in Keys : d.outbox[k].state = "published" =>
                 outbox[k].state = "published" \/ k = <<i, o.content>>
          /\ d.mapping \in Mapping
          /\ \/ d.mapping = mapping[i]
             \/ d.mapping.remote = n /\ d.mapping.etag = o.etag /\ d.mapping.content = o.content
      BY SMT, <1>i, <2>2, <3>1, ApplyLiveIs
    <3>3. Honest
      <4>1. ASSUME NEW k \in Keys, k = <<i, o.content>> PROVE effects[k] = 1
        <5>1. o.content # 0
          BY <4>1, KeysAre, RevisionsAre
        <5> QED
          BY <2>3, <4>1, <5>1 DEF Genuine
      <4> QED
        BY <2>1, <3>2, <4>1 DEF Honest
    <3>4. d.mapping = mapping[i] \/ (d.mapping.remote # 0
              /\ Known(i, d.mapping.remote, d.mapping.etag, d.mapping.content))
      BY <2>2, <2>3, <3>2
    <3> QED
      BY <1>u, <2>1, <2>2, <2>4, <3>2, <3>3, <3>4, MappingStep
  <2>6. CASE ~o.live
    <3>1. d = ApplyGone(i, n, o)
      BY <2>6
    <3> HIDE DEF d
    <3>2. /\ RowsStay(d.outbox) /\ Silent(d.outbox)
          /\ d.mapping \in Mapping
          /\ \/ d.mapping = mapping[i]
             \/ d.mapping.remote = n /\ d.mapping.etag = o.etag /\ d.mapping.content = 0
      BY SMT, <1>i, <2>2, <3>1, ApplyGoneIs
    <3>3. Honest
      BY <2>1, <3>2 DEF Honest, Silent
    <3>4. d.mapping = mapping[i] \/ (d.mapping.remote # 0
              /\ Known(i, d.mapping.remote, d.mapping.etag, d.mapping.content))
      BY <2>2, <2>3, <2>6, <3>2
    <3> QED
      BY <1>u, <2>1, <2>2, <2>4, <3>2, <3>3, <3>4, MappingStep
  <2> QED
    BY <2>5, <2>6
<1>3. CASE ~held
  <2> DEFINE p == [r EXCEPT !.pc = "failing", !.page = {}]
  <2>1. worker' = [worker EXCEPT ![w] = p] /\ outbox' = outbox /\ mapping' = mapping /\ foreign' = foreign
    BY <1>i, <1>1, <1>3
  <2>2. Rests(w, p)
    <3>1. p \in Process /\ p.pc = "failing" /\ p.claim = r.claim /\ p.page = {}
      <4>1. {} \in SUBSET (Items \X (1..2) \X Version) /\ "failing" \in Pcs
        BY DEF Pcs
      <4> HIDE DEF r
      <4> QED
        BY <1>r, <4>1 DEF Process
    <3> QED
      BY <1>u, <3>1 DEF Rests, Busy, Active
  <2> HIDE DEF p
  <2>3. RowsStay(outbox') /\ Silent(outbox')
    BY <1>i, <2>1, RowsSame
  <2> QED
    BY <1>u, <2>1, <2>2, <2>3, RestStep
<1> QED
  BY <1>2, <1>3

(***************************************************************************)
(* The outcome of a delivery                                               *)
(***************************************************************************)
\* A row is ended and its mark taken off (cancel_outbound_before_send,
\* fail_outbound, revoke_outbound_after_provider).
LEMMA PostedReset ==
    ASSUME NEW r \in Row, NEW state \in Closed \cup {"backoff"}, r.state = "delivering",
           NEW u \in BOOLEAN
    PROVE  LET s == [Release(r, state) EXCEPT !.posted = FALSE]
               t == [Release(r, state) EXCEPT !.posted = FALSE, !.unresolved = u]
           IN /\ SameIntent(r, s) /\ s.state = state /\ ~s.posted
              /\ SameIntent(r, t) /\ t.state = state /\ ~t.posted
<1> DEFINE a == Release(r, state)
           s == [a EXCEPT !.posted = FALSE]
           t == [s EXCEPT !.unresolved = u]
<1>1. state \in States /\ state \notin {"none", "published"}
  BY DEF States, Open, Closed
<1>2. /\ a \in Row /\ a.state = state /\ a.op = r.op /\ a.coll = r.coll
      /\ a.remote = r.remote /\ a.etag = r.etag
  BY <1>1, ReleaseIs
<1> HIDE DEF a
<1>3. /\ s \in Row /\ s.state = state /\ s.op = a.op /\ s.coll = a.coll
      /\ s.remote = a.remote /\ s.etag = a.etag /\ ~s.posted
  BY <1>2 DEF Row
<1>s. s = [a EXCEPT !.posted = FALSE]
  OBVIOUS
<1>t. t = [a EXCEPT !.posted = FALSE, !.unresolved = u]
  OBVIOUS
<1> HIDE DEF s
<1>4. /\ t \in Row /\ t.state = state /\ t.op = s.op /\ t.coll = s.coll
      /\ t.remote = s.remote /\ t.etag = s.etag /\ ~t.posted
  BY <1>3 DEF Row
<1> HIDE DEF t
<1>5. SameIntent(r, s) /\ SameIntent(r, t)
  BY <1>1, <1>2, <1>3, <1>4 DEF SameIntent, Open
<1> QED
  BY <1>3, <1>4, <1>5, <1>s, <1>t DEF a

\* revoke_outbound_after_provider keeps the mark of a create that was sent.
LEMMA RevokedStays ==
    ASSUME NEW k, outbox[k] \in Row, outbox[k].state = "delivering",
           NEW state \in {"conflict", "superseded"}
    PROVE  Stay(k, outbox[k], Revoked(k, state)) /\ Revoked(k, state).state # "published"
<1> DEFINE r == outbox[k]
<1>1. state \in States \ {"none", "delivering"} /\ state \in Closed /\ state \notin Open
  BY DEF States, Closed, Open
<1>2. CASE Markerless(k) /\ r.posted
  <2>1. Revoked(k, state) = TakeBack(k, r, state)
    BY <1>2 DEF Revoked, TakeBack
  <2>2. Stay(k, r, TakeBack(k, r, state)) /\ TakeBack(k, r, state).state \in {state, "conflict"}
    BY <1>1, ReleaseStays
  <2> QED
    BY <2>1, <2>2
<1>3. CASE ~(Markerless(k) /\ r.posted)
  <2> DEFINE s == [Release(r, state) EXCEPT !.posted = FALSE]
  <2>1. Revoked(k, state) = s
    BY <1>3 DEF Revoked
  <2>2. SameIntent(r, s) /\ s.state = state /\ ~s.posted
    BY <1>1, PostedReset
  <2>3. s.posted \in BOOLEAN /\ r.posted \in BOOLEAN
    BY <2>2 DEF SameIntent, Row
  <2> HIDE DEF s
  <2> QED
    BY <1>3, <2>1, <2>2, <2>3 DEF Stay
<1> QED
  BY <1>2, <1>3

\* complete_outbound.
LEMMA CompleteStep == ASSUME Inv, NEW w \in Workers, CompleteOutbound(w) PROVE Inv' /\ Promised
<1>i. /\ Types /\ WorkInv /\ KnownInv /\ outbox \in [Keys -> Row]
      /\ worker \in [Workers -> Process] /\ mapping \in [Items -> Mapping]
  BY DEF Inv, Types
<1> DEFINE k == worker[w].key
           g == worker[w].claim
           n == worker[w].remote
           e == worker[w].etag
           r == outbox[k]
           c == IF r.op = "upsert" THEN k[2] ELSE 0
           m == [remote |-> n, etag |-> e, content |-> c, gone |-> r.op = "delete"]
<1>u. /\ worker[w].pc = "answer" /\ worker[w].answer = "ok"
      /\ worker' = [worker EXCEPT ![w] = Dropped(w)]
      /\ UNCHANGED <<kind, localVars, foreign, run, providerVars>>
  BY DEF CompleteOutbound
<1>1. k \in Keys /\ k[1] \in Items /\ k[2] \in Nat /\ r \in Row /\ n \in Nat /\ e \in Nat
  <2>1. k \in Keys
    BY <1>i, <1>u DEF WorkInv, Busy
  <2>2. worker[w] \in Process
    BY <1>i
  <2>3. n \in Nat /\ e \in Nat
    BY <2>2 DEF Process
  <2> QED
    BY <1>i, <2>1, <2>3, KeysAre, RevisionsAre
<1>2. effects[k] = 1 /\ Known(k[1], n, e, c)
  BY <1>i, <1>u DEF KnownInv, AnswerKnown, Content
<1>3. Rests(w, Dropped(w))
  <2>1. /\ Dropped(w) \in Process /\ Dropped(w).pc = "outbound"
        /\ Dropped(w).claim = worker[w].claim /\ Dropped(w).page = worker[w].page
    BY <1>i, DroppedIs
  <2> QED
    BY <1>u, <2>1 DEF Rests, Busy, Active
<1>4. CASE CompletionValid(k, g) /\ MappingUnchanged(k, n)
  <2> DEFINE s == Release(r, "published")
  <2>1. outbox' = [outbox EXCEPT ![k] = s] /\ mapping' = [mapping EXCEPT ![k[1]] = m]
    BY <1>4 DEF CompleteOutbound
  <2>2. r.state = "delivering"
    BY <1>4 DEF CompletionValid, RowHeld
  <2>3. Stay(k, r, s)
    BY <1>1, <2>2, ReleaseStays DEF States, Open
  <2>4. m \in Mapping
    <3>1. c \in Nat /\ (r.op = "delete") \in BOOLEAN
      BY <1>1
    <3> HIDE DEF c, n, e
    <3> QED
      BY <1>1, <3>1 DEF Mapping
  <2>5. m.remote # 0 /\ Known(k[1], m.remote, m.etag, m.content)
    <3> HIDE DEF c, n, e
    <3>1. m.remote = n /\ m.etag = e /\ m.content = c
      OBVIOUS
    <3> QED
      BY SMT, <1>2, <3>1 DEF Known
  <2> HIDE DEF s, m
  <2>6. RowsStay(outbox') /\ \A j \in Keys \ {k} : outbox'[j] = outbox[j]
    BY <1>i, <1>1, <2>1, <2>3, RowEnded
  <2>7. Honest
    BY <1>2, <2>6 DEF Honest
  <2> HIDE DEF k
  <2> QED
    BY <1>u, <1>1, <1>3, <2>1, <2>4, <2>5, <2>6, <2>7, MappingStep
<1>5. CASE ~(CompletionValid(k, g) /\ MappingUnchanged(k, n))
  <2>1. mapping' = mapping
    BY <1>5 DEF CompleteOutbound
  <2>2. CASE RunIs(g) /\ RowHeld(k, g)
    <3> DEFINE state == IF Current(k) THEN "conflict" ELSE "superseded"
               s == Revoked(k, state)
    <3>1. outbox' = [outbox EXCEPT ![k] = s]
      BY <1>5, <2>2 DEF CompleteOutbound
    <3>2. state \in {"conflict", "superseded"} /\ r.state = "delivering"
      BY <2>2 DEF RowHeld
    <3> HIDE DEF state
    <3>3. Stay(k, r, s) /\ s.state # "published"
      BY <1>1, <3>2, RevokedStays
    <3> HIDE DEF s
    <3>4. RowsStay(outbox') /\ outbox'[k] = s /\ \A j \in Keys \ {k} : outbox'[j] = outbox[j]
      BY <1>i, <1>1, <3>1, <3>3, RowEnded
    <3>5. Silent(outbox')
      BY <3>3, <3>4 DEF Silent
    <3> QED
      BY <1>u, <1>3, <2>1, <3>4, <3>5, RestStep
  <2>3. CASE ~(RunIs(g) /\ RowHeld(k, g))
    <3>1. outbox' = outbox
      BY <1>5, <2>3 DEF CompleteOutbound
    <3>2. RowsStay(outbox') /\ Silent(outbox')
      BY <1>i, <3>1, RowsSame
    <3> QED
      BY <1>u, <1>3, <2>1, <3>2, RestStep
  <2> QED
    BY <2>2, <2>3
<1> QED
  BY <1>4, <1>5

\* A delivery ends and takes the mark of its post off.
LEMMA UnmarkStep ==
    ASSUME Inv, NEW w \in Workers, NEW p, Rests(w, p), worker' = [worker EXCEPT ![w] = p],
           NEW k \in Keys, NEW s, outbox' = [outbox EXCEPT ![k] = s], SameIntent(outbox[k], s),
           s.state \notin {"delivering", "published"}, ~s.posted,
           Markerless(k) /\ outbox[k].posted => Quiet(k[1])',
           UNCHANGED <<kind, localVars, mapping, foreign, run, providerVars>>
    PROVE  Inv' /\ Promised
<1>i. /\ Types /\ RunInv /\ RowInv
      /\ outbox \in [Keys -> Row] /\ worker \in [Workers -> Process]
  BY DEF Inv, Types
<1>1. /\ worker' \in [Workers -> Process] /\ ClaimsKept
      /\ \A v \in Workers : \/ worker'[v] = worker[v]
                            \/ worker'[v].pc \notin Busy /\ worker'[v].page \subseteq worker[v].page
  BY <1>i, RestMoves
<1>2. outbox' \in [Keys -> Row] /\ outbox'[k] = s /\ \A j \in Keys \ {k} : outbox'[j] = outbox[j]
  <2>1. s \in Row
    BY DEF SameIntent
  <2> QED
    BY <1>i, <2>1
<1>3. ASSUME NEW j \in Keys PROVE Settled(j)
  <2>1. CASE j = k
    BY <1>2, <2>1 DEF Settled
  <2>2. CASE j # k
    <3>1. outbox'[j] = outbox[j] /\ outbox[j] \in Row
      BY <1>i, <1>2, <2>2
    <3> QED
      BY <3>1, StaysSame DEF Settled
  <2> QED
    BY <2>1, <2>2
<1>4. Types'
  BY <1>i, <1>1, <1>2 DEF Types, localVars, providerVars
<1>5. RunInv'
  <2>1. DeliveringIsOwned'
    BY <1>i, <1>2 DEF RunInv, DeliveringIsOwned
  <2>2. \A v \in Workers : Active(v)' => worker'[v].claim \in 1..run'.gen
    BY <1>i, <1>1 DEF RunInv, ClaimsKept
  <2>3. \A v, x \in Workers :
            Active(v)' /\ Active(x)' /\ worker'[v].claim = worker'[x].claim => v = x
    BY <1>i, <1>1 DEF RunInv, ClaimsKept
  <2> QED
    BY <1>i, <2>1, <2>2, <2>3 DEF RunInv
<1>6. Calm
  <2>1. RevisionsGrow
    BY <1>i, SameRevisions DEF localVars
  <2>2. Honest
    BY <1>2 DEF Honest
  <2> QED
    BY <1>1, <1>2, <1>3, <2>1, <2>2 DEF Calm, RowsSettle, providerVars
<1>7. /\ \A v \in Workers : worker'[v].page \subseteq worker[v].page
      /\ \A j \in Items : preview'[j] # None => Consistent(preview'[j])
  BY <1>i, <1>1 DEF RowInv, localVars
<1> QED
  BY <1>4, <1>5, <1>6, <1>7, CalmKeeps

\* A worker with a permit is the only one that could send its task.
LEMMA PermitIsAlone ==
    ASSUME Types, ThreatInv, NEW w \in Workers, NEW i \in Items, May(w, i)
    PROVE  /\ google[i] = <<>> /\ \A q \in flight : ~Asks(q, i)
           /\ \A v \in Workers : May(v, i) => v = w
<1>1. google[i] = <<>> /\ \A v \in Workers : May(v, i) => v = w
  BY DEF ThreatInv
<1>2. ASSUME NEW q \in flight, Asks(q, i) PROVE FALSE
  BY <1>2 DEF ThreatInv, Asks
<1> QED
  BY <1>1, <1>2

\* cancel_outbound_before_send.
LEMMA CancelStep == ASSUME Inv, NEW w \in Workers, CancelBeforeSend(w) PROVE Inv' /\ Promised
<1>i. /\ Types /\ WorkInv /\ ThreatInv
      /\ outbox \in [Keys -> Row] /\ worker \in [Workers -> Process]
  BY DEF Inv, Types
<1> DEFINE k == worker[w].key
           g == worker[w].claim
           r == outbox[k]
<1>u. /\ worker[w].pc = "permit" /\ worker' = [worker EXCEPT ![w] = Dropped(w)]
      /\ UNCHANGED <<kind, localVars, mapping, foreign, run, providerVars>>
  BY DEF CancelBeforeSend
<1>1. k \in Keys /\ k[1] \in Items /\ r \in Row
  BY <1>i, <1>u, KeysAre DEF WorkInv, Busy
<1>2. Rests(w, Dropped(w)) /\ Dropped(w).pc = "outbound"
  <2>1. /\ Dropped(w) \in Process /\ Dropped(w).pc = "outbound"
        /\ Dropped(w).claim = worker[w].claim /\ Dropped(w).page = worker[w].page
    BY <1>i, DroppedIs
  <2> QED
    BY <1>u, <2>1 DEF Rests, Busy, Active
<1>3. CASE RunIs(g) /\ RowHeld(k, g)
  <2> DEFINE s == [Release(r, "backoff") EXCEPT !.posted = FALSE]
  <2>1. outbox' = [outbox EXCEPT ![k] = s] /\ r.state = "delivering"
    BY <1>3 DEF CancelBeforeSend, RowHeld
  <2>2. SameIntent(r, s) /\ s.state = "backoff" /\ ~s.posted
    BY <1>1, <2>1, PostedReset
  <2> HIDE DEF s
  <2>3. ASSUME Markerless(k), r.posted, NEW i \in Items, i = k[1] PROVE Quiet(i)'
    <3>1. May(w, i)
      BY <1>u, <2>3 DEF May
    <3>2. /\ google[i] = <<>> /\ \A q \in flight : ~Asks(q, i)
          /\ \A v \in Workers : May(v, i) => v = w
      BY <1>i, <3>1, PermitIsAlone
    <3>3. IntentsKept
      <4>1. s \in Row
        BY <2>2 DEF SameIntent
      <4>2. \A j \in Keys : outbox'[j] = IF j = k THEN s ELSE outbox[j]
        BY <1>i, <1>1, <2>1
      <4>3. \A j \in Keys : outbox[j] \in Row
        BY <1>i
      <4>4. outbox' \in [Keys -> Row]
        BY <1>i, <1>1, <2>1, <4>1
      <4> QED
        BY <1>u, <2>2, <4>2, <4>3, <4>4, StaysSame DEF IntentsKept, Stay
    <3>4. \A q \in flight' : q \in flight /\ q.key \in Keys
      BY <1>i, <1>u DEF Types, providerVars
    <3>5. \A q \in flight' : ~Asks(q, i)'
      BY <3>2, <3>3, <3>4, MarkerlessKept DEF Asks
    <3>6. worker'[w] = Dropped(w) /\ \A v \in Workers \ {w} : worker'[v] = worker[v]
      BY <1>i, <1>u
    <3>7. ASSUME NEW v \in Workers, May(v, i)' PROVE FALSE
      <4>1. v # w /\ worker'[v] = worker[v] /\ worker[v].pc = "permit"
        BY <1>2, <3>6, <3>7 DEF May
      <4>2. worker[v].key \in Keys
        BY <1>i, <4>1 DEF WorkInv, Busy
      <4>3. May(v, i)
        BY <3>3, <3>7, <4>1, <4>2, MarkerlessKept DEF May
      <4> QED
        BY <3>2, <4>1, <4>3
    <3>8. google'[i] = <<>>
      BY <1>u, <3>2 DEF providerVars
    <3> QED
      BY <3>5, <3>7, <3>8 DEF Quiet
  <2>4. ASSUME NEW j \in Keys, j = k, Markerless(j), outbox[j].posted PROVE Quiet(j[1])'
    BY <1>1, <2>3, <2>4 DEF Quiet, Asks, May
  <2>5. \E j \in Keys : j = k
    BY <1>1
  <2> HIDE DEF k, r
  <2>6. PICK j \in Keys : j = k
    BY <2>5
  <2> QED
    BY <1>u, <1>2, <2>1, <2>2, <2>4, <2>6, UnmarkStep DEF r
<1>4. CASE ~(RunIs(g) /\ RowHeld(k, g))
  <2>1. outbox' = outbox
    BY <1>4 DEF CancelBeforeSend
  <2>2. RowsStay(outbox') /\ Silent(outbox')
    BY <1>i, <2>1, RowsSame
  <2> QED
    BY <1>u, <1>2, <2>2, RestStep
<1> QED
  BY <1>3, <1>4

\* One row changes and keeps its intent.
LEMMA RowChanges ==
    ASSUME outbox \in [Keys -> Row], kind' = kind, NEW k \in Keys, NEW s,
           SameIntent(outbox[k], s), outbox' = [outbox EXCEPT ![k] = s]
    PROVE  /\ IntentsKept /\ outbox'[k] = s /\ \A j \in Keys \ {k} : outbox'[j] = outbox[j]
<1>1. s \in Row
  BY DEF SameIntent
<1>2. /\ outbox' \in [Keys -> Row] /\ outbox'[k] = s
      /\ \A j \in Keys \ {k} : outbox'[j] = outbox[j]
  BY <1>1
<1>3. \A j \in Keys : SameIntent(outbox[j], outbox[j])
  BY StaysSame DEF Stay
<1> QED
  BY <1>2, <1>3 DEF IntentsKept

\* fail_outbound: the mark goes when Google said that nothing was created.
LEMMA FailStep == ASSUME Inv, NEW w \in Workers, FailOutbound(w) PROVE Inv' /\ Promised
<1>i. /\ Types /\ WorkInv /\ HolderInv
      /\ outbox \in [Keys -> Row] /\ worker \in [Workers -> Process]
  BY DEF Inv, Types
<1> DEFINE g == worker[w].claim
           answer == worker[w].answer
<1>u. /\ worker[w].pc = "answer" /\ answer # "ok"
      /\ UNCHANGED <<kind, localVars, mapping, foreign, run, providerVars>>
  BY DEF FailOutbound
<1>1. PICK k \in Keys : k = worker[w].key
  BY <1>i, <1>u DEF WorkInv, Busy
<1> DEFINE r == outbox[k]
           held == RunIs(g) /\ RowHeld(k, g)
           p == IF held /\ answer \notin {"limited", "transient"} THEN Dropped(w)
                ELSE [Dropped(w) EXCEPT !.pc = "failing"]
<1>2. r \in Row /\ k[1] \in Items
  BY <1>i, KeysAre
<1>3. worker' = [worker EXCEPT ![w] = p]
  BY <1>1 DEF FailOutbound
<1>4. Rests(w, p) /\ p.pc # "permit"
  <2>1. /\ Dropped(w) \in Process /\ Dropped(w).pc = "outbound"
        /\ Dropped(w).claim = worker[w].claim /\ Dropped(w).page = worker[w].page
        /\ [Dropped(w) EXCEPT !.pc = "failing"] \in Process
        /\ [Dropped(w) EXCEPT !.pc = "failing"].pc = "failing"
        /\ [Dropped(w) EXCEPT !.pc = "failing"].claim = worker[w].claim
        /\ [Dropped(w) EXCEPT !.pc = "failing"].page = worker[w].page
    BY <1>i, DroppedIs
  <2> QED
    BY <1>u, <2>1 DEF Rests, Busy, Active
<1> HIDE DEF p
<1>5. CASE ~held
  <2>1. outbox' = outbox
    BY <1>1, <1>5 DEF FailOutbound
  <2>2. RowsStay(outbox') /\ Silent(outbox')
    BY <1>i, <2>1, RowsSame
  <2> QED
    BY <1>u, <1>3, <1>4, <2>2, RestStep
<1>6. CASE held /\ PreserveUncertainty(k, answer) /\ r.posted
  <2> DEFINE s == TakeBack(k, r, "conflict")
  <2>1. outbox' = [outbox EXCEPT ![k] = s] /\ r.state = "delivering"
    BY <1>1, <1>6 DEF FailOutbound, TakeBack, PreserveUncertainty, RowHeld
  <2>2. Ended(k, r, s)
    BY <2>1 DEF Ended, Closed
  <2> HIDE DEF s
  <2>3. Stay(k, r, s) /\ (s.state = "published" => r.state = "published")
    BY <1>2, <2>2, EndedStays
  <2>4. RowsStay(outbox') /\ outbox'[k] = s /\ \A j \in Keys \ {k} : outbox'[j] = outbox[j]
    BY <1>i, <2>1, <2>3, RowEnded
  <2>5. Silent(outbox')
    BY <2>3, <2>4 DEF Silent
  <2> QED
    BY <1>u, <1>3, <1>4, <2>4, <2>5, RestStep
<1>7. CASE held /\ ~(PreserveUncertainty(k, answer) /\ r.posted)
  <2> DEFINE state == FailedState(answer)
             u == answer = "unresolved"
             s == [Release(r, state) EXCEPT !.posted = FALSE, !.unresolved = u]
  <2>1. outbox' = [outbox EXCEPT ![k] = s] /\ r.state = "delivering"
    BY <1>1, <1>7 DEF FailOutbound, RowHeld
  <2>2. state \in Closed \cup {"backoff"} /\ u \in BOOLEAN /\ state \notin {"delivering", "published"}
    BY DEF FailedState, Closed
  <2>3. SameIntent(r, s) /\ s.state = state /\ ~s.posted
    <3> HIDE DEF state, u
    <3> QED
      BY <1>2, <2>1, <2>2, PostedReset
  <2> HIDE DEF s
  <2>4. ASSUME Markerless(k), r.posted PROVE Quiet(k[1])'
    <3>1. answer \in Explicit
      BY <1>7, <2>4 DEF PreserveUncertainty
    <3>2. Holder(w)
      BY <1>i DEF HolderInv
    <3>3. Quiet(k[1])
      BY <1>u, <1>1, <1>7, <2>4, <3>1, <3>2 DEF Holder, Busy
    <3>4. IntentsKept
      BY <1>i, <1>u, <2>1, <2>3, RowChanges
    <3>5. NothingSent
      <4>1. worker'[w] = p /\ \A v \in Workers \ {w} : worker'[v] = worker[v]
        BY <1>i, <1>3
      <4> QED
        BY <1>u, <1>4, <4>1 DEF NothingSent, providerVars
    <3> QED
      BY <1>i, <1>2, <3>3, <3>4, <3>5, QuietStays
  <2>5. s.state \notin {"delivering", "published"}
    BY <2>2, <2>3
  <2> QED
    BY <1>u, <1>3, <1>4, <2>1, <2>3, <2>4, <2>5, UnmarkStep
<1> QED
  BY <1>5, <1>6, <1>7

(***************************************************************************)
(* Busy workers                                                            *)
(***************************************************************************)
\* A worker moves on with its row; nothing else changes.
Moves(w, p) ==
    /\ p \in Process /\ p.pc \in Busy \ {"permit"} /\ p.page = worker[w].page
    /\ p.claim = worker[w].claim /\ p.key = worker[w].key
    /\ worker[w].pc \in Busy
    /\ p.pc \in {"lookup", "found"} => worker[w].pc \in {"lookup", "found"}

\* A worker that goes on with its row, neither sending nor writing, keeps the
\* invariant when what it was told is true.
LEMMA MoveStep ==
    ASSUME Inv, NEW w \in Workers, NEW p, Moves(w, p), worker' = [worker EXCEPT ![w] = p],
           flight' \subseteq flight, Holder(w)', AnswerKnown(w)',
           UNCHANGED <<kind, localVars, ledgerVars, google, effects>>
    PROVE  Inv' /\ Promised
<1>i. /\ Types /\ RunInv /\ RowInv /\ WorkInv /\ ThreatInv /\ HolderInv /\ KnownInv
      /\ outbox \in [Keys -> Row] /\ worker \in [Workers -> Process]
  BY DEF Inv, Types
<1>u. /\ kind' = kind /\ item' = item /\ preview' = preview /\ outbox' = outbox
      /\ mapping' = mapping /\ run' = run /\ google' = google /\ effects' = effects
      /\ account' = account /\ coll' = coll
  BY DEF localVars, ledgerVars
<1>1. /\ worker' \in [Workers -> Process] /\ worker'[w] = p
      /\ \A v \in Workers \ {w} : worker'[v] = worker[v]
  <2>1. p \in Process
    BY DEF Moves
  <2> QED
    BY <1>i, <2>1, Moved
<1>2. RowsStay(outbox') /\ Silent(outbox')
  BY <1>i, <1>u, RowsSame
<1>3. Types'
  BY <1>i, <1>u, <1>1 DEF Types
<1>4. IntentsKept /\ RevisionsGrow
  BY <1>i, <1>u, <1>2, RowsStayKeep, SameRevisions
<1>5. NothingSent
  BY <1>u, <1>1 DEF NothingSent, Moves
<1>6. RunInv'
  <2>1. ClaimsKept
    BY <1>1 DEF ClaimsKept, Active, Moves, Busy
  <2> QED
    BY <1>i, <1>u, <1>2, <2>1, RunStays
<1>7. RowInv'
  BY <1>i, <1>u DEF RowInv
<1>8. WorkInv'
  <2>1. ASSUME NEW v \in Workers, worker'[v].pc \in Busy
        PROVE  /\ worker'[v].key \in Keys /\ outbox[worker'[v].key].state # "none"
               /\ worker'[v].pc \in {"lookup", "found"} =>
                      kind[worker'[v].key[1]] = "event" /\ IsCreate(outbox[worker'[v].key])
    <3>1. CASE v = w
      BY <1>i, <1>1, <3>1 DEF WorkInv, Moves
    <3>2. CASE v # w
      BY <1>i, <1>1, <2>1, <3>2 DEF WorkInv
    <3> QED
      BY <3>1, <3>2
  <2> QED
    BY <1>i, <1>4, <2>1, WorkInvStays
<1>9. ThreatInv'
  BY <1>i, <1>u, <1>3, <1>4, <1>5, ThreatStays
<1>10. ASSUME NEW v \in Workers PROVE Holder(v)'
  <2>1. CASE v = w
    BY <2>1
  <2>2. CASE v # w
    <3>1. worker'[v] = worker[v]
      BY <1>1, <2>2
    <3>2. worker[v].pc \in Busy => worker[v].key \in Keys
      BY <1>i DEF WorkInv
    <3>3. worker[v].pc \in Busy =>
              Stay(worker[v].key, outbox[worker[v].key], outbox'[worker[v].key])
      BY <1>2, <3>2 DEF RowsStay
    <3> QED
      BY <1>i, <1>4, <1>5, <3>1, <3>3, HolderStays
  <2> QED
    BY <2>1, <2>2
<1>11. KnownInv'
  <2>1. VersionsGrow
    BY <1>i, <1>u, SameVersions
  <2>2. ASSUME NEW v \in Workers PROVE PageKnown(v)' /\ AnswerKnown(v)'
    <3>1. PageKnown(v) /\ AnswerKnown(v) /\ worker'[v].page \subseteq worker[v].page
      BY <1>i, <1>1 DEF KnownInv, Moves
    <3>2. PageKnown(v)'
      BY <1>i, <1>3, <1>4, <2>1, <3>1, WorkerKnows
    <3>3. CASE v = w
      BY <3>2, <3>3
    <3>4. CASE v # w
      <4>1. worker'[v] = worker[v]
        BY <1>1, <3>4
      <4> QED
        BY <1>i, <1>3, <1>4, <2>1, <3>1, <3>2, <4>1, WorkerKnows
    <3> QED
      BY <3>3, <3>4
  <2>3. \A i \in Items : mapping'[i].remote # 0 =>
            Known(i, mapping'[i].remote, mapping'[i].etag, mapping'[i].content)
    BY <1>i, <1>u DEF KnownInv
  <2> QED
    BY <1>i, <1>u, <1>4, <2>2, <2>3, KnownInvStays
<1>12. Promised
  BY <1>i, <1>u, <1>2, <1>4, SettleStep DEF Honest, Silent
<1> QED
  BY <1>3, <1>6, <1>7, <1>8, <1>9, <1>10, <1>11, <1>12 DEF Inv, HolderInv
\* A worker that looks up or found an event holds no task's row.
LEMMA EventHolder ==
    ASSUME NEW w \in Workers, NEW k \in Keys, worker'[w].key = k, kind'[k[1]] = "event"
    PROVE  Holder(w)'
BY DEF Holder, Markerless

\* get_event before the create of an event: what is found is adopted only
\* when a write of this very row put it there.
LEMMA LookUpStep == ASSUME Inv, NEW w \in Workers, LookUpEvent(w) PROVE Inv' /\ Promised
<1>i. /\ Types /\ WorkInv /\ KnownInv /\ kind \in [Items -> {"task", "event"}]
      /\ outbox \in [Keys -> Row] /\ worker \in [Workers -> Process]
  BY DEF Inv, Types
<1>u. /\ worker[w].pc = "lookup" /\ outbox' = outbox /\ flight' \subseteq flight
      /\ UNCHANGED <<kind, localVars, ledgerVars, google, effects>>
      /\ UNCHANGED <<kind, localVars, mapping, foreign, run, providerVars>>
  BY DEF LookUpEvent, ledgerVars, providerVars
<1>1. PICK k \in Keys : k = worker[w].key
  BY <1>i, <1>u DEF WorkInv, Busy
<1>2. k[1] \in Items /\ kind[k[1]] = "event" /\ IsCreate(outbox[k]) /\ kind'[k[1]] = "event"
  BY <1>i, <1>u, <1>1, KeysAre DEF WorkInv
<1> DEFINE objects == google[k[1]]
           o == objects[1]
           ready == [worker[w] EXCEPT !.pc = "ready"]
           found == [worker[w] EXCEPT !.pc = "found", !.remote = 1, !.etag = o.etag]
           stale == Answered(w, "stale")
<1>3. \/ worker' = [worker EXCEPT ![w] = Dropped(w)]
      \/ worker' = [worker EXCEPT ![w] = ready]
      \/ /\ worker' = [worker EXCEPT ![w] = found]
         /\ objects # <<>> /\ MatchesIntent(o, k)
      \/ worker' = [worker EXCEPT ![w] = stale]
  BY <1>1 DEF LookUpEvent
<1>p. worker[w] \in Process /\ {"ready", "found", "answer"} \subseteq Pcs /\ 1 \in Nat
  BY <1>i DEF Pcs
<1>4. CASE worker' = [worker EXCEPT ![w] = Dropped(w)]
  <2>1. Rests(w, Dropped(w))
    <3>1. /\ Dropped(w) \in Process /\ Dropped(w).pc = "outbound"
          /\ Dropped(w).claim = worker[w].claim /\ Dropped(w).page = worker[w].page
      BY <1>i, DroppedIs
    <3> QED
      BY <1>u, <3>1 DEF Rests, Busy, Active
  <2>2. RowsStay(outbox') /\ Silent(outbox')
    BY <1>i, <1>u, RowsSame
  <2> QED
    BY <1>4, <1>u, <2>1, <2>2, RestStep
<1>5. CASE worker' = [worker EXCEPT ![w] = ready]
  <2>1. /\ ready \in Process /\ ready.pc = "ready" /\ ready.page = worker[w].page
        /\ ready.claim = worker[w].claim /\ ready.key = worker[w].key
    BY <1>p DEF Process
  <2> HIDE DEF ready
  <2>2. Moves(w, ready)
    BY <1>u, <2>1 DEF Moves, Busy
  <2>3. worker'[w] = ready
    BY <1>i, <1>5
  <2>4. Holder(w)' /\ AnswerKnown(w)'
    BY <1>1, <1>2, <2>1, <2>3, EventHolder DEF AnswerKnown
  <2> QED
    BY <1>u, <1>5, <2>2, <2>4, MoveStep
<1>6. CASE /\ worker' = [worker EXCEPT ![w] = found]
           /\ objects # <<>> /\ MatchesIntent(o, k)
  <2>0. Len(objects) = 1 /\ o.etag \in Nat /\ o.content = k[2] /\ Genuine(k[1], o.content)
    <3>1. Len(objects) = 1
      <4> DEFINE n == Len(objects)
      <4>1. n \in Nat /\ n # 0 /\ n <= 1
        BY <1>i, <1>2, <1>6, EtagsAre DEF KnownInv, OneObjectPerItem
      <4> HIDE DEF n
      <4>2. n = 1
        BY SMT, <4>1
      <4> QED
        BY <4>2 DEF n
    <3>2. o.etag \in Nat
      BY <1>i, <1>2, <3>1, EtagsAre
    <3> QED
      BY <1>i, <1>2, <1>6, <3>1, <3>2 DEF KnownInv, MatchesIntent
  <2>1. /\ found \in Process /\ found.pc = "found" /\ found.page = worker[w].page
        /\ found.claim = worker[w].claim /\ found.key = worker[w].key
        /\ found.remote = 1 /\ found.etag = o.etag
    <3> DEFINE e == o.etag
    <3>1. e \in Nat /\ found = [worker[w] EXCEPT !.pc = "found", !.remote = 1, !.etag = e]
      BY <2>0
    <3> HIDE DEF e, found
    <3>2. /\ found \in Process /\ found.pc = "found" /\ found.page = worker[w].page
          /\ found.claim = worker[w].claim /\ found.key = worker[w].key
          /\ found.remote = 1 /\ found.etag = e
      BY <1>p, <3>1 DEF Process
    <3> QED
      BY <3>2 DEF e
  <2> HIDE DEF found
  <2>2. Moves(w, found)
    BY <1>u, <2>1 DEF Moves, Busy
  <2>3. worker'[w] = found
    BY <1>i, <1>6
  <2>4. effects[k] = 1
    <3>1. k[2] # 0 /\ k = <<k[1], k[2]>>
      BY SMT, KeysAre DEF Keys, Revisions
    <3> QED
      BY <2>0, <3>1 DEF Genuine
  <2>5. Content(k) = k[2]
    BY <1>2 DEF Content, IsCreate
  <2>6. o.etag <= o.etag
    BY SMT, <2>0
  <2>7. Known(k[1], 1, o.etag, Content(k))
    BY <2>0, <2>5, <2>6 DEF Known
  <2>8. AnswerKnown(w)'
    BY <1>u, <1>1, <2>1, <2>3, <2>4, <2>7 DEF AnswerKnown, Known, Content
  <2>9. Holder(w)'
    BY <1>1, <1>2, <2>1, <2>3, EventHolder
  <2> QED
    BY <1>u, <1>6, <2>2, <2>8, <2>9, MoveStep
<1>7. CASE worker' = [worker EXCEPT ![w] = stale]
  <2>1. /\ stale \in Process /\ stale.pc = "answer" /\ stale.page = worker[w].page
        /\ stale.claim = worker[w].claim /\ stale.key = worker[w].key /\ stale.answer = "stale"
    BY SMT, <1>i, AnsweredIs DEF Answers, Explicit
  <2> HIDE DEF stale
  <2>2. Moves(w, stale)
    BY <1>u, <2>1 DEF Moves, Busy
  <2>3. worker'[w] = stale
    BY <1>i, <1>7
  <2>4. Holder(w)' /\ AnswerKnown(w)'
    BY <1>1, <1>2, <2>1, <2>3, EventHolder DEF AnswerKnown
  <2> QED
    BY <1>u, <1>7, <2>2, <2>4, MoveStep
<1> QED
  BY <1>3, <1>4, <1>5, <1>6, <1>7

\* A worker gets an answer that is not a success; one that says that nothing
\* was created is the truth.
LEMMA AnswerStep ==
    ASSUME Inv, NEW w \in Workers, NEW answer \in Answers \ {"ok"}, worker[w].pc \in Busy,
           worker' = [worker EXCEPT ![w] = Answered(w, answer)], flight' \subseteq flight,
           NEW k \in Keys, k = worker[w].key,
           /\ answer \in Explicit /\ Markerless(k) /\ RowHeld(k, worker[w].claim)
           /\ outbox[k].posted
           => Quiet(k[1])',
           UNCHANGED <<kind, localVars, ledgerVars, google, effects>>
    PROVE  Inv' /\ Promised
<1>i. worker \in [Workers -> Process]
  BY DEF Inv, Types
<1>1. PICK p : p = Answered(w, answer)
  OBVIOUS
<1>2. /\ p \in Process /\ p.pc = "answer" /\ p.page = worker[w].page
      /\ p.claim = worker[w].claim /\ p.key = worker[w].key /\ p.answer = answer
  BY SMT, <1>i, <1>1, AnsweredIs
<1>3. worker' = [worker EXCEPT ![w] = p] /\ worker'[w] = p
  BY <1>i, <1>1
<1>4. Moves(w, p)
  BY <1>2 DEF Moves, Busy
<1>5. AnswerKnown(w)'
  BY <1>2, <1>3 DEF AnswerKnown
<1>6. Holder(w)'
  <2>1. kind' = kind /\ outbox' = outbox
    BY DEF ledgerVars
  <2> QED
    BY <1>2, <1>3, <2>1 DEF Holder, Markerless, RowHeld
<1> QED
  BY <1>3, <1>4, <1>5, <1>6, MoveStep

\* The lookup or the preparation of the request fails.
LEMMA PrepareFailsStep == ASSUME Inv, NEW w \in Workers, PrepareFails(w) PROVE Inv' /\ Promised
<1>1. PICK answer \in {"limited", "transient"} : worker' = [worker EXCEPT ![w] = Answered(w, answer)]
  BY DEF PrepareFails
<1>2. answer \in Answers \ {"ok"}
  BY DEF Answers, Explicit
<1>3. worker[w].pc \in {"lookup", "ready"} /\ worker[w].pc \in Busy
  BY DEF PrepareFails, Busy
<1>4. PICK k \in Keys : k = worker[w].key
  BY <1>3 DEF Inv, WorkInv
<1>5. /\ flight' \subseteq flight /\ UNCHANGED <<kind, localVars, ledgerVars, google, effects>>
  BY DEF PrepareFails, providerVars
<1>6. Markerless(k) /\ RowHeld(k, worker[w].claim) => ~outbox[k].posted
  <2>1. CASE worker[w].pc = "lookup"
    BY <1>4, <2>1 DEF Inv, WorkInv, Markerless
  <2>2. CASE worker[w].pc = "ready"
    BY <1>3, <1>4, <2>2 DEF Inv, HolderInv, Holder
  <2> QED
    BY <1>3, <2>1, <2>2
<1> QED
  BY <1>1, <1>2, <1>3, <1>4, <1>5, <1>6, AnswerStep

\* No answer comes.
LEMMA LoseAnswerStep == ASSUME Inv, NEW w \in Workers, LoseAnswer(w) PROVE Inv' /\ Promised
<1>1. PICK answer \in {"unresolved", "transient"} : worker' = [worker EXCEPT ![w] = Answered(w, answer)]
  BY DEF LoseAnswer
<1>2. answer \in Answers \ {"ok"} /\ answer \notin Explicit
  BY DEF Answers, Explicit
<1>3. worker[w].pc \in Busy
  BY DEF LoseAnswer, Busy
<1>4. PICK k \in Keys : k = worker[w].key
  BY <1>3 DEF Inv, WorkInv
<1>5. /\ flight' \subseteq flight /\ UNCHANGED <<kind, localVars, ledgerVars, google, effects>>
  BY DEF LoseAnswer, providerVars
<1> QED
  BY <1>1, <1>2, <1>3, <1>4, <1>5, AnswerStep

\* Google refuses a request: it was the only one for its task.
LEMMA RefuseStep == ASSUME Inv, NEW q \in flight, Refuse(q) PROVE Inv' /\ Promised
<1>i. Types /\ RunInv /\ RowInv /\ WorkInv /\ ThreatInv /\ worker \in [Workers -> Process]
  BY DEF Inv, Types
<1>u. /\ flight' = flight \ {q} /\ flight' \subseteq flight
      /\ UNCHANGED <<kind, localVars, ledgerVars, google, effects>>
  BY DEF Refuse
<1>q. q.by \in Workers /\ q.key \in Keys /\ q.key[1] \in Items
  BY <1>i, KeysAre DEF Types
<1>1. CASE Waits(q)
  <2>1. PICK answer \in {"rejected", "limited", "stale"} :
            worker' = [worker EXCEPT ![q.by] = Answered(q.by, answer)]
    BY <1>1 DEF Refuse
  <2>2. answer \in Answers \ {"ok"}
    BY DEF Answers, Explicit
  <2>3. worker[q.by].pc \in Busy /\ q.key = worker[q.by].key
    BY <1>1 DEF Waits, Busy
  <2>4. ASSUME Markerless(q.key) PROVE Quiet(q.key[1])'
    <3>1. /\ google[q.key[1]] = <<>>
          /\ \A p \in flight : Asks(p, q.key[1]) => p = q
          /\ \A v \in Workers : ~May(v, q.key[1])
      BY <1>i, <2>4 DEF ThreatInv
    <3>2. kind' = kind /\ outbox' = outbox /\ google' = google
      BY <1>u DEF ledgerVars
    <3>3. \A p \in flight' : ~Asks(p, q.key[1])'
      BY <1>u, <3>1, <3>2 DEF Asks, Markerless
    <3>4. ASSUME NEW v \in Workers, May(v, q.key[1])' PROVE FALSE
      <4>1. worker'[v] = worker[v]
        <5>1. worker'[q.by].pc = "answer" /\ \A x \in Workers \ {q.by} : worker'[x] = worker[x]
          BY SMT, <1>i, <1>q, <2>1, <2>2, AnsweredIs
        <5> QED
          BY <3>4, <5>1 DEF May
      <4> QED
        BY <3>1, <3>2, <3>4, <4>1 DEF May, Markerless
    <3> QED
      BY <3>1, <3>2, <3>3, <3>4 DEF Quiet
  <2> QED
    BY <1>u, <1>q, <2>1, <2>2, <2>3, <2>4, AnswerStep
<1>2. CASE ~Waits(q)
  <2>1. worker' = worker /\ kind' = kind /\ outbox' = outbox /\ mapping' = mapping /\ run' = run
    BY <1>2, <1>u DEF Refuse, ledgerVars
  <2>2. Types'
    BY <1>i, <1>u, <2>1 DEF Types, localVars
  <2>3. RowsStay(outbox') /\ Silent(outbox')
    BY <1>i, <2>1, RowsSame DEF Types
  <2>4. RevisionsGrow
    BY <1>i, <1>u, SameRevisions DEF localVars
  <2>5. Calm
    BY <1>u, <2>1, <2>3, <2>4, StaysSettle DEF Calm, Honest, Silent
  <2>6. RunInv'
    BY <1>i, <2>1, <2>3, RunStays DEF ClaimsKept, Active
  <2>7. \A j \in Items : preview'[j] # None => Consistent(preview'[j])
    BY <1>i, <1>u DEF RowInv, localVars
  <2> QED
    BY <2>1, <2>2, <2>5, <2>6, <2>7, CalmKeeps
<1> QED
  BY <1>1, <1>2

=============================================================================

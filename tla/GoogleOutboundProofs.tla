------------------------ MODULE GoogleOutboundProofs ------------------------
(***************************************************************************)
(* The steps of GoogleOutbound on the way to Google, at Google and back,   *)
(* and the theorems: an item has at most one object at Google, a mapping   *)
(* describes the version it names, and the outbox keeps the promise of     *)
(* ProviderWrite.                                                          *)
(***************************************************************************)
EXTENDS GoogleOutboundLedgerProofs

(* Zenon does the leaves; SMT is named where one needs arithmetic. *)
USE Zenon

(***************************************************************************)
(* Towards the request                                                     *)
(***************************************************************************)
\* A worker takes up a row or goes on with it.
LEMMA WorkStep ==
    ASSUME Inv, NEW w \in Workers, NEW p \in Process, worker' = [worker EXCEPT ![w] = p],
           Active(w), p.page = worker[w].page, p.claim = worker[w].claim,
           p.pc \in Busy, p.key \in Keys, outbox[p.key].state # "none",
           p.pc \in {"lookup", "found"} => kind[p.key[1]] = "event" /\ IsCreate(outbox[p.key]),
           flight' \subseteq [by : Workers, claim : 0..MaxClaims, key : Keys],
           \A q \in flight' : outbox[q.key].state # "none",
           IntentsKept, Honest, DeliveringIsOwned', ThreatInv', HolderInv', AnswerKnown(w)',
           UNCHANGED <<kind, localVars, mapping, foreign, run, google, effects>>
    PROVE  Inv' /\ Promised
<1>i. /\ Types /\ RunInv /\ RowInv /\ WorkInv /\ KnownInv
      /\ outbox \in [Keys -> Row] /\ worker \in [Workers -> Process]
  BY DEF Inv, Types
<1>u. /\ kind' = kind /\ item' = item /\ preview' = preview
      /\ mapping' = mapping /\ run' = run /\ google' = google /\ effects' = effects
      /\ account' = account /\ coll' = coll
  BY DEF localVars
<1>1. /\ worker' \in [Workers -> Process] /\ worker'[w] = p
      /\ \A v \in Workers \ {w} : worker'[v] = worker[v]
  BY <1>i, Moved
<1>2. Types'
  BY <1>i, <1>u, <1>1 DEF Types, IntentsKept
<1>3. RunInv'
  <2>1. ClaimsKept
    BY <1>1 DEF ClaimsKept, Active
  <2>2. \A v \in Workers : Active(v)' => worker'[v].claim \in 1..run'.gen
    BY <1>i, <1>u, <2>1 DEF RunInv, ClaimsKept
  <2>3. \A v, x \in Workers :
            Active(v)' /\ Active(x)' /\ worker'[v].claim = worker'[x].claim => v = x
    BY <1>i, <2>1 DEF RunInv, ClaimsKept
  <2> QED
    BY <1>i, <1>u, <2>2, <2>3 DEF RunInv
<1>4. RowInv'
  <2>1. RevisionsGrow
    BY <1>i, <1>u, SameRevisions
  <2>2. /\ \A i \in Items : preview'[i] # None => Consistent(preview'[i])
        /\ \A i \in Items : mapping'[i].remote = 0 => mapping'[i].etag = 0
    BY <1>i, <1>u DEF RowInv
  <2> QED
    BY <1>i, <1>2, <2>1, <2>2, RowInvStays
<1>5. WorkInv'
  <2>1. ASSUME NEW v \in Workers, worker'[v].pc \in Busy
        PROVE  /\ worker'[v].key \in Keys /\ outbox[worker'[v].key].state # "none"
               /\ worker'[v].pc \in {"lookup", "found"} =>
                      kind[worker'[v].key[1]] = "event" /\ IsCreate(outbox[worker'[v].key])
    <3>1. CASE v = w
      BY <1>1, <3>1
    <3>2. CASE v # w
      BY <1>i, <1>1, <2>1, <3>2 DEF WorkInv
    <3> QED
      BY <3>1, <3>2
  <2>2. ASSUME NEW v \in Workers, worker'[v].pc \in Busy
        PROVE  /\ worker'[v].key \in Keys /\ outbox'[worker'[v].key].state # "none"
               /\ worker'[v].pc \in {"lookup", "found"} =>
                      kind'[worker'[v].key[1]] = "event" /\ IsCreate(outbox'[worker'[v].key])
    BY <1>u, <2>1, <2>2, MarkerlessKept
  <2>3. ASSUME NEW q \in flight' PROVE outbox'[q.key].state # "none"
    <3>1. q.key \in Keys /\ outbox[q.key].state # "none"
      OBVIOUS
    <3> QED
      BY <3>1, MarkerlessKept
  <2>4. {"lookup", "found"} \subseteq Busy
    BY DEF Busy
  <2> QED
    BY <2>2, <2>3, <2>4 DEF WorkInv
<1>6. KnownInv'
  <2>1. VersionsGrow
    BY <1>i, <1>u, SameVersions
  <2>2. ASSUME NEW v \in Workers PROVE PageKnown(v)' /\ AnswerKnown(v)'
    <3>1. PageKnown(v) /\ AnswerKnown(v) /\ worker'[v].page \subseteq worker[v].page
      BY <1>i, <1>1 DEF KnownInv
    <3>2. PageKnown(v)'
      BY <1>i, <1>2, <2>1, <3>1, WorkerKnows
    <3>3. CASE v = w
      BY <3>2, <3>3
    <3>4. CASE v # w
      <4>1. worker'[v] = worker[v]
        BY <1>1, <3>4
      <4> QED
        BY <1>i, <1>2, <2>1, <3>1, <3>2, <4>1, WorkerKnows
    <3> QED
      BY <3>3, <3>4
  <2>3. \A i \in Items : mapping'[i].remote # 0 =>
            Known(i, mapping'[i].remote, mapping'[i].etag, mapping'[i].content)
    BY <1>i, <1>u DEF KnownInv
  <2> QED
    BY <1>i, <1>u, <2>2, <2>3, KnownInvStays
<1>7. Promised
  BY <1>i, <1>u, SettleStep
<1> QED
  BY <1>2, <1>3, <1>4, <1>5, <1>6, <1>7 DEF Inv

\* The request leaves the process: the permit becomes a request.
LEMMA SendStep == ASSUME Inv, NEW w \in Workers, Send(w) PROVE Inv' /\ Promised
<1>i. /\ Types /\ RunInv /\ WorkInv /\ ThreatInv /\ HolderInv
      /\ outbox \in [Keys -> Row] /\ worker \in [Workers -> Process]
      /\ flight \subseteq [by : Workers, claim : 0..MaxClaims, key : Keys]
  BY DEF Inv, Types
<1> DEFINE p == [worker[w] EXCEPT !.pc = "sent"]
<1>u. /\ worker[w].pc = "permit" /\ worker' = [worker EXCEPT ![w] = p]
      /\ kind' = kind /\ outbox' = outbox /\ google' = google
      /\ UNCHANGED <<kind, localVars, mapping, foreign, run, google, effects>>
  BY DEF Send, ledgerVars
<1>1. PICK k \in Keys : k = worker[w].key
  BY <1>i, <1>u DEF WorkInv, Busy
<1>2. k[1] \in Items /\ outbox[k].state # "none"
  BY <1>i, <1>u, <1>1, KeysAre DEF WorkInv, Busy
<1>3. /\ p \in Process /\ p.pc = "sent" /\ p.page = worker[w].page
      /\ p.claim = worker[w].claim /\ p.key = k
  <2>1. worker[w] \in Process /\ "sent" \in Pcs
    BY <1>i DEF Pcs
  <2> QED
    BY <1>1, <2>1 DEF Process
<1> HIDE DEF p
<1>4. worker'[w] = p /\ \A v \in Workers \ {w} : worker'[v] = worker[v]
  BY <1>i, <1>u
<1>5. PICK q0 : /\ flight' = flight \cup {q0}
                /\ q0 = [by |-> w, claim |-> worker[w].claim, key |-> worker[w].key]
  BY DEF Send
<1>6. q0 \in [by : Workers, claim : 0..MaxClaims, key : Keys] /\ q0.key = k
  <2>1. worker[w].claim \in 0..MaxClaims
    BY <1>i DEF Process
  <2> QED
    BY <1>1, <1>5, <2>1
<1>7. \A j \in Keys : (Posted(j)' <=> Posted(j)) /\ (Markerless(j)' <=> Markerless(j))
  BY <1>u DEF Posted, Markerless
<1>8. ASSUME NEW v \in Workers, NEW i \in Items, May(v, i)'
      PROVE  v # w /\ May(v, i) /\ worker'[v] = worker[v]
  BY <1>u, <1>3, <1>4, <1>8 DEF May, Markerless
<1>9. Markerless(k) => May(w, k[1])
  BY <1>u, <1>1 DEF May
<1>10. ASSUME NEW i \in Items, NEW q \in flight', Asks(q, i)'
       PROVE  (q \in flight /\ Asks(q, i)) \/ (q = q0 /\ i = k[1] /\ Markerless(k))
  BY <1>u, <1>5, <1>6, <1>10 DEF Asks, Markerless
<1>11. ThreatInv'
  <2>1. \A i \in Items : kind'[i] = "task" /\ google'[i] # <<>> =>
            \E j \in Keys : j[1] = i /\ Posted(j)'
    BY <1>i, <1>u, <1>7 DEF ThreatInv
  <2>2. ASSUME NEW q \in flight', Markerless(q.key)'
        PROVE  /\ Posted(q.key)' /\ google'[q.key[1]] = <<>>
               /\ \A x \in flight' : Asks(x, q.key[1])' => x = q
               /\ \A v \in Workers : ~May(v, q.key[1])'
    <3>0. q.key \in Keys /\ q.key[1] \in Items /\ Markerless(q.key)
      BY <1>i, <1>5, <1>6, <1>7, <2>2, KeysAre
    <3>1. CASE q = q0
      <4>1. May(w, k[1]) /\ q.key = k
        BY <1>6, <1>9, <3>0, <3>1
      <4>2. /\ google[k[1]] = <<>> /\ \A x \in flight : ~Asks(x, k[1])
            /\ \A v \in Workers : May(v, k[1]) => v = w
        BY <1>i, <1>2, <4>1, PermitIsAlone
      <4>3. Posted(k)
        BY SMT, <1>i, <1>1, <1>2, <4>1 DEF ThreatInv
      <4> QED
        BY <1>2, <1>u, <1>7, <1>8, <1>10, <3>1, <4>1, <4>2, <4>3
    <3>2. CASE q # q0
      <4>1. q \in flight
        BY <1>5, <3>2
      <4>2. /\ Posted(q.key) /\ google[q.key[1]] = <<>>
            /\ \A x \in flight : Asks(x, q.key[1]) => x = q
            /\ \A v \in Workers : ~May(v, q.key[1])
        BY <1>i, <3>0, <4>1 DEF ThreatInv
      <4> QED
        BY <1>u, <1>7, <1>8, <1>9, <1>10, <3>0, <4>2
    <3> QED
      BY <3>1, <3>2
  <2>3. ASSUME NEW v \in Workers, NEW i \in Items, May(v, i)'
        PROVE  /\ Posted(worker[v].key)' /\ google'[i] = <<>>
               /\ \A x \in Workers : May(x, i)' => x = v
    <3>1. May(v, i) /\ worker'[v] = worker[v]
      BY <1>8, <2>3
    <3>2. Posted(worker[v].key) /\ google[i] = <<>> /\ \A x \in Workers : May(x, i) => x = v
      BY <1>i, <3>1 DEF ThreatInv
    <3>3. Posted(worker[v].key)'
      BY <1>u, <3>1, <3>2 DEF Posted, Markerless
    <3> QED
      BY <1>u, <1>8, <3>2, <3>3
  <2>4. \A j, l \in Keys :
            /\ j[1] = l[1] /\ Posted(j)'
            /\ Posted(l)' \/ (Markerless(l)' /\ outbox'[l].state \in Open /\ Current(l)')
            => j = l
    <3>1. \A l \in Keys : Current(l)' <=> Current(l)
      BY <1>u DEF Current, localVars
    <3> QED
      BY <1>i, <1>u, <1>7, <3>1 DEF ThreatInv
  <2> QED
    BY <2>1, <2>2, <2>3, <2>4 DEF ThreatInv
<1>12. ASSUME NEW i \in Items, Quiet(i) PROVE Quiet(i)'
  BY <1>u, <1>8, <1>9, <1>10, <1>12 DEF Quiet
<1>13. HolderInv'
  <2>1. ASSUME NEW v \in Workers PROVE Holder(v)'
    <3>1. CASE v = w
      BY <1>3, <1>4, <3>1 DEF Holder
    <3>2. CASE v # w
      <4>1. worker'[v] = worker[v] /\ Holder(v)
        BY <1>i, <1>4, <3>2 DEF HolderInv
      <4>2. CASE worker[v].pc \notin Busy
        BY <4>1, <4>2 DEF Holder
      <4>3. CASE worker[v].pc \in Busy
        <5>1. PICK j \in Keys : j = worker[v].key
          BY <1>i, <4>3 DEF WorkInv
        <5>2. j[1] \in Items
          BY KeysAre
        <5>3. Quiet(j[1]) => Quiet(j[1])'
          BY <1>12, <5>2
        <5> QED
          BY <1>u, <4>1, <5>1, <5>3 DEF Holder, RowHeld, Markerless
      <4> QED
        BY <4>2, <4>3
    <3> QED
      BY <3>1, <3>2
  <2> QED
    BY <2>1 DEF HolderInv
<1>14. IntentsKept /\ Honest /\ DeliveringIsOwned'
  <2>1. RowsStay(outbox') /\ Silent(outbox')
    BY <1>i, <1>u, RowsSame
  <2> QED
    BY <1>i, <1>u, <2>1, RowsStayKeep DEF Honest, Silent, RunInv, DeliveringIsOwned
<1>15. /\ flight' \subseteq [by : Workers, claim : 0..MaxClaims, key : Keys]
       /\ \A q \in flight' : outbox[q.key].state # "none"
  BY <1>i, <1>2, <1>5, <1>6 DEF WorkInv
<1>16. AnswerKnown(w)' /\ Active(w) /\ p.pc \in Busy /\ p.pc \notin {"lookup", "found"}
  BY <1>u, <1>3, <1>4 DEF AnswerKnown, Active, Busy
<1> QED
  BY <1>u, <1>2, <1>3, <1>11, <1>13, <1>14, <1>15, <1>16, WorkStep
\* A row is put into delivery; it keeps its intent and its mark.
LEMMA TakenUp ==
    ASSUME NEW r \in Row, r.state \in {"pending", "backoff"}, NEW g \in 0..MaxClaims
    PROVE  LET s == [r EXCEPT !.state = "delivering", !.claim = g, !.permit = FALSE]
           IN  /\ SameIntent(r, s) /\ s.state = "delivering" /\ s.claim = g
               /\ s.posted = r.posted
<1> DEFINE a == [r EXCEPT !.state = "delivering"]
           b == [a EXCEPT !.claim = g]
           s == [b EXCEPT !.permit = FALSE]
<1>0. "delivering" \in States /\ "delivering" \in Open /\ {"pending", "backoff"} \subseteq Open
  BY DEF States, Open
<1>1. /\ a \in Row /\ a.state = "delivering" /\ a.op = r.op /\ a.coll = r.coll
      /\ a.remote = r.remote /\ a.etag = r.etag /\ a.posted = r.posted
  BY <1>0 DEF Row
<1> HIDE DEF a
<1>2. /\ b \in Row /\ b.state = a.state /\ b.op = a.op /\ b.coll = a.coll
      /\ b.remote = a.remote /\ b.etag = a.etag /\ b.posted = a.posted /\ b.claim = g
  BY <1>1 DEF Row
<1> HIDE DEF b
<1>3. /\ s \in Row /\ s.state = b.state /\ s.op = b.op /\ s.coll = b.coll
      /\ s.remote = b.remote /\ s.etag = b.etag /\ s.posted = b.posted /\ s.claim = b.claim
  BY <1>2 DEF Row
<1>4. s = [r EXCEPT !.state = "delivering", !.claim = g, !.permit = FALSE]
  BY DEF a, b
<1> HIDE DEF s
<1> QED
  BY <1>0, <1>1, <1>2, <1>3, <1>4 DEF SameIntent

\* claim_outbound: the repairs, then one row is put into delivery under the
\* worker's claim, unless it is a create that may have been sent.
LEMMA ClaimOutboundStep == ASSUME Inv, NEW w \in Workers, ClaimOutbound(w) PROVE Inv' /\ Promised
<1>i. /\ Types /\ RunInv /\ RowInv /\ WorkInv /\ ThreatInv /\ HolderInv
      /\ outbox \in [Keys -> Row] /\ worker \in [Workers -> Process]
      /\ flight \subseteq [by : Workers, claim : 0..MaxClaims, key : Keys]
  BY DEF Inv, Types
<1>u. /\ worker[w].pc = "outbound" /\ RunHeld(worker[w].claim)
      /\ kind' = kind /\ flight' = flight /\ google' = google /\ item' = item /\ effects' = effects
      /\ UNCHANGED <<kind, localVars, mapping, foreign, run, google, effects>>
      /\ UNCHANGED <<kind, localVars, mapping, foreign, run, providerVars>>
  BY DEF ClaimOutbound, providerVars, localVars
<1> DEFINE R(g, old) == [k \in Keys |-> Repaired(k, g, old)]
           Due(g, old) == {k \in Keys : /\ R(g, old)[k].state \in {"pending", "backoff"}
                                        /\ CollectionFits(k) /\ Current(k)}
           Refused(g, old, k) == Markerless(k) /\ GuardNewTaskInsert(R(g, old)[k].posted)
           P(g, old, k) == [worker[w] EXCEPT !.key = k, !.posted = R(g, old)[k].posted,
                               !.pc = IF Refused(g, old, k) THEN "answer"
                                      ELSE IF kind[k[1]] = "event" /\ IsCreate(R(g, old)[k])
                                      THEN "lookup" ELSE "ready",
                               !.answer = IF Refused(g, old, k) THEN "unresolved" ELSE "none"]
           Taken(g, old) == \E k \in Due(g, old) :
               /\ outbox' = [R(g, old) EXCEPT ![k].state = "delivering", ![k].claim = g,
                                              ![k].permit = FALSE]
               /\ worker' = [worker EXCEPT ![w] = P(g, old, k)]
           Idle(g, old) == outbox' = R(g, old) /\ worker' = [worker EXCEPT ![w].pc = "done"]
<1>0. PICK old \in BOOLEAN : Taken(worker[w].claim, old) \/ Idle(worker[w].claim, old)
  BY DEF ClaimOutbound
<1>1. PICK g : g = worker[w].claim
  OBVIOUS
<1>g. g \in 0..MaxClaims /\ worker[w] \in Process
  BY <1>i, <1>1 DEF Process
<1>2. Taken(g, old) \/ Idle(g, old)
  <2> HIDE DEF Taken, Idle
  <2> QED
    BY <1>0, <1>1
<1> DEFINE rows == R(g, old)
<1>3. RowsStay(rows) /\ Silent(rows)
  <2>1. \A k \in Keys : /\ Stay(k, outbox[k], rows[k])
                        /\ rows[k].state = "published" => outbox[k].state = "published"
    BY <1>i, RepairedStays
  <2>2. \A k \in Keys : rows[k] \in Row
    BY <2>1 DEF Stay, SameIntent
  <2>3. rows \in [Keys -> Row]
    BY <2>2
  <2> QED
    BY <2>1, <2>3 DEF RowsStay, Silent
<1>4. CASE outbox' = rows /\ worker' = [worker EXCEPT ![w].pc = "done"]
  <2> DEFINE p == [worker[w] EXCEPT !.pc = "done"]
  <2>1. worker' = [worker EXCEPT ![w] = p]
    BY <1>4
  <2>2. p \in Process /\ p.pc = "done" /\ p.page = worker[w].page /\ p.claim = worker[w].claim
    BY <1>g DEF Process, Pcs
  <2> HIDE DEF p, rows
  <2>3. Rests(w, p)
    BY <1>u, <2>2 DEF Rests, Busy, Active
  <2> QED
    BY <1>u, <1>3, <1>4, <2>1, <2>3, RestStep
<1>5. ASSUME NEW k \in Due(g, old),
             outbox' = [rows EXCEPT ![k].state = "delivering", ![k].claim = g, ![k].permit = FALSE],
             worker' = [worker EXCEPT ![w] = P(g, old, k)]
      PROVE  Inv' /\ Promised
  <2> DEFINE r == rows[k]
             s == [r EXCEPT !.state = "delivering", !.claim = g, !.permit = FALSE]
             p == P(g, old, k)
             refused == Refused(g, old, k)
  <2>1. k \in Keys /\ r \in Row /\ r.state \in {"pending", "backoff"} /\ k[1] \in Items
    BY <1>3, KeysAre DEF RowsStay
  <2>2. rows \in [Keys -> Row] /\ outbox' = [rows EXCEPT ![k] = s]
    BY <1>3, <1>5 DEF RowsStay
  <2>3. /\ refused <=> Markerless(k) /\ r.posted
        /\ p = [worker[w] EXCEPT !.key = k, !.posted = r.posted,
                            !.pc = IF refused THEN "answer"
                                   ELSE IF kind[k[1]] = "event" /\ IsCreate(r)
                                   THEN "lookup" ELSE "ready",
                            !.answer = IF refused THEN "unresolved" ELSE "none"]
    BY DEF GuardNewTaskInsert
  <2>4. worker' = [worker EXCEPT ![w] = p]
    BY <1>5
  <2> HIDE DEF p, refused, rows
  <2>5. /\ SameIntent(r, s) /\ s.state = "delivering" /\ s.claim = g /\ s.posted = r.posted
    BY <1>g, <2>1, TakenUp
  <2> HIDE DEF s, r
  <2>6. /\ p \in Process /\ p.page = worker[w].page /\ p.claim = g /\ p.key = k
        /\ p.pc = IF refused THEN "answer"
                  ELSE IF kind[k[1]] = "event" /\ IsCreate(r) THEN "lookup" ELSE "ready"
        /\ p.answer = IF refused THEN "unresolved" ELSE "none"
    <3> DEFINE pc == IF refused THEN "answer"
                     ELSE IF kind[k[1]] = "event" /\ IsCreate(r) THEN "lookup" ELSE "ready"
               answer == IF refused THEN "unresolved" ELSE "none"
               b == r.posted
    <3>1. pc \in Pcs /\ answer \in Answers /\ b \in BOOLEAN
      BY <2>1 DEF Pcs, Answers, Row
    <3>2. p = [worker[w] EXCEPT !.key = k, !.posted = b, !.pc = pc, !.answer = answer]
      BY <2>3
    <3> HIDE DEF pc, answer, b
    <3>3. /\ p \in Process /\ p.page = worker[w].page /\ p.claim = worker[w].claim /\ p.key = k
          /\ p.pc = pc /\ p.answer = answer
      BY <1>g, <2>1, <3>1, <3>2 DEF Process
    <3> QED
      BY <1>1, <3>3 DEF pc, answer
  <2>7. worker'[w] = p /\ \A v \in Workers \ {w} : worker'[v] = worker[v]
    BY <1>i, <2>4
  <2>8. s \in Row /\ outbox' \in [Keys -> Row] /\ outbox'[k] = s
        /\ \A j \in Keys \ {k} : outbox'[j] = rows[j]
    <3>1. s \in Row
      BY <2>5 DEF SameIntent
    <3> QED
      BY <2>1, <2>2, <3>1
  <2>9. Stay(k, outbox[k], r) /\ \A j \in Keys \ {k} : Stay(j, outbox[j], outbox'[j])
    BY <1>3, <2>1, <2>8 DEF RowsStay, r
  <2>10. IntentsKept
    <3>1. SameIntent(outbox[k], s)
      BY <2>5, <2>9 DEF SameIntent, Stay
    <3> QED
      BY <1>u, <2>8, <2>9, <3>1 DEF IntentsKept, Stay
  <2>11. IsCreate(r) <=> IsCreate(outbox[k])
    BY <2>9 DEF Stay, SameIntent, IsCreate
  <2>12. NothingSent
    BY <1>u, <2>6, <2>7 DEF NothingSent
  <2>13. ThreatInv'
    <3>1. \A j \in Keys : Markerless(j) => outbox'[j].posted = outbox[j].posted
      BY <2>5, <2>8, <2>9 DEF Stay
    <3>2. RevisionsGrow
      BY <1>i, <1>u, SameRevisions
    <3>3. Types'
      <4>1. worker' \in [Workers -> Process]
        BY <1>i, <2>4, <2>6
      <4> QED
        BY <1>i, <1>u, <2>8, <4>1 DEF Types, localVars
    <3> QED
      BY <1>i, <2>10, <2>12, <3>1, <3>2, <3>3, ThreatStays
  <2>14. HolderInv'
    <3>1. Holder(w)'
      <4>1. Markerless(k)' <=> Markerless(k)
        BY <2>1, <2>10, MarkerlessKept
      <4> QED
        BY SMTT(30), <2>3, <2>5, <2>6, <2>7, <2>8, <4>1 DEF Holder, Markerless, Explicit
    <3>2. ASSUME NEW v \in Workers, v # w PROVE Holder(v)'
      <4>1. worker'[v] = worker[v]
        BY <2>7, <3>2
      <4>2. CASE worker[v].pc \in Busy /\ worker[v].key = k
        <5>1. Active(v) /\ Active(w)
          BY <1>u, <4>2 DEF Active, Busy
        <5>2. worker[v].claim # g
          BY <1>i, <1>1, <3>2, <5>1 DEF RunInv
        <5> QED
          BY <2>5, <2>8, <4>1, <4>2, <5>2 DEF Holder, RowHeld
      <4>3. CASE ~(worker[v].pc \in Busy /\ worker[v].key = k)
        <5>1. worker[v].pc \in Busy =>
                  Stay(worker[v].key, outbox[worker[v].key], outbox'[worker[v].key])
          BY <1>i, <2>9, <4>3 DEF WorkInv
        <5> QED
          BY <1>i, <2>10, <2>12, <4>1, <5>1, HolderStays
      <4> QED
        BY <4>2, <4>3
    <3> QED
      BY <3>1, <3>2 DEF HolderInv
  <2>15. DeliveringIsOwned'
    <3>1. run' = run /\ run.state = "running" /\ run.claim = g
      BY <1>i, <1>u, <1>1 DEF RunInv, RunHeld, RunIs
    <3> QED
      BY <1>i, <2>5, <2>8, <2>9, <3>1 DEF RunInv, DeliveringIsOwned, Stay
  <2>16. Honest
    BY <1>3, <2>5, <2>8 DEF Honest, Silent
  <2>17. /\ AnswerKnown(w)' /\ Active(w) /\ p.pc \in Busy
         /\ p.pc \in {"lookup", "found"} => kind[k[1]] = "event" /\ IsCreate(outbox[k])
    BY <1>u, <2>6, <2>7, <2>11 DEF AnswerKnown, Active, Busy
  <2>18. outbox[k].state # "none" /\ \A q \in flight' : outbox[q.key].state # "none"
    BY <1>i, <1>u, <2>1, <2>9 DEF WorkInv, Stay, SameIntent
  <2>19. p.claim = worker[w].claim
    BY <1>1, <2>6
  <2> QED
    BY <1>i, <1>u, <2>1, <2>4, <2>6, <2>10, <2>13, <2>14, <2>15, <2>16, <2>17, <2>18, <2>19, WorkStep
<1> QED
  BY <1>2, <1>4, <1>5
\* A row gets a permit, and perhaps the mark of a post.
LEMMA PermitIs ==
    ASSUME NEW r \in Row, NEW b \in BOOLEAN
    PROVE  LET s == [r EXCEPT !.permit = TRUE, !.posted = b]
           IN  /\ SameIntent(r, s) /\ s.state = r.state /\ s.claim = r.claim /\ s.posted = b
<1> DEFINE a == [r EXCEPT !.permit = TRUE]
           s == [a EXCEPT !.posted = b]
<1>1. /\ a \in Row /\ a.state = r.state /\ a.op = r.op /\ a.coll = r.coll
      /\ a.remote = r.remote /\ a.etag = r.etag /\ a.claim = r.claim
  BY DEF Row
<1> HIDE DEF a
<1>2. /\ s \in Row /\ s.state = a.state /\ s.op = a.op /\ s.coll = a.coll
      /\ s.remote = a.remote /\ s.etag = a.etag /\ s.claim = a.claim /\ s.posted = b
  BY <1>1 DEF Row
<1>3. s = [r EXCEPT !.permit = TRUE, !.posted = b]
  BY DEF a
<1> HIDE DEF s
<1> QED
  BY <1>1, <1>2, <1>3 DEF SameIntent

\* A task whose current open row has not been posted is not at Google, and
\* nothing is on its way there.
LEMMA UnpostedIsQuiet ==
    ASSUME Types, WorkInv, ThreatInv, NEW k \in Keys, Markerless(k), outbox[k].state \in Open,
           Current(k), ~outbox[k].posted
    PROVE  Quiet(k[1]) /\ \A j \in Keys : j[1] = k[1] => ~Posted(j)
<1>1. \A j \in Keys : j[1] = k[1] => ~Posted(j)
  BY DEF ThreatInv, Posted
<1>2. google[k[1]] = <<>>
  BY <1>1, KeysAre DEF ThreatInv, Markerless
<1>3. ASSUME NEW q \in flight, Asks(q, k[1]) PROVE FALSE
  <2>1. q.key \in Keys
    BY DEF Types
  <2>2. Posted(q.key) /\ q.key[1] = k[1]
    BY <1>3 DEF ThreatInv, Asks
  <2> QED
    BY <1>1, <2>1, <2>2
<1>4. ASSUME NEW v \in Workers, May(v, k[1]) PROVE FALSE
  <2>1. worker[v].key \in Keys /\ worker[v].key[1] = k[1]
    BY <1>4 DEF May, WorkInv, Busy
  <2>2. Posted(worker[v].key)
    BY <1>4, KeysAre DEF ThreatInv
  <2> QED
    BY <1>1, <2>1, <2>2
<1> QED
  BY <1>1, <1>2, <1>3, <1>4 DEF Quiet

\* authorize_outbound_dispatch: a create of a task is marked in the step that
\* permits it, and it is permitted only when no other could be at Google.
LEMMA AuthorizeStep == ASSUME Inv, NEW w \in Workers, AuthorizeDispatch(w) PROVE Inv' /\ Promised
<1>i. /\ Types /\ RunInv /\ RowInv /\ WorkInv /\ ThreatInv /\ HolderInv /\ KnownInv
      /\ outbox \in [Keys -> Row] /\ worker \in [Workers -> Process]
      /\ flight \subseteq [by : Workers, claim : 0..MaxClaims, key : Keys]
  BY DEF Inv, Types
<1>u. /\ worker[w].pc \in {"ready", "found"} /\ worker[w].pc \in Busy
      /\ kind' = kind /\ flight' = flight /\ google' = google /\ item' = item /\ effects' = effects
      /\ UNCHANGED <<kind, localVars, mapping, foreign, run, google, effects>>
      /\ UNCHANGED <<kind, localVars, mapping, foreign, run, providerVars>>
  BY DEF AuthorizeDispatch, providerVars, localVars, Busy
<1> DEFINE G(k, g) == /\ RunHeld(g) /\ RowHeld(k, g)
                      /\ account = "active" /\ CollectionFits(k)
                      /\ Current(k) /\ MappingFits(k)
           write == worker[w].pc = "ready"
           p == IF write THEN [worker[w] EXCEPT !.pc = "permit"] ELSE Answered(w, "ok")
           S(k) == [outbox[k] EXCEPT !.permit = TRUE, !.posted = @ \/ (write /\ TaskPostMayStart(k))]
           E(k) == Release(outbox[k], IF Current(k) THEN "conflict" ELSE "superseded")
           Granted(k) == /\ outbox' = [outbox EXCEPT ![k] = S(k)]
                         /\ worker' = [worker EXCEPT ![w] = p]
           Denied(k, g) == /\ outbox' = IF RunIs(g) /\ RowHeld(k, g)
                                        THEN [outbox EXCEPT ![k] = E(k)] ELSE outbox
                           /\ worker' = [worker EXCEPT ![w] = Dropped(w)]
<1>1. PICK k \in Keys : k = worker[w].key
  BY <1>i, <1>u DEF WorkInv
<1>2. PICK g : g = worker[w].claim
  OBVIOUS
<1>3. k[1] \in Items /\ outbox[k] \in Row /\ outbox[k].state # "none" /\ worker[w] \in Process
  BY <1>i, <1>u, <1>1, KeysAre DEF WorkInv
<1>4. (G(k, g) /\ Granted(k)) \/ Denied(k, g)
  <2>1. \/ G(worker[w].key, worker[w].claim) /\ Granted(worker[w].key)
        \/ Denied(worker[w].key, worker[w].claim)
    BY DEF AuthorizeDispatch
  <2> HIDE DEF G, Granted, Denied
  <2> QED
    BY <1>1, <1>2, <2>1
<1>5. CASE Denied(k, g)
  <2>1. Rests(w, Dropped(w))
    <3>1. /\ Dropped(w) \in Process /\ Dropped(w).pc = "outbound"
          /\ Dropped(w).claim = worker[w].claim /\ Dropped(w).page = worker[w].page
      BY <1>i, DroppedIs
    <3> QED
      BY <1>u, <3>1 DEF Rests, Busy, Active
  <2>2. CASE RunIs(g) /\ RowHeld(k, g)
    <3> DEFINE s == E(k)
    <3>1. outbox' = [outbox EXCEPT ![k] = s] /\ outbox[k].state = "delivering"
      BY <1>5, <2>2 DEF RowHeld
    <3>2. Ended(k, outbox[k], s)
      BY <3>1 DEF Ended, Closed
    <3> HIDE DEF s
    <3>3. Stay(k, outbox[k], s) /\ (s.state = "published" => outbox[k].state = "published")
      BY <1>3, <3>2, EndedStays
    <3>4. RowsStay(outbox') /\ outbox'[k] = s /\ \A j \in Keys \ {k} : outbox'[j] = outbox[j]
      BY <1>i, <3>1, <3>3, RowEnded
    <3>5. Silent(outbox')
      BY <3>3, <3>4 DEF Silent
    <3> QED
      BY <1>u, <1>5, <2>1, <3>4, <3>5, RestStep
  <2>3. CASE ~(RunIs(g) /\ RowHeld(k, g))
    <3>1. outbox' = outbox
      BY <1>5, <2>3
    <3>2. RowsStay(outbox') /\ Silent(outbox')
      BY <1>i, <3>1, RowsSame
    <3> QED
      BY <1>u, <1>5, <2>1, <3>2, RestStep
  <2> QED
    BY <2>2, <2>3
<1>6. CASE G(k, g) /\ Granted(k)
  <2> DEFINE new == write /\ Markerless(k)
             b == outbox[k].posted \/ new
             s == [outbox[k] EXCEPT !.permit = TRUE, !.posted = b]
  <2>1. /\ RowHeld(k, g) /\ Current(k) /\ outbox[k].state = "delivering" /\ outbox[k].claim = g
        /\ outbox[k].state \in Open
    BY <1>6 DEF RowHeld, Open
  <2>2. outbox' = [outbox EXCEPT ![k] = s] /\ worker' = [worker EXCEPT ![w] = p]
    BY <1>6 DEF TaskPostMayStart
  <2>3. b \in BOOLEAN /\ new \in BOOLEAN
    OBVIOUS
  <2>4. SameIntent(outbox[k], s) /\ s.state = "delivering" /\ s.claim = g /\ s.posted = b
    <3> HIDE DEF b
    <3> QED
      BY <1>3, <2>1, <2>3, PermitIs
  <2> HIDE DEF s
  <2>5. IntentsKept /\ outbox'[k] = s /\ \A j \in Keys \ {k} : outbox'[j] = outbox[j]
    BY <1>i, <1>u, <2>2, <2>4, RowChanges
  <2>6. /\ p \in Process /\ p.page = worker[w].page /\ p.claim = g /\ p.key = k
        /\ p.pc = IF write THEN "permit" ELSE "answer"
        /\ ~write => p.answer = "ok" /\ p.remote = worker[w].remote /\ p.etag = worker[w].etag
    <3>1. CASE write
      <4>1. p = [worker[w] EXCEPT !.pc = "permit"] /\ "permit" \in Pcs
        BY <3>1 DEF Pcs
      <4> HIDE DEF p
      <4>2. /\ p \in Process /\ p.page = worker[w].page /\ p.claim = worker[w].claim
            /\ p.key = worker[w].key /\ p.pc = "permit"
        BY <1>3, <4>1 DEF Process
      <4> QED
        BY <1>1, <1>2, <3>1, <4>2
    <3>2. CASE ~write
      <4>1. p = Answered(w, "ok") /\ "ok" \in Answers
        BY <3>2 DEF Answers
      <4> HIDE DEF p
      <4>2. /\ p \in Process /\ p.pc = "answer" /\ p.answer = "ok"
            /\ p.claim = worker[w].claim /\ p.page = worker[w].page /\ p.key = worker[w].key
            /\ p.remote = worker[w].remote /\ p.etag = worker[w].etag
        BY SMT, <1>i, <4>1, AnsweredIs
      <4> QED
        BY <1>1, <1>2, <3>2, <4>2
    <3> QED
      BY <3>1, <3>2
  <2> HIDE DEF p
  <2>7. worker'[w] = p /\ \A v \in Workers \ {w} : worker'[v] = worker[v]
    BY <1>i, <2>2
  <2>8. new => Quiet(k[1]) /\ \A j \in Keys : j[1] = k[1] => ~Posted(j)
    <3>1. ASSUME new PROVE ~outbox[k].posted
      BY <1>i, <1>u, <1>1, <1>2, <2>1, <3>1 DEF HolderInv, Holder
    <3> QED
      BY <1>i, <2>1, <3>1, UnpostedIsQuiet
  <2>9. ASSUME NEW j \in Keys
        PROVE  /\ Markerless(j)' <=> Markerless(j)
               /\ outbox'[j].state = outbox[j].state
               /\ Posted(j)' <=> Posted(j) \/ (j = k /\ new)
    <3>1. Markerless(j)' <=> Markerless(j)
      BY <2>5, MarkerlessKept
    <3>2. CASE j = k
      BY <1>3, <2>1, <2>4, <2>5, <3>1, <3>2 DEF Posted
    <3>3. CASE j # k
      BY <2>5, <3>1, <3>3 DEF Posted
    <3> QED
      BY <3>1, <3>2, <3>3
  <2>10. ASSUME NEW v \in Workers, NEW i \in Items, May(v, i)'
         PROVE  \/ v # w /\ May(v, i) /\ worker'[v] = worker[v] /\ worker[v].key \in Keys
                \/ v = w /\ i = k[1] /\ new /\ worker'[v].key = k
    <3>1. CASE v = w
      BY <2>6, <2>7, <2>9, <2>10, <3>1 DEF May
    <3>2. CASE v # w
      <4>1. worker'[v] = worker[v] /\ worker[v].key \in Keys
        BY <1>i, <2>7, <2>10, <3>2 DEF May, WorkInv, Busy
      <4> QED
        BY <2>9, <2>10, <3>2, <4>1 DEF May
    <3> QED
      BY <3>1, <3>2
  <2>11. ASSUME NEW i \in Items, NEW q \in flight, Asks(q, i)' PROVE Asks(q, i)
    BY <1>i, <2>9, <2>11 DEF Asks
  <2> HIDE DEF new, b, write
  <2>12. ThreatInv'
    <3>1. \A i \in Items : kind'[i] = "task" /\ google'[i] # <<>> =>
              \E j \in Keys : j[1] = i /\ Posted(j)'
      BY <1>i, <1>u, <2>9 DEF ThreatInv
    <3>2. ASSUME NEW q \in flight', Markerless(q.key)'
          PROVE  /\ Posted(q.key)' /\ google'[q.key[1]] = <<>>
                 /\ \A x \in flight' : Asks(x, q.key[1])' => x = q
                 /\ \A v \in Workers : ~May(v, q.key[1])'
      <4>1. q \in flight /\ q.key \in Keys /\ q.key[1] \in Items /\ Markerless(q.key)
        BY <1>i, <1>u, <2>9, <3>2, KeysAre
      <4>2. /\ Posted(q.key) /\ google[q.key[1]] = <<>>
            /\ \A x \in flight : Asks(x, q.key[1]) => x = q
            /\ \A v \in Workers : ~May(v, q.key[1])
        BY <1>i, <4>1 DEF ThreatInv
      <4>3. \A v \in Workers : ~May(v, q.key[1])'
        BY <2>8, <2>10, <4>1, <4>2
      <4> QED
        BY <1>u, <2>9, <2>11, <4>1, <4>2, <4>3
    <3>3. ASSUME NEW v \in Workers, NEW i \in Items, May(v, i)'
          PROVE  /\ \A j \in Keys : j = worker'[v].key => Posted(j)'
                 /\ worker'[v].key \in Keys /\ google'[i] = <<>>
                 /\ \A x \in Workers : May(x, i)' => x = v
      <4>1. CASE v # w /\ May(v, i) /\ worker'[v] = worker[v] /\ worker[v].key \in Keys
        <5>1. Posted(worker[v].key) /\ google[i] = <<>> /\ \A x \in Workers : May(x, i) => x = v
          BY <1>i, <4>1 DEF ThreatInv
        <5>2. ~(i = k[1] /\ new)
          BY <2>8, <4>1 DEF Quiet
        <5> QED
          BY <1>u, <2>9, <2>10, <4>1, <5>1, <5>2
      <4>2. CASE v = w /\ i = k[1] /\ new /\ worker'[v].key = k
        BY <1>u, <2>8, <2>9, <2>10, <4>2 DEF Quiet
      <4> QED
        BY <2>10, <3>3, <4>1, <4>2
    <3>4. ASSUME NEW v \in Workers, NEW i \in Items, May(v, i)' PROVE Posted(worker[v].key)'
      BY <3>3, <3>4 DEF Posted, Markerless
    <3>5. ASSUME NEW j \in Keys, NEW l \in Keys, j[1] = l[1], Posted(j)',
                 Posted(l)' \/ (Markerless(l)' /\ outbox'[l].state \in Open /\ Current(l)')
          PROVE  j = l
      <4>1. Current(l)' <=> Current(l)
        BY <1>u DEF Current
      <4>2. CASE j = k /\ new
        <5>1. ~Posted(l)
          BY <2>8, <3>5, <4>2
        <5>2. l = k \/ Current(l)
          BY <2>9, <3>5, <4>1, <5>1
        <5>3. l[2] = k[2] => l = k
          BY SMT, <3>5, <4>2 DEF Keys
        <5> QED
          BY <2>1, <3>5, <4>2, <5>2, <5>3 DEF Current
      <4>3. CASE Posted(j)
        <5>1. ~(l = k /\ new)
          BY <2>8, <3>5, <4>3
        <5>2. Posted(l) \/ (Markerless(l) /\ outbox[l].state \in Open /\ Current(l))
          BY <2>9, <3>5, <4>1, <5>1
        <5> QED
          BY <1>i, <3>5, <4>3, <5>2 DEF ThreatInv
      <4> QED
        BY <2>9, <3>5, <4>2, <4>3
    <3> QED
      BY <3>1, <3>2, <3>3, <3>4, <3>5 DEF ThreatInv
  <2>13. HolderInv'
    <3>1. Holder(w)'
      BY <2>6, <2>7 DEF Holder, Explicit
    <3>2. ASSUME NEW v \in Workers, v # w PROVE Holder(v)'
      <4>1. worker'[v] = worker[v] /\ Holder(v)
        BY <1>i, <2>7, <3>2 DEF HolderInv
      <4>2. CASE worker[v].pc \notin Busy
        BY <4>1, <4>2 DEF Holder
      <4>3. CASE worker[v].pc \in Busy
        <5>1. PICK j \in Keys : j = worker[v].key
          BY <1>i, <4>3 DEF WorkInv
        <5>2. CASE j = k
          <6>1. Active(v) /\ Active(w)
            BY <1>u, <4>3 DEF Active, Busy
          <6>2. worker[v].claim # g
            BY <1>i, <1>2, <3>2, <6>1 DEF RunInv
          <6> QED
            BY <2>4, <2>5, <4>1, <5>1, <5>2, <6>2 DEF Holder, RowHeld
        <5>3. CASE j # k
          <6>1. outbox'[j] = outbox[j] /\ j[1] \in Items /\ outbox[j].state # "none"
            BY <1>i, <2>5, <4>3, <5>1, <5>3, KeysAre DEF WorkInv
          <6>2. ASSUME Quiet(j[1]), Posted(j) PROVE Quiet(j[1])'
            <7>1. ~(j[1] = k[1] /\ new)
              BY <2>8, <6>2
            <7>2. \A x \in Workers : ~May(x, j[1])'
              BY <2>10, <6>1, <6>2, <7>1 DEF Quiet
            <7> QED
              BY <1>u, <2>11, <6>1, <6>2, <7>2 DEF Quiet
          <6>3. Markerless(j)' <=> Markerless(j)
            BY <2>9
          <6>4. Markerless(j) /\ outbox[j].posted => Posted(j)
            BY <6>1 DEF Posted
          <6> QED
            BY <4>1, <5>1, <6>1, <6>2, <6>3, <6>4 DEF Holder, RowHeld
        <5> QED
          BY <5>2, <5>3
      <4> QED
        BY <4>2, <4>3
    <3> QED
      BY <3>1, <3>2 DEF HolderInv
  <2>14. DeliveringIsOwned' /\ Honest
    BY <1>i, <1>u, <2>1, <2>4, <2>5 DEF RunInv, DeliveringIsOwned, Honest
  <2>15. AnswerKnown(w)'
    <3>1. CASE write
      BY <2>6, <2>7, <3>1 DEF AnswerKnown
    <3>2. CASE ~write
      <4>1. worker[w].pc = "found"
        BY <1>u, <3>2 DEF write
      <4>2. effects[k] = 1 /\ Known(k[1], worker[w].remote, worker[w].etag, Content(k))
        BY <1>i, <1>1, <4>1 DEF KnownInv, AnswerKnown
      <4>3. Content(k)' = Content(k)
        BY <2>5, MarkerlessKept
      <4> QED
        BY <1>u, <2>6, <2>7, <3>2, <4>2, <4>3 DEF AnswerKnown, Known, Content
    <3> QED
      BY <3>1, <3>2
  <2>16. Active(w) /\ p.pc \in Busy /\ p.pc \notin {"lookup", "found"}
    BY <1>u, <2>6 DEF Active, Busy
  <2>17. \A q \in flight' : outbox[q.key].state # "none"
    BY <1>i, <1>u DEF WorkInv
  <2>18. p.claim = worker[w].claim
    BY <1>2, <2>6
  <2> QED
    BY <1>i, <1>u, <1>3, <2>2, <2>5, <2>6, <2>12, <2>13, <2>14, <2>15, <2>16, <2>17, <2>18, WorkStep
<1> QED
  BY <1>4, <1>5, <1>6
(***************************************************************************)
(* Google                                                                  *)
(***************************************************************************)
\* A worker whose request was carried out without a refusal.
Told(v) ==
    /\ worker'[v].pc = "answer" /\ worker'[v].answer \notin Explicit
    /\ worker[v].pc = "sent" /\ worker'[v].claim = worker[v].claim
    /\ worker'[v].key = worker[v].key /\ worker'[v].page = worker[v].page
    /\ AnswerKnown(v)'

\* The object of item i is created or gets a new version.
NewVersion(i) ==
    /\ Len(google'[i]) = 1 /\ \A j \in Items \ {i} : google'[j] = google[j]
    /\ google[i] # <<>> => google[i][1].etag < google'[i][1].etag
    /\ google'[i][1].content # 0 => effects'[<<i, google'[i][1].content>>] = 1
    /\ google'[i][1].live \/ google'[i][1].content = 0

\* The write of row k took effect.
Effect(k) ==
    /\ effects[k] = 0 /\ effects'[k] = 1 /\ outbox[k].state # "none"
    /\ ~IsCreate(outbox[k]) => google'[k[1]][1].etag > outbox[k].etag

\* An object has one version at a time.
LEMMA OneVersion ==
    ASSUME Types, KnownInv, NEW i \in Items, google[i] # <<>>
    PROVE  Len(google[i]) = 1 /\ google[i][1] \in Version /\ google[i][1].etag \in Nat \ {0}
<1> DEFINE n == Len(google[i])
<1>1. n \in Nat /\ n # 0 /\ n <= 1
  BY EtagsAre DEF KnownInv, OneObjectPerItem
<1>2. n = 1
  <2> HIDE DEF n
  <2> QED
    BY SMT, <1>1
<1> QED
  BY <1>2, EtagsAre

\* A new version of an object; a task is created by the one request for it.
LEMMA ProviderStep ==
    ASSUME Inv, Types', UNCHANGED <<kind, localVars, ledgerVars>>, flight' \subseteq flight,
           NEW i \in Items, NewVersion(i),
           \A v \in Workers : worker'[v] = worker[v] \/ Told(v),
           \A k \in Keys : effects'[k] = effects[k] \/ (k[1] = i /\ Effect(k)),
           google[i] = <<>> /\ kind[i] = "task" => \E q \in flight : q \notin flight' /\ Asks(q, i)
    PROVE  Inv'
<1>i. /\ Types /\ RunInv /\ RowInv /\ WorkInv /\ ThreatInv /\ HolderInv /\ KnownInv
      /\ outbox \in [Keys -> Row]
      /\ flight \subseteq [by : Workers, claim : 0..MaxClaims, key : Keys]
  BY DEF Inv, Types
<1>u. /\ kind' = kind /\ item' = item /\ preview' = preview /\ outbox' = outbox
      /\ mapping' = mapping /\ run' = run
  BY DEF localVars, ledgerVars
<1>1. RowsStay(outbox') /\ Silent(outbox') /\ IntentsKept
  BY <1>i, <1>u, RowsSame, RowsStayKeep
<1>2. RunInv'
  <2>1. ClaimsKept
    BY DEF ClaimsKept, Active, Told
  <2> QED
    BY <1>i, <1>u, <1>1, <2>1, RunStays
<1>3. RowInv'
  BY <1>i, <1>u DEF RowInv
<1>4. WorkInv'
  <2>1. ASSUME NEW v \in Workers, worker'[v].pc \in Busy
        PROVE  /\ worker'[v].key \in Keys /\ outbox[worker'[v].key].state # "none"
               /\ worker'[v].pc \in {"lookup", "found"} =>
                      kind[worker'[v].key[1]] = "event" /\ IsCreate(outbox[worker'[v].key])
    BY <1>i, <2>1 DEF WorkInv, Told, Busy
  <2> QED
    BY <1>i, <1>1, <2>1, WorkInvStays
<1>5. \A j \in Keys : /\ Posted(j)' <=> Posted(j)
                      /\ Markerless(j)' <=> Markerless(j)
                      /\ Current(j)' <=> Current(j)
  BY <1>u DEF Posted, Markerless, Current
<1>6. ASSUME NEW v \in Workers, NEW j \in Items, May(v, j)' PROVE May(v, j) /\ worker'[v] = worker[v]
  BY <1>u, <1>6 DEF May, Told, Markerless
<1>7. ASSUME NEW q \in flight', NEW j \in Items, Asks(q, j)' PROVE q \in flight /\ Asks(q, j)
  BY <1>u, <1>7 DEF Asks, Markerless
<1>8. ASSUME google[i] = <<>>, kind[i] = "task"
      PROVE  /\ \E k \in Keys : k[1] = i /\ Posted(k)
             /\ \A q \in flight' : ~Asks(q, i)'
             /\ \A v \in Workers : ~May(v, i)'
             /\ ~Quiet(i)
  <2>1. PICK q \in flight : q \notin flight' /\ Asks(q, i)
    BY <1>8
  <2>2. q.key \in Keys /\ q.key[1] = i /\ Markerless(q.key)
    BY <1>i, <2>1 DEF Asks
  <2>3. /\ Posted(q.key) /\ \A p \in flight : Asks(p, i) => p = q
        /\ \A v \in Workers : ~May(v, i)
    BY <1>i, <2>2 DEF ThreatInv
  <2> QED
    BY <1>6, <1>7, <2>1, <2>2, <2>3 DEF Quiet
<1>9. ThreatInv'
  <2>1. ASSUME NEW j \in Items, kind'[j] = "task", google'[j] # <<>>
        PROVE  \E k \in Keys : k[1] = j /\ Posted(k)'
    <3>1. \E k \in Keys : k[1] = j /\ Posted(k)
      <4>1. CASE google[j] # <<>>
        BY <1>i, <1>u, <2>1, <4>1 DEF ThreatInv
      <4>2. CASE google[j] = <<>>
        BY <1>u, <1>8, <2>1, <4>2 DEF NewVersion
      <4> QED
        BY <4>1, <4>2
    <3> QED
      BY <1>5, <3>1
  <2>2. ASSUME NEW q \in flight', Markerless(q.key)'
        PROVE  /\ Posted(q.key)' /\ google'[q.key[1]] = <<>>
               /\ \A x \in flight' : Asks(x, q.key[1])' => x = q
               /\ \A v \in Workers : ~May(v, q.key[1])'
    <3>1. q \in flight /\ q.key \in Keys /\ q.key[1] \in Items /\ Markerless(q.key)
      BY <1>i, <1>5, <2>2, KeysAre
    <3>2. /\ Posted(q.key) /\ google[q.key[1]] = <<>>
          /\ \A x \in flight : Asks(x, q.key[1]) => x = q
          /\ \A v \in Workers : ~May(v, q.key[1])
      BY <1>i, <3>1 DEF ThreatInv
    <3>3. q.key[1] # i
      BY <1>8, <2>2, <3>1, <3>2 DEF Markerless, Asks
    <3> QED
      BY <1>5, <1>6, <1>7, <3>1, <3>2, <3>3 DEF NewVersion
  <2>3. ASSUME NEW v \in Workers, NEW j \in Items, May(v, j)'
        PROVE  /\ Posted(worker[v].key)' /\ google'[j] = <<>>
               /\ \A x \in Workers : May(x, j)' => x = v
    <3>1. May(v, j) /\ worker'[v] = worker[v]
      BY <1>6, <2>3
    <3>2. Posted(worker[v].key) /\ google[j] = <<>> /\ \A x \in Workers : May(x, j) => x = v
      BY <1>i, <3>1 DEF ThreatInv
    <3>3. Posted(worker[v].key)'
      BY <1>u, <3>1, <3>2 DEF Posted, Markerless
    <3>4. j # i
      BY <1>8, <2>3, <3>1, <3>2 DEF May, Markerless
    <3> QED
      BY <1>6, <3>2, <3>3, <3>4 DEF NewVersion
  <2>4. \A j, l \in Keys :
            /\ j[1] = l[1] /\ Posted(j)'
            /\ Posted(l)' \/ (Markerless(l)' /\ outbox'[l].state \in Open /\ Current(l)')
            => j = l
    BY <1>i, <1>u, <1>5 DEF ThreatInv
  <2> QED
    BY <2>1, <2>2, <2>3, <2>4 DEF ThreatInv
<1>10. ASSUME NEW j \in Items, Quiet(j), kind[j] = "task" PROVE Quiet(j)'
  <2>1. google'[j] = <<>>
    BY <1>8, <1>10 DEF NewVersion, Quiet
  <2> QED
    BY <1>6, <1>7, <1>10, <2>1 DEF Quiet
<1>11. ASSUME NEW v \in Workers PROVE Holder(v)'
  <2>1. CASE worker'[v] # worker[v] \/ worker[v].pc \notin Busy
    BY <2>1 DEF Holder, Told
  <2>2. CASE worker'[v] = worker[v] /\ worker[v].pc \in Busy
    <3>1. PICK j \in Keys : j = worker[v].key
      BY <1>i, <2>2 DEF WorkInv
    <3>2. j[1] \in Items /\ Holder(v)
      BY <1>i, KeysAre DEF HolderInv
    <3>3. Quiet(j[1]) /\ Markerless(j) => Quiet(j[1])'
      BY <1>10, <3>2 DEF Markerless
    <3> QED
      BY <1>u, <2>2, <3>1, <3>2, <3>3 DEF Holder, RowHeld, Markerless
  <2> QED
    BY <2>1, <2>2
<1>12. VersionsGrow
  <2>1. ASSUME NEW j \in Items, google[j] # <<>>
        PROVE  /\ Len(google'[j]) = 1 /\ google[j][1].etag <= google'[j][1].etag
               /\ google'[j][1].etag = google[j][1].etag => google'[j][1].content = google[j][1].content
    <3>1. Len(google[j]) = 1 /\ google[j][1].etag \in Nat
      BY <1>i, <2>1, OneVersion
    <3>2. CASE j = i
      <4>1. Len(google'[i]) = 1 /\ google[i][1].etag < google'[i][1].etag
        BY <2>1, <3>2 DEF NewVersion
      <4>2. google'[i][1].etag \in Nat
        <5>1. google'[i] \in Seq(Version)
          BY DEF Types
        <5>2. google'[i][1] \in Version
          BY SMT, <4>1, <5>1
        <5> QED
          BY <5>2 DEF Version
      <4> QED
        BY SMTT(30), <3>1, <3>2, <4>1, <4>2
    <3>3. CASE j # i
      BY SMT, <3>1, <3>3 DEF NewVersion
    <3> QED
      BY <3>2, <3>3
  <2>2. \A k \in Keys : effects[k] = 1 => effects'[k] = 1
    BY DEF Effect
  <2> QED
    BY <2>1, <2>2 DEF VersionsGrow
<1>13. KnownInv'
  <2>1. OneObjectPerItem'
    <3>1. \A j \in Items \ {i} : google'[j] = google[j] /\ Len(google[j]) <= 1
      BY <1>i DEF NewVersion, KnownInv, OneObjectPerItem
    <3>2. Len(google'[i]) <= 1
      BY SMT DEF NewVersion
    <3> QED
      BY <3>1, <3>2 DEF OneObjectPerItem
  <2>2. ASSUME NEW j \in Items, google'[j] # <<>>
        PROVE  /\ Genuine(j, google[j][1].content)'
               /\ google'[j][1].live \/ google'[j][1].content = 0
    <3>1. CASE j = i
      BY <3>1 DEF NewVersion, Genuine
    <3>2. CASE j # i
      <4>1. /\ google'[j] = google[j] /\ google[j] # <<>> /\ Genuine(j, google[j][1].content)
            /\ google[j][1].live \/ google[j][1].content = 0
        BY <1>i, <2>2, <3>2 DEF NewVersion, KnownInv
      <4>2. google[j][1].content \in 0..MaxRevision
        BY <1>i, <4>1, OneVersion DEF Version
      <4>3. google[j][1].content # 0 => effects'[<<j, google[j][1].content>>] = 1
        <5> DEFINE c == google[j][1].content
        <5>1. c # 0 => <<j, c>> \in Keys /\ effects[<<j, c>>] = 1
          BY SMT, <4>1, <4>2, BoundsAre DEF Keys, Revisions, Genuine
        <5> QED
          BY <1>12, <5>1 DEF VersionsGrow
      <4> QED
        BY <4>1, <4>3 DEF Genuine
    <3> QED
      BY <3>1, <3>2
  <2>3. ASSUME NEW j \in Items, mapping'[j].remote # 0
        PROVE  Known(j, mapping[j].remote, mapping[j].etag, mapping[j].content)'
    <3>1. /\ Known(j, mapping[j].remote, mapping[j].etag, mapping[j].content)
          /\ mapping[j].etag \in Nat
      BY <1>i, <1>u, <2>3 DEF KnownInv, Types, Mapping
    <3>2. ASSUME NEW n, NEW c, NEW e \in Nat, Known(j, n, e, c) PROVE Known(j, n, e, c)'
      BY <1>i, <1>12, <3>2, KnownStays
    <3> QED
      BY <1>u, <3>1, <3>2 DEF Known
  <2>4. ASSUME NEW v \in Workers PROVE PageKnown(v)' /\ AnswerKnown(v)'
    <3>1. PageKnown(v) /\ AnswerKnown(v) /\ worker'[v].page \subseteq worker[v].page
      BY <1>i DEF KnownInv, Told
    <3>2. PageKnown(v)'
      BY <1>i, <1>1, <1>12, <3>1, WorkerKnows
    <3>3. worker'[v] = worker[v] => AnswerKnown(v)'
      BY <1>i, <1>1, <1>12, <3>1, WorkerKnows
    <3> QED
      BY <3>2, <3>3 DEF Told
  <2>5. ASSUME NEW k \in Keys, effects'[k] # 0
        PROVE  /\ effects'[k] = 1 /\ outbox'[k].state # "none" /\ google'[k[1]] # <<>>
               /\ ~IsCreate(outbox'[k]) => google'[k[1]][1].etag > outbox'[k].etag
    <3>1. k[1] \in Items /\ outbox[k].etag \in Nat
      BY <1>i, KeysAre DEF Row
    <3>2. CASE k[1] = i /\ Effect(k)
      BY SMT, <1>u, <3>1, <3>2 DEF Effect, NewVersion
    <3>3. CASE effects'[k] = effects[k]
      <4>1. /\ effects[k] = 1 /\ outbox[k].state # "none" /\ google[k[1]] # <<>>
            /\ ~IsCreate(outbox[k]) => google[k[1]][1].etag > outbox[k].etag
        BY <1>i, <2>5, <3>3 DEF KnownInv
      <4>2. Len(google'[k[1]]) = 1 /\ google[k[1]][1].etag <= google'[k[1]][1].etag
        BY <1>12, <3>1, <4>1 DEF VersionsGrow
      <4>3. google[k[1]][1].etag \in Nat
        BY <1>i, <3>1, <4>1, OneVersion
      <4>4. google'[k[1]][1].etag \in Nat
        <5>1. google'[k[1]] \in Seq(Version)
          BY <3>1 DEF Types
        <5>2. google'[k[1]][1] \in Version
          BY SMTT(30), <4>2, <5>1
        <5> QED
          BY <5>2 DEF Version
      <4>5. google'[k[1]] # <<>>
        BY SMT, <4>2
      <4> DEFINE a == google[k[1]][1].etag
                 b == google'[k[1]][1].etag
                 c == outbox[k].etag
      <4>6. ~IsCreate(outbox[k]) => b > c
        <5>1. a \in Nat /\ b \in Nat /\ c \in Nat /\ a <= b /\ (~IsCreate(outbox[k]) => a > c)
          BY <3>1, <4>1, <4>2, <4>3, <4>4
        <5> HIDE DEF a, b, c
        <5> QED
          BY SMT, <5>1
      <4> QED
        BY <1>u, <3>3, <4>1, <4>5, <4>6
    <3> QED
      BY <3>2, <3>3
  <2> QED
    BY <2>1, <2>2, <2>3, <2>4, <2>5 DEF KnownInv
<1> QED
  BY <1>2, <1>3, <1>4, <1>9, <1>11, <1>13 DEF Inv, HolderInv
\* Nothing is reported and nothing takes effect.
LEMMA NothingReported ==
    ASSUME Types, outbox' = outbox, kind' = kind, effects' = effects
    PROVE  Promised
<1>1. outbox \in [Keys -> Row] /\ RowsStay(outbox') /\ Silent(outbox')
  BY RowsSame DEF Types
<1>2. IntentsKept /\ Honest
  BY <1>1, RowsStayKeep DEF Honest, Silent
<1> QED
  BY <1>1, <1>2, SettleStep

\* An edit with another client leaves DayWeave's content or foreign content.
LEMMA EditAtGoogleStep == ASSUME Inv, NEW i \in Items, EditAtGoogle(i) PROVE Inv' /\ Promised
<1>i. /\ Types /\ KnownInv /\ google \in [Items -> Seq(Version)] /\ WorkInv
  BY DEF Inv, Types
<1>u. /\ flight' = flight /\ effects' = effects /\ worker' = worker /\ kind' = kind /\ outbox' = outbox
      /\ UNCHANGED <<kind, localVars, ledgerVars>>
  BY DEF EditAtGoogle, ledgerVars
<1>0. PICK n \in 1..Len(google[i]) :
          \E content \in {0, google[i][n].content}, live \in BOOLEAN :
              /\ live \/ content = 0
              /\ google' = [google EXCEPT ![i][n] =
                    [etag |-> @.etag + 1, content |-> content, live |-> live, edits |-> @.edits + 1]]
  BY DEF EditAtGoogle
<1>1. PICK content \in {0, google[i][n].content}, live \in BOOLEAN :
          /\ live \/ content = 0
          /\ google' = [google EXCEPT ![i][n] =
                [etag |-> @.etag + 1, content |-> content, live |-> live, edits |-> @.edits + 1]]
  BY <1>0
<1>2. google[i] # <<>>
  <2>1. n \in 1..Len(google[i]) /\ google[i] \in Seq(Version)
    BY <1>i
  <2> QED
    BY SMT, <2>1
<1>3. Len(google[i]) = 1 /\ google[i][1] \in Version /\ google[i][1].etag \in Nat \ {0}
  BY <1>i, <1>2, OneVersion
<1>4. n = 1
  BY SMT, <1>3
<1> DEFINE o == google[i][1]
           e == o.etag + 1
           d == o.edits + 1
           v == [etag |-> e, content |-> content, live |-> live, edits |-> d]
           s == [google[i] EXCEPT ![1] = v]
<1>5. google' = [google EXCEPT ![i] = s]
  BY <1>1, <1>4
<1>6. e \in Nat \ {0} /\ o.etag < e /\ d \in Nat /\ content \in 0..MaxRevision
  <2>1. o.etag \in Nat /\ o.edits \in Nat /\ o.content \in 0..MaxRevision
    BY <1>3 DEF Version
  <2>2. 0 \in 0..MaxRevision
    BY SMT, BoundsAre
  <2> QED
    BY SMTT(30), <1>4, <2>1, <2>2
<1>7. v \in Version /\ v.etag = e /\ v.content = content /\ v.live = live
  <2> HIDE DEF e, d
  <2> QED
    BY <1>6 DEF Version
<1> HIDE DEF v
<1>8. s \in Seq(Version) /\ Len(s) = 1 /\ s[1] = v
  <2>1. google[i] \in Seq(Version) /\ Len(google[i]) = 1
    BY <1>i, <1>3
  <2> QED
    BY SMT, <1>7, <2>1
<1> HIDE DEF s
<1>9. google'[i] = s /\ (\A j \in Items \ {i} : google'[j] = google[j]) /\ google' \in [Items -> Seq(Version)]
  BY <1>i, <1>5, <1>8
<1>10. Types'
  BY <1>i, <1>u, <1>9 DEF Types, localVars, ledgerVars
<1>11. NewVersion(i)
  <2>1. content # 0 => effects'[<<i, content>>] = 1
    BY <1>i, <1>u, <1>1, <1>2, <1>4 DEF KnownInv, Genuine
  <2> QED
    BY <1>1, <1>6, <1>7, <1>8, <1>9, <2>1 DEF NewVersion
<1>12. Inv'
  BY <1>u, <1>2, <1>10, <1>11, ProviderStep
<1> QED
  BY <1>i, <1>u, <1>12, NothingReported

\* What Google makes of a write that it carries out: a create finds no
\* object, a change finds the reviewed version, and neither was done before.
LEMMA WrittenIs ==
    ASSUME Inv, NEW k \in Keys, Writable(k), Markerless(k) => google[k[1]] = <<>>
    PROVE  /\ effects[k] = 0 /\ Written(k) \in Seq(Version) /\ Len(Written(k)) = 1
           /\ Written(k)[1].content = Content(k)
           /\ Written(k)[1].live \/ Written(k)[1].content = 0
           /\ Written(k)[1].etag \in Nat \ {0}
           /\ google[k[1]] # <<>> => Written(k)[1].etag > google[k[1]][1].etag
           /\ ~IsCreate(outbox[k]) => Written(k)[1].etag > outbox[k].etag
           /\ (IF IsCreate(outbox[k]) THEN Len(google[k[1]]) + 1 ELSE outbox[k].remote) = 1
           /\ google[k[1]] = <<>> => IsCreate(outbox[k])
<1>i. /\ Types /\ RowInv /\ KnownInv /\ google \in [Items -> Seq(Version)]
      /\ outbox \in [Keys -> Row] /\ kind \in [Items -> {"task", "event"}]
  BY DEF Inv, Types
<1>k. k[1] \in Items /\ k[2] \in Revisions /\ k[2] \in 0..MaxRevision
  BY SMT, KeysAre, BoundsAre DEF Revisions, Keys
<1> DEFINE r == outbox[k]
           objects == google[k[1]]
<1>1. /\ r \in Row /\ r.remote \in Nat /\ r.etag \in Nat /\ r.op \in {"upsert", "delete"}
      /\ objects \in Seq(Version) /\ Consistent(r) /\ effects[k] \in Nat
  BY <1>i, <1>k DEF Row, RowInv, Types
<1>2. CASE IsCreate(r)
  <2> DEFINE v == [etag |-> 1, content |-> k[2], live |-> TRUE, edits |-> 0]
  <2>1. objects = <<>>
    BY <1>2 DEF Writable, Markerless, IsCreate
  <2>2. effects[k] = 0
    BY <1>i, <2>1 DEF KnownInv
  <2>3. v \in Version /\ v.etag = 1 /\ v.content = k[2] /\ v.live
    BY SMT, <1>k DEF Version
  <2>4. Written(k) = Append(<<>>, v)
    BY <1>2, <2>1 DEF Written
  <2> HIDE DEF v
  <2>5. Written(k) \in Seq(Version) /\ Len(Written(k)) = 1 /\ Written(k)[1] = v
    BY SMT, <2>3, <2>4
  <2>6. Content(k) = k[2]
    BY <1>2 DEF Content, IsCreate
  <2>7. Len(objects) + 1 = 1
    BY SMT, <2>1
  <2> QED
    BY SMTT(30), <1>2, <2>1, <2>2, <2>3, <2>5, <2>6, <2>7
<1>3. CASE ~IsCreate(r)
  <2>1. r.remote # 0 /\ r.remote <= Len(objects) /\ objects[r.remote].etag = r.etag
    BY <1>1, <1>3 DEF Writable, Consistent, IsCreate
  <2>2. objects # <<>>
    BY SMT, <1>1, <2>1
  <2>3. Len(objects) = 1 /\ objects[1] \in Version /\ objects[1].etag \in Nat \ {0}
    BY <1>i, <1>k, <2>2, OneVersion
  <2>4. r.remote = 1
    <3> DEFINE n == r.remote
               m == Len(objects)
    <3>1. n \in Nat /\ n # 0 /\ n <= m /\ m = 1
      BY <1>1, <2>1, <2>3
    <3> HIDE DEF n, m
    <3>2. n = 1
      BY SMT, <3>1
    <3> QED
      BY <3>2 DEF n
  <2>5. effects[k] = 0
    <3>1. ~(objects[1].etag > r.etag)
      BY SMTT(30), <2>1, <2>3, <2>4
    <3> QED
      BY <1>i, <1>3, <3>1 DEF KnownInv
  <2> DEFINE o == objects[1]
             e == o.etag + 1
             live == r.op = "upsert"
             c == IF r.op = "upsert" THEN k[2] ELSE 0
             v == [o EXCEPT !.etag = e, !.live = live, !.content = c]
  <2>6. e \in Nat \ {0} /\ live \in BOOLEAN /\ c \in 0..MaxRevision /\ e > o.etag /\ e > r.etag
    <3>1. 0 \in 0..MaxRevision
      BY SMT, BoundsAre
    <3> QED
      BY SMTT(30), <1>k, <2>1, <2>3, <2>4, <3>1
  <2>7. Written(k) = [objects EXCEPT ![1] = v]
    <3> DEFINE W(m) == [objects EXCEPT ![m].etag = @ + 1, ![m].live = live, ![m].content = c]
    <3>1. Written(k) = W(r.remote)
      BY <1>3 DEF Written
    <3>2. W(1) = [objects EXCEPT ![1] = v]
      BY <1>1, <2>3
    <3> HIDE DEF W
    <3> QED
      BY <2>4, <3>1, <3>2
  <2>8. c = Content(k) /\ (live \/ c = 0)
    BY DEF Content
  <2> HIDE DEF e, live, c
  <2>9. v \in Version /\ v.etag = e /\ v.live = live /\ v.content = c
    BY <2>3, <2>6 DEF Version
  <2> HIDE DEF v
  <2>10. Written(k) \in Seq(Version) /\ Len(Written(k)) = 1 /\ Written(k)[1] = v
    BY SMTT(30), <1>1, <2>3, <2>7, <2>9
  <2> QED
    BY <1>3, <2>2, <2>4, <2>5, <2>6, <2>8, <2>9, <2>10
<1> QED
  BY <1>2, <1>3

\* Google carries a request out: the intent takes effect, for the first time.
LEMMA CarryStep == ASSUME Inv, NEW q \in flight, Carry(q) PROVE Inv' /\ Promised
<1>i. /\ Types /\ RunInv /\ RowInv /\ WorkInv /\ ThreatInv
      /\ google \in [Items -> Seq(Version)] /\ effects \in [Keys -> Nat]
      /\ worker \in [Workers -> Process] /\ outbox \in [Keys -> Row]
      /\ flight \subseteq [by : Workers, claim : 0..MaxClaims, key : Keys]
  BY DEF Inv, Types
<1>1. PICK k \in Keys : k = q.key
  BY <1>i
<1>2. PICK w \in Workers : w = q.by
  BY <1>i
<1>3. k[1] \in Items /\ outbox[k].state # "none"
  BY <1>i, <1>1, KeysAre DEF WorkInv
<1> DEFINE n == IF IsCreate(outbox[k]) THEN Len(google[k[1]]) + 1 ELSE outbox[k].remote
           o == Written(k)[1]
<1>u. /\ flight' = flight \ {q} /\ Writable(k)
      /\ google' = [google EXCEPT ![k[1]] = Written(k)]
      /\ effects' = [effects EXCEPT ![k] = @ + 1]
      /\ kind' = kind /\ outbox' = outbox /\ UNCHANGED <<kind, localVars, ledgerVars>>
  BY <1>1 DEF Carry, ledgerVars
<1>4. Markerless(k) => Posted(k) /\ google[k[1]] = <<>>
  BY <1>i, <1>1 DEF ThreatInv
<1>5. /\ effects[k] = 0 /\ Written(k) \in Seq(Version) /\ Len(Written(k)) = 1
      /\ o.content = Content(k) /\ (o.live \/ o.content = 0) /\ o.etag \in Nat \ {0}
      /\ google[k[1]] # <<>> => o.etag > google[k[1]][1].etag
      /\ ~IsCreate(outbox[k]) => o.etag > outbox[k].etag
      /\ n = 1 /\ (google[k[1]] = <<>> => IsCreate(outbox[k]))
  BY <1>u, <1>4, WrittenIs
<1>6. /\ google'[k[1]] = Written(k) /\ \A j \in Items \ {k[1]} : google'[j] = google[j]
      /\ google' \in [Items -> Seq(Version)]
  BY <1>i, <1>u, <1>3, <1>5
<1>7. /\ effects'[k] = 1 /\ (\A j \in Keys \ {k} : effects'[j] = effects[j])
      /\ effects' \in [Keys -> Nat] /\ effects' = [effects EXCEPT ![k] = 1]
  <2>1. effects[k] + 1 = 1
    BY SMT, <1>5
  <2>2. effects' = [effects EXCEPT ![k] = 1]
    BY <1>u, <2>1
  <2> QED
    BY <1>i, <2>2
<1>8. NewVersion(k[1])
  <2>1. o.content # 0 => <<k[1], o.content>> = k
    BY SMT, <1>5 DEF Content, Keys
  <2>2. google[k[1]] # <<>> => google[k[1]][1].etag < o.etag
    <3>1. google[k[1]] # <<>> => google[k[1]][1].etag \in Nat
      BY <1>i, <1>3, OneVersion DEF Inv
    <3> QED
      BY <1>5, <3>1
  <2> QED
    BY ZenonT(30), <1>5, <1>6, <1>7, <2>1, <2>2 DEF NewVersion
<1>9. \A j \in Keys : effects'[j] = effects[j] \/ (j[1] = k[1] /\ Effect(j))
  <2>1. Effect(k)
    BY <1>3, <1>5, <1>6, <1>7 DEF Effect
  <2> QED
    BY <1>7, <2>1
<1>10. ASSUME google[k[1]] = <<>>, kind[k[1]] = "task"
       PROVE  \E p \in flight : p \notin flight' /\ Asks(p, k[1])
  <2>1. Markerless(k)
    BY <1>5, <1>10 DEF IsCreate, Markerless
  <2> QED
    BY <1>1, <1>u, <2>1 DEF Asks
<1>11. worker' \in [Workers -> Process] /\ \A v \in Workers : worker'[v] = worker[v] \/ Told(v)
  <2>1. CASE ~Waits(q)
    <3>1. worker' = worker
      BY <2>1 DEF Carry
    <3> QED
      BY <1>i, <3>1
  <2>2. CASE Waits(q)
    <3> DEFINE rem(answer) == IF answer = "ok" THEN n ELSE 0
               tag(answer) == IF answer = "ok" /\ google'[k[1]][n].live
                              THEN google'[k[1]][n].etag ELSE 0
    <3>1. PICK answer \in {"ok", "unresolved", "transient", "garbled"} :
              worker' = [worker EXCEPT ![w] =
                  [Answered(w, answer) EXCEPT !.remote = rem(answer), !.etag = tag(answer)]]
      BY <1>1, <1>2, <2>2 DEF Carry
    <3>2. worker[w].pc = "sent" /\ worker[w].key = k
      BY <1>1, <1>2, <2>2 DEF Waits
    <3>3. rem(answer) \in Nat /\ tag(answer) \in Nat /\ (answer = "ok" => rem(answer) = 1)
      BY SMT, <1>5, <1>6
    <3>t. PICK t : t = tag(answer)
      OBVIOUS
    <3>4. answer = "ok" => t = IF o.live THEN o.etag ELSE 0
      BY <1>5, <1>6, <3>t
    <3> DEFINE a == Answered(w, answer)
               b == [a EXCEPT !.remote = rem(answer)]
               p == [b EXCEPT !.etag = t]
    <3>5. answer \in Answers /\ answer \notin Explicit
      BY DEF Answers, Explicit
    <3>6. /\ a \in Process /\ a.pc = "answer" /\ a.answer = answer
          /\ a.claim = worker[w].claim /\ a.page = worker[w].page /\ a.key = k
      BY SMTT(30), <1>i, <3>2, <3>5, AnsweredIs
    <3>7. worker' = [worker EXCEPT ![w] = p] /\ t \in Nat
      BY <3>1, <3>3, <3>t
    <3> HIDE DEF a, rem, tag
    <3>8. /\ b \in Process /\ b.pc = a.pc /\ b.answer = a.answer /\ b.claim = a.claim
          /\ b.page = a.page /\ b.key = a.key /\ b.remote = rem(answer)
      BY <3>3, <3>6 DEF Process
    <3> HIDE DEF b
    <3>9. /\ p \in Process /\ p.pc = b.pc /\ p.answer = b.answer /\ p.claim = b.claim
          /\ p.page = b.page /\ p.key = b.key /\ p.remote = b.remote /\ p.etag = t
      BY <3>7, <3>8 DEF Process
    <3> HIDE DEF p
    <3>10. /\ worker' \in [Workers -> Process] /\ worker'[w] = p
           /\ \A v \in Workers \ {w} : worker'[v] = worker[v]
      BY <1>i, <3>7, <3>9, Moved
    <3>11. AnswerKnown(w)'
      <4>1. ASSUME answer = "ok" PROVE Known(k[1], 1, t, Content(k))'
        <5>1. Content(k)' = Content(k)
          BY <1>u DEF Content
        <5>2. t <= o.etag
          BY SMTT(30), <1>5, <3>4, <4>1
        <5> QED
          BY <1>5, <1>6, <5>1, <5>2 DEF Known
      <4> QED
        BY SMTT(30), <1>7, <3>3, <3>6, <3>8, <3>9, <3>10, <4>1 DEF AnswerKnown, Known, Content
    <3>12. Told(w)
      BY <3>2, <3>5, <3>6, <3>8, <3>9, <3>10, <3>11 DEF Told
    <3> QED
      BY <3>10, <3>12
  <2> QED
    BY <2>1, <2>2
<1>12. Types'
  <2>1. flight' \subseteq [by : Workers, claim : 0..MaxClaims, key : Keys]
    BY <1>i, <1>u
  <2> QED
    BY <1>i, <1>u, <1>6, <1>7, <1>11, <2>1 DEF Types, localVars, ledgerVars
<1>13. Inv'
  <2>1. flight' \subseteq flight
    BY <1>u
  <2> QED
    BY <1>3, <1>u, <1>8, <1>9, <1>10, <1>11, <1>12, <2>1, ProviderStep
<1>14. Promised
  <2>1. Report[k] # "none" /\ Report' = Report
    BY <1>3, <1>u DEF Report
  <2>2. Promise!Apply(k)
    BY <1>5, <1>7, <2>1 DEF Promise!Apply
  <2> QED
    BY <2>2 DEF Promised, Promise!Next
<1> QED
  BY <1>13, <1>14
(***************************************************************************)
(* New intents                                                             *)
(***************************************************************************)
\* A new row: nobody works on it yet, and it may be a create of a task only
\* when no earlier create of that task may have been sent.
LEMMA NewRowStep ==
    ASSUME Inv, Types', NEW k \in Keys, outbox[k].state = "none", outbox'[k].state = "pending",
           ~outbox'[k].posted, Consistent(outbox'[k]), k[2] = item[k[1]].rev,
           Markerless(k)' => ~UnsafePriorCreate(k[1]),
           \A j \in Keys \ {k} : /\ Stay(j, outbox[j], outbox'[j])
                                 /\ outbox'[j].state = "published" => outbox[j].state = "published",
           \A i \in Items : preview'[i] # None => Consistent(preview'[i]),
           UNCHANGED <<kind, item, account, coll, mapping, foreign, run, worker, providerVars, starts>>
    PROVE  Inv' /\ Promised
<1>i. /\ Types /\ RunInv /\ RowInv /\ WorkInv /\ ThreatInv /\ HolderInv /\ KnownInv
      /\ outbox \in [Keys -> Row] /\ outbox' \in [Keys -> Row]
      /\ flight \subseteq [by : Workers, claim : 0..MaxClaims, key : Keys]
  BY DEF Inv, Types
<1>u. /\ kind' = kind /\ item' = item /\ mapping' = mapping /\ run' = run /\ worker' = worker
      /\ flight' = flight /\ google' = google /\ effects' = effects
  BY DEF providerVars
<1>1. ASSUME NEW j \in Keys \ {k}
      PROVE  /\ SameIntent(outbox[j], outbox'[j])
             /\ Markerless(j)' <=> Markerless(j)
             /\ IsCreate(outbox'[j]) <=> IsCreate(outbox[j])
             /\ Posted(j)' <=> Posted(j)
             /\ outbox'[j].state = "none" <=> outbox[j].state = "none"
             /\ outbox'[j].etag = outbox[j].etag /\ Content(j)' = Content(j)
             /\ Consistent(outbox'[j]) <=> Consistent(outbox[j])
  <2>1. Stay(j, outbox[j], outbox'[j]) /\ SameIntent(outbox[j], outbox'[j])
    BY DEF Stay
  <2>2. /\ Markerless(j)' <=> Markerless(j)
        /\ outbox'[j].state = "none" <=> outbox[j].state = "none"
        /\ IsCreate(outbox'[j]) <=> IsCreate(outbox[j])
        /\ outbox'[j].etag = outbox[j].etag /\ Content(j)' = Content(j)
        /\ Consistent(outbox'[j]) <=> Consistent(outbox[j])
    BY <1>u, <2>1 DEF SameIntent, Markerless, IsCreate, Content, Consistent
  <2> QED
    BY <2>1, <2>2 DEF Posted, Stay
<1>2. ~Posted(k) /\ ~Posted(k)' /\ k[1] \in Items
  BY KeysAre DEF Posted
<1>3. \A v \in Workers : worker[v].pc \in Busy => worker[v].key \in Keys \ {k}
  BY <1>i DEF WorkInv
<1>4. \A q \in flight : q.key \in Keys \ {k}
  BY <1>i DEF WorkInv
<1>5. RunInv'
  <2>1. DeliveringIsOwned'
    <3>1. ASSUME NEW j \in Keys, outbox'[j].state = "delivering"
          PROVE  outbox[j].state = "delivering" /\ outbox'[j].claim = outbox[j].claim
      BY <3>1 DEF Stay
    <3> QED
      BY <1>i, <1>u, <3>1 DEF RunInv, DeliveringIsOwned
  <2> QED
    BY <1>i, <1>u, <2>1 DEF RunInv, Active
<1>6. RowInv'
  <2>1. \A j \in Keys : Consistent(outbox'[j])
    BY <1>i, <1>1 DEF RowInv
  <2>2. ASSUME NEW j \in Keys, outbox'[j].state # "none" PROVE j[2] <= item[j[1]].rev
    <3>1. CASE j = k
      <4>1. item[k[1]].rev \in Nat
        BY <1>i, <1>2, RevisionsAre
      <4> QED
        BY SMT, <3>1, <4>1
    <3>2. CASE j # k
      BY <1>i, <1>1, <2>2, <3>2 DEF RowInv
    <3> QED
      BY <3>1, <3>2
  <2> QED
    BY <1>i, <1>u, <2>1, <2>2 DEF RowInv, Consistent
<1>7. WorkInv'
  <2>1. \A v \in Workers : worker'[v].pc \in Busy =>
            worker'[v].key \in Keys /\ outbox'[worker'[v].key].state # "none"
    BY ZenonT(30), <1>i, <1>u, <1>1, <1>3 DEF WorkInv
  <2>2. \A v \in Workers : worker'[v].pc \in {"lookup", "found"} =>
            kind'[worker'[v].key[1]] = "event" /\ IsCreate(outbox'[worker'[v].key])
    <3>1. {"lookup", "found"} \subseteq Busy
      BY DEF Busy
    <3> QED
      BY <1>i, <1>u, <1>1, <1>3, <3>1 DEF WorkInv
  <2>3. \A q \in flight' : outbox'[q.key].state # "none"
    BY <1>i, <1>u, <1>1, <1>4 DEF WorkInv
  <2> QED
    BY <2>1, <2>2, <2>3 DEF WorkInv
<1>8. ASSUME NEW i \in Items
      PROVE  /\ \A q \in flight : Asks(q, i)' <=> Asks(q, i)
             /\ \A v \in Workers : May(v, i)' <=> May(v, i)
             /\ Quiet(i)' <=> Quiet(i)
  <2>1. \A q \in flight : Asks(q, i)' <=> Asks(q, i)
    BY <1>1, <1>4 DEF Asks
  <2>2. ASSUME NEW v \in Workers PROVE May(v, i)' <=> May(v, i)
    <3>1. CASE worker[v].pc = "permit"
      <4>1. worker[v].key \in Keys \ {k}
        BY <1>3, <3>1 DEF Busy
      <4> QED
        BY ZenonT(30), <1>u, <1>1, <4>1 DEF May, Markerless
    <3>2. CASE worker[v].pc # "permit"
      BY <1>u, <3>2 DEF May
    <3> QED
      BY <3>1, <3>2
  <2> QED
    BY <1>u, <2>1, <2>2 DEF Quiet
<1>9. ThreatInv'
  <2>1. \A i \in Items : kind'[i] = "task" /\ google'[i] # <<>> =>
            \E j \in Keys : j[1] = i /\ Posted(j)'
    BY SMTT(30), <1>i, <1>u, <1>1, <1>2 DEF ThreatInv
  <2>2. ASSUME NEW q \in flight', Markerless(q.key)'
        PROVE  /\ Posted(q.key)' /\ google'[q.key[1]] = <<>>
               /\ \A x \in flight' : Asks(x, q.key[1])' => x = q
               /\ \A v \in Workers : ~May(v, q.key[1])'
    <3>1. q \in flight /\ q.key \in Keys \ {k} /\ q.key[1] \in Items /\ Markerless(q.key)
      BY <1>u, <1>1, <1>4, <2>2, KeysAre
    <3>2. /\ Posted(q.key) /\ google[q.key[1]] = <<>>
          /\ \A x \in flight : Asks(x, q.key[1]) => x = q
          /\ \A v \in Workers : ~May(v, q.key[1])
      BY <1>i, <3>1 DEF ThreatInv
    <3> QED
      BY <1>u, <1>1, <1>8, <3>1, <3>2
  <2>3. ASSUME NEW v \in Workers, NEW i \in Items, May(v, i)'
        PROVE  /\ Posted(worker[v].key)' /\ google'[i] = <<>>
               /\ \A x \in Workers : May(x, i)' => x = v
    <3>1. May(v, i)
      BY <1>8, <2>3
    <3>2. Posted(worker[v].key) /\ google[i] = <<>> /\ \A x \in Workers : May(x, i) => x = v
      BY <1>i, <3>1 DEF ThreatInv
    <3>3. PICK j \in Keys \ {k} : j = worker[v].key
      BY <1>3, <3>1 DEF May, Busy
    <3>4. Posted(j)'
      BY <1>1, <3>2, <3>3
    <3>5. Posted(worker[v].key)'
      BY <1>u, <3>3, <3>4 DEF Posted, Markerless
    <3> QED
      BY <1>u, <1>8, <3>2, <3>5
  <2>4. ASSUME NEW j \in Keys, NEW l \in Keys, j[1] = l[1], Posted(j)',
               Posted(l)' \/ (Markerless(l)' /\ outbox'[l].state \in Open /\ Current(l)')
        PROVE  j = l
    <3>1. j # k /\ Posted(j)
      BY <1>1, <1>2, <2>4
    <3>2. CASE l = k
      <4>1. UnsafePriorCreate(k[1])
        BY <2>4, <3>1, <3>2 DEF UnsafePriorCreate, Posted, Markerless
      <4> QED
        BY <1>2, <2>4, <3>2, <4>1
    <3>3. CASE l # k
      <4>1. Posted(l) \/ (Markerless(l) /\ outbox[l].state \in Open /\ Current(l))
        BY <1>1, <1>u, <2>4, <3>3 DEF SameIntent, Current
      <4> QED
        BY <1>i, <2>4, <3>1, <4>1 DEF ThreatInv
    <3> QED
      BY <3>2, <3>3
  <2> QED
    BY <2>1, <2>2, <2>3, <2>4 DEF ThreatInv
<1>10. ASSUME NEW v \in Workers PROVE Holder(v)'
  <2>1. CASE worker[v].pc \notin Busy
    BY <1>u, <2>1 DEF Holder
  <2>2. CASE worker[v].pc \in Busy
    <3>1. PICK j \in Keys \ {k} : j = worker[v].key
      BY <1>3, <2>2
    <3>2. Holder(v) /\ (Quiet(j[1])' <=> Quiet(j[1])) /\ (Markerless(j)' <=> Markerless(j))
      BY <1>i, <1>1, <1>8, KeysAre DEF HolderInv
    <3>3. Stay(j, outbox[j], outbox'[j])
      OBVIOUS
    <3>4. /\ RowHeld(j, worker[v].claim)' => RowHeld(j, worker[v].claim)
          /\ Markerless(j) => outbox'[j].posted = outbox[j].posted
      BY <1>u, <3>3 DEF Stay, RowHeld
    <3> QED
      BY <1>u, <3>1, <3>2, <3>4 DEF Holder, RowHeld, Markerless
  <2> QED
    BY <2>1, <2>2
<1>11. KnownInv'
  <2>1. OneObjectPerItem' /\ \A i \in Items : google'[i] # <<>> =>
            Genuine(i, google[i][1].content)' /\ (google'[i][1].live \/ google'[i][1].content = 0)
    BY <1>i, <1>u DEF KnownInv, OneObjectPerItem, Genuine
  <2>2. \A i \in Items : mapping'[i].remote # 0 =>
            Known(i, mapping[i].remote, mapping[i].etag, mapping[i].content)'
    BY <1>i, <1>u DEF KnownInv, Known
  <2>3. \A v \in Workers : PageKnown(v)'
    BY <1>i, <1>u DEF KnownInv, PageKnown, Known, Genuine
  <2>4. ASSUME NEW v \in Workers PROVE AnswerKnown(v)'
    <3>1. CASE worker[v].pc \notin Busy
      BY <1>u, <3>1 DEF AnswerKnown, Busy
    <3>2. CASE worker[v].pc \in Busy
      <4>1. PICK j \in Keys \ {k} : j = worker[v].key
        BY <1>3, <3>2
      <4>2. AnswerKnown(v) /\ Content(j)' = Content(j)
        BY <1>i, <1>1 DEF KnownInv
      <4> QED
        BY <1>u, <4>1, <4>2 DEF AnswerKnown, Known, Content
    <3> QED
      BY <3>1, <3>2
  <2>5. ASSUME NEW j \in Keys, effects'[j] # 0
        PROVE  /\ effects'[j] = 1 /\ outbox'[j].state # "none" /\ google'[j[1]] # <<>>
               /\ ~IsCreate(outbox'[j]) => google'[j[1]][1].etag > outbox'[j].etag
    <3>1. /\ effects[j] = 1 /\ outbox[j].state # "none" /\ google[j[1]] # <<>>
          /\ ~IsCreate(outbox[j]) => google[j[1]][1].etag > outbox[j].etag
      BY <1>i, <1>u, <2>5 DEF KnownInv
    <3> QED
      BY <1>u, <1>1, <3>1
  <2> QED
    BY <2>1, <2>2, <2>3, <2>4, <2>5 DEF KnownInv
<1>12. Promised
  <2> DEFINE ks == {j \in Keys \ {k} : outbox[j].state \in Open /\ outbox'[j].state \in Closed}
  <2>1. Report[k] = "none" /\ \A j \in ks : Report[j] = "open"
    BY DEF Report, Open, Closed
  <2>2. ASSUME NEW j \in Keys
        PROVE  Report'[j] = IF j = k THEN "open" ELSE IF j \in ks THEN "closed" ELSE Report[j]
    <3>1. CASE j = k
      BY <3>1 DEF Report, Open
    <3>2. CASE j # k
      <4>1. outbox[j].state \in States /\ outbox'[j].state \in States
        BY <1>i DEF Row
      <4>2. /\ SameIntent(outbox[j], outbox'[j])
            /\ outbox'[j].state = "published" => outbox[j].state = "published"
        BY <1>1, <3>2
      <4> QED
        BY <3>2, <4>1, <4>2 DEF Report, States, SameIntent, Open, Closed
    <3> QED
      BY <3>1, <3>2
  <2>3. Report' = [j \in Keys |-> IF j = k THEN "open" ELSE IF j \in ks THEN "closed" ELSE Report[j]]
    BY <2>2 DEF Report
  <2>4. ks \in SUBSET Keys
    OBVIOUS
  <2> HIDE DEF ks
  <2>5. Promise!Submit(k, ks)
    BY <1>u, <2>1, <2>3 DEF Promise!Submit
  <2> QED
    BY <2>4, <2>5 DEF Promised, Promise!Next
<1> QED
  BY <1>5, <1>6, <1>7, <1>9, <1>10, <1>11, <1>12 DEF Inv, HolderInv

\* enqueue_outbound.
LEMMA EnqueueStep == ASSUME Inv, NEW i \in Items, EnqueueOutbound(i) PROVE Inv' /\ Promised
<1>i. /\ Types /\ RunInv /\ RowInv /\ outbox \in [Keys -> Row]
      /\ preview \in [Items -> Review \cup {None}]
  BY DEF Inv, Types
<1>u. /\ preview' = [preview EXCEPT ![i] = None]
      /\ UNCHANGED <<kind, item, account, coll, mapping, foreign, run, worker, providerVars, starts>>
  BY DEF EnqueueOutbound
<1>1. PICK p : p = preview[i]
  OBVIOUS
<1>2. p \in Review /\ Consistent(p) /\ item[i].rev = p.rev /\ p.rev \in Revisions
  BY <1>i, <1>1 DEF EnqueueOutbound, ApprovalHolds, RowInv, Review
<1>3. PICK k \in Keys : k = <<i, p.rev>>
  BY <1>2 DEF Keys
<1> DEFINE rows == SupersedeOlder(i, p.rev)
           row == [Absent EXCEPT !.op = p.op, !.coll = p.coll, !.remote = p.remote,
                                 !.etag = p.etag]
           s == [row EXCEPT !.state = "pending"]
<1>4. RowsStay(rows) /\ Silent(rows) /\ rows \in [Keys -> Row]
  BY <1>i, TakenBack DEF RowsStay
<1>5. \/ outbox[k].state = "none" /\ outbox' = [rows EXCEPT ![k] = s]
      \/ outbox' = rows
  BY <1>1, <1>3 DEF EnqueueOutbound
<1>6. kind[i] = "task" /\ IsCreate(row) => ~UnsafePriorCreate(i)
  BY <1>1 DEF EnqueueOutbound
<1>7. /\ preview' \in [Items -> Review \cup {None}]
      /\ \A j \in Items : preview'[j] # None => Consistent(preview'[j])
  BY <1>i, <1>u DEF RowInv
<1> HIDE DEF rows
<1>8. CASE outbox' = rows
  <2>1. Types'
    BY <1>i, <1>u, <1>4, <1>7, <1>8 DEF Types, providerVars
  <2>2. RunInv'
    BY <1>i, <1>u, <1>4, <1>8, RunStays DEF ClaimsKept, Active
  <2>3. RevisionsGrow
    BY <1>i, <1>u, SameRevisions
  <2> QED
    BY <1>u, <1>4, <1>7, <1>8, <2>1, <2>2, <2>3, LedgerStep
<1>9. CASE outbox[k].state = "none" /\ outbox' = [rows EXCEPT ![k] = s]
  <2>1. Absent \in Row /\ ~Absent.posted
    BY ZeroIs DEF Absent, Row, States
  <2>2. /\ p.op \in {"upsert", "delete"} /\ p.coll \in 0..MaxConfigs
        /\ p.remote \in Nat /\ p.etag \in Nat /\ "pending" \in States
    BY <1>2 DEF Review, States, Open
  <2>3. row \in Row /\ row.op = p.op /\ row.remote = p.remote /\ row.etag = p.etag /\ ~row.posted
    BY <2>1, <2>2 DEF Row
  <2> HIDE DEF row
  <2>4. /\ s \in Row /\ s.op = row.op /\ s.remote = row.remote /\ s.etag = row.etag
        /\ s.posted = row.posted /\ s.state = "pending"
    BY <2>2, <2>3 DEF Row
  <2> HIDE DEF s
  <2>5. /\ outbox' \in [Keys -> Row] /\ outbox'[k] = s
        /\ \A j \in Keys \ {k} : outbox'[j] = rows[j]
    BY <1>4, <1>9, <2>4
  <2>6. Types'
    BY <1>i, <1>u, <1>7, <2>5 DEF Types, providerVars
  <2>7. Consistent(s)
    BY <1>2, <2>3, <2>4 DEF Consistent
  <2>8. k[1] = i /\ k[2] = item[k[1]].rev
    BY <1>2, <1>3
  <2>9. Markerless(k)' => ~UnsafePriorCreate(k[1])
    <3>1. ASSUME Markerless(k)' PROVE kind[i] = "task" /\ IsCreate(row)
      <4>1. kind[i] = "task" /\ s.op = "upsert" /\ s.remote = 0
        BY <1>u, <2>5, <2>8, <3>1 DEF Markerless
      <4> QED
        BY <2>4, <2>7, <4>1 DEF Consistent, IsCreate
    <3> QED
      BY <1>6, <2>8, <3>1
  <2>10. \A j \in Keys \ {k} : /\ Stay(j, outbox[j], outbox'[j])
                               /\ outbox'[j].state = "published" => outbox[j].state = "published"
    BY <1>4, <2>5 DEF RowsStay, Silent
  <2> QED
    BY <1>u, <1>7, <1>9, <2>3, <2>4, <2>5, <2>6, <2>7, <2>8, <2>9, <2>10, NewRowStep
<1> QED
  BY <1>5, <1>8, <1>9
(***************************************************************************)
(* The theorems                                                            *)
(***************************************************************************)
\* The invariant holds of a new account, and so does the promise.
LEMMA InitInv == Init => Inv /\ Promise!Init
<1> SUFFICES ASSUME Init PROVE Inv /\ Promise!Init
  OBVIOUS
<1>1. Types
  BY InitTypes
<1>2. /\ \A k \in Keys : outbox[k] = Absent
      /\ \A w \in Workers : worker[w] = Resting("idle")
      /\ \A i \in Items : google[i] = <<>> /\ mapping[i] = Unmapped /\ preview[i] = None
      /\ \A k \in Keys : effects[k] = 0
      /\ flight = {} /\ run.claim = 0 /\ run.gen = 0 /\ ~run.leased
  BY DEF Init
<1>3. \A k \in Keys : outbox[k].state = "none" /\ ~outbox[k].posted /\ Consistent(outbox[k])
  BY SMT, <1>2 DEF Absent, Consistent
<1>4. \A w \in Workers : worker[w].pc = "idle" /\ worker[w].page = {}
  BY SMT, <1>2 DEF Resting
<1>5. RunInv
  BY SMTT(30), <1>2, <1>3, <1>4 DEF RunInv, DeliveringIsOwned, Active
<1>6. RowInv
  BY SMT, <1>2, <1>3 DEF RowInv, Unmapped
<1>7. WorkInv
  BY <1>2, <1>4 DEF WorkInv, Busy
<1>8. ThreatInv
  BY <1>2, <1>3, <1>4 DEF ThreatInv, May, Posted
<1>9. HolderInv
  BY <1>4 DEF HolderInv, Holder, Busy
<1>10. KnownInv
  <2>1. OneObjectPerItem
    BY SMT, <1>2 DEF OneObjectPerItem
  <2> QED
    BY SMTT(30), <1>2, <1>4, <2>1 DEF KnownInv, PageKnown, AnswerKnown, Unmapped
<1>11. Promise!Init
  BY <1>3 DEF Promise!Init, Init, Report, Open, Closed
<1> QED
  BY <1>1, <1>5, <1>6, <1>7, <1>8, <1>9, <1>10, <1>11 DEF Inv

\* Every step keeps the invariant and the promise.
LEMMA NextInv == Inv /\ [Next]_vars => Inv' /\ Promised
<1> SUFFICES ASSUME Inv, [Next]_vars PROVE Inv' /\ Promised
  OBVIOUS
<1>1. CASE UserStep
  <2>1. ASSUME NEW i \in Items, EditItem(i) PROVE Inv' /\ Promised
    BY <2>1, EditItemStep
  <2>2. ASSUME NEW i \in Items, CreatePreview(i) PROVE Inv' /\ Promised
    BY <2>2, CreatePreviewStep
  <2>3. ASSUME NEW i \in Items, ApproveOutbound(i) PROVE Inv' /\ Promised
    BY <2>3, ApproveStep
  <2>4. ASSUME NEW i \in Items, ApprovalExpires(i) PROVE Inv' /\ Promised
    BY <2>4, ExpireStep
  <2>5. ASSUME NEW i \in Items, EnqueueOutbound(i) PROVE Inv' /\ Promised
    BY <2>5, EnqueueStep
  <2>6. CASE RequestRefresh
    BY <2>6, RefreshStep
  <2>7. CASE ConfigureCollection
    BY <2>7, ConfigureStep
  <2>8. CASE PauseAccount
    BY <2>8, PauseStep
  <2>9. CASE ResumeAccount
    BY <2>9, ResumeStep
  <2>10. CASE DisconnectAccount
    BY <2>10, DisconnectStep
  <2>11. CASE ReplaceAuthorization
    BY <2>11, ReplaceStep
  <2> QED
    BY <1>1, <2>1, <2>2, <2>3, <2>4, <2>5, <2>6, <2>7, <2>8, <2>9, <2>10, <2>11 DEF UserStep
<1>2. ASSUME NEW w \in Workers, WorkerStep(w) PROVE Inv' /\ Promised
  <2>1. CASE ClaimDue(w)
    BY <2>1, ClaimDueStep
  <2>2. CASE CompleteRun(w) \/ FailRun(w)
    BY <2>2, EndRunStep DEF CompleteRun, FailRun
  <2>3. CASE ReadPage(w)
    BY <2>3, ReadPageStep
  <2>4. CASE ApplyRemoteItem(w)
    BY <2>4, ApplyRemoteItemStep
  <2>5. CASE EndInbound(w)
    BY <2>5, EndInboundStep
  <2>6. CASE ClaimOutbound(w)
    BY <2>6, ClaimOutboundStep
  <2>7. CASE LoseRun(w)
    BY <2>7, LoseRunStep
  <2>8. CASE LookUpEvent(w)
    BY <2>8, LookUpStep
  <2>9. CASE PrepareFails(w)
    BY <2>9, PrepareFailsStep
  <2>10. CASE AuthorizeDispatch(w)
    BY <2>10, AuthorizeStep
  <2>11. CASE Send(w)
    BY <2>11, SendStep
  <2>12. CASE CancelBeforeSend(w)
    BY <2>12, CancelStep
  <2>13. CASE LoseAnswer(w)
    BY <2>13, LoseAnswerStep
  <2>14. CASE CompleteOutbound(w)
    BY <2>14, CompleteStep
  <2>15. CASE FailOutbound(w)
    BY <2>15, FailStep
  <2> QED
    BY <1>2, <2>1, <2>2, <2>3, <2>4, <2>5, <2>6, <2>7, <2>8, <2>9, <2>10, <2>11, <2>12, <2>13,
       <2>14, <2>15 DEF WorkerStep
<1>3. ASSUME NEW w \in Workers, Crash(w) PROVE Inv' /\ Promised
  BY <1>3, CrashStep
<1>4. ASSUME NEW w \in Workers, Start(w) PROVE Inv' /\ Promised
  BY <1>4, StartStep
<1>5. CASE LeaseExpires
  BY <1>5, ExpiryStep
<1>6. ASSUME NEW q \in flight, Carry(q) PROVE Inv' /\ Promised
  BY <1>6, CarryStep
<1>7. ASSUME NEW q \in flight, Refuse(q) PROVE Inv' /\ Promised
  BY <1>7, RefuseStep
<1>8. ASSUME NEW i \in Items, EditAtGoogle(i) PROVE Inv' /\ Promised
  BY <1>8, EditAtGoogleStep
<1>9. CASE UNCHANGED vars
  <2>1. /\ UNCHANGED <<kind, ledgerVars, worker, providerVars>>
        /\ item' = item /\ account' = account /\ coll' = coll /\ preview' = preview
    BY <1>9 DEF vars, localVars
  <2>2. Types /\ RowInv
    BY DEF Inv
  <2>3. Types'
    BY <2>1, <2>2 DEF Types, ledgerVars, providerVars
  <2>4. RevisionsGrow
    BY <2>1, <2>2, SameRevisions
  <2> QED
    BY <2>1, <2>2, <2>3, <2>4, LocalStep DEF RowInv
<1> QED
  BY <1>1, <1>2, <1>3, <1>4, <1>5, <1>6, <1>7, <1>8, <1>9 DEF Next

\* The inductive invariant holds in every reachable state.
LEMMA Invariant == Spec => []Inv
<1>1. Init => Inv
  BY InitInv
<1>2. Inv /\ [Next]_vars => Inv'
  BY NextInv
<1> QED
  BY <1>1, <1>2, PTL DEF Spec

\* The items, the outbox, the run, the workers and the effects at Google keep
\* their types, for any number of items, workers and requests.
THEOREM OutboundTypes == Spec => []TypeOK
<1>1. Inv => TypeOK
  BY TypesAre DEF Inv
<1> QED
  BY <1>1, Invariant, PTL

\* A row in delivery carries the claim of the run that is running now: no
\* pause, disconnect, restart, takeover or end of a run leaves one behind.
THEOREM OutboundDeliveringIsOwned == Spec => []DeliveringIsOwned
<1>1. Inv => DeliveringIsOwned
  BY DEF Inv, RunInv
<1> QED
  BY <1>1, Invariant, PTL

\* However a create is retried, lost, cancelled, taken over or approved
\* again, an item has at most one object at Google.
THEOREM OutboundOneObjectPerItem == Spec => []OneObjectPerItem
<1>1. Inv => OneObjectPerItem
  BY DEF Inv, KnownInv
<1> QED
  BY <1>1, Invariant, PTL

\* A mapping that carries the object's present etag describes its present
\* content: an If-Match write never goes over something the user did not see.
THEOREM OutboundMappingIsSound == Spec => []MappingIsSound
<1>1. Inv => MappingIsSound
  BY DEF Inv, KnownInv, Known, MappingIsSound
<1> QED
  BY <1>1, Invariant, PTL

\* The outbox implements ProviderWrite: an approved intent takes effect at
\* most once, and none is reported as published that Google does not have.
THEOREM OutboundKeepsPromise == Spec => KeepsPromise
<1>1. Init => Promise!Init
  BY InitInv
<1>2. Inv /\ [Next]_vars => [Promise!Next]_(Promise!vars)
  BY NextInv DEF Promised
<1> QED
  BY <1>1, <1>2, Invariant, PTL DEF Spec, KeepsPromise, Promise!Spec
=============================================================================

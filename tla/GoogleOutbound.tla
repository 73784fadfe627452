--------------------------- MODULE GoogleOutbound ---------------------------
(***************************************************************************)
(* Publication of DayWeave items to Google (google_sync/service.rs,        *)
(* persistence/google_sync_repository.rs and the account transitions of    *)
(* persistence/google_oauth_repository.rs): one account, one collection.   *)
(*                                                                         *)
(* A user previews, approves and enqueues a write; the row of the outbox   *)
(* is delivered by a worker of one of the API processes under a leased     *)
(* sync run.  Every repository call is one transaction and one step.       *)
(* Between them the process may crash, its lease may run out, another      *)
(* process may take the run over, the user may edit the item, reconfigure  *)
(* the collection or pause the account, the request may be answered late   *)
(* or not at all, and somebody may edit the object at Google.              *)
(*                                                                         *)
(* A calendar event is created under an id DayWeave chooses; a task is     *)
(* not ("markerless"), so a create whose answer is lost can never be told  *)
(* from one that never arrived.                                            *)
(*                                                                         *)
(* A claim is named by its generation.  A worker handles one row at a      *)
(* time, so the row's claim id and dispatch nonce are the worker's own     *)
(* exactly when the row still carries the worker's run claim.  Leases and  *)
(* deadlines end at any moment.  Two revisions never export the same       *)
(* content, so content is the revision it was exported from.               *)
(***************************************************************************)
EXTENDS Naturals, Sequences, FiniteSets

CONSTANTS
    None,
    Items,
    Workers,      \* one sync worker per API process
    MaxRevision,  \* bound: revisions of an item
    MaxClaims,    \* bound: claims of the sync run
    MaxEdits,     \* bound: provider-side edits of each object
    MaxConfigs,   \* bound: configurations of the collection
    MaxStarts     \* bound: process starts after the first ones

ASSUME OutboundAssumption ==
    /\ None \notin Items
    /\ {MaxRevision, MaxClaims, MaxEdits, MaxConfigs, MaxStarts} \subseteq Nat
    /\ MaxRevision > 0 /\ MaxConfigs > 0

VARIABLES
    kind,      \* "task" or "event"
    item,      \* items: revision, and whether it is in the trash
    account,   \* provider_accounts.status
    coll,      \* google_sync_collections: revision, selected and writable
    preview,   \* google_outbound_previews: the open one of each item
    outbox,    \* google_sync_outbox, by item and revision
    mapping,   \* provider_sync_mappings owned by DayWeave, by item
    foreign,   \* objects with a mapping that is not DayWeave's
    run,       \* google_sync_runs
    worker,    \* where each process is
    flight,    \* requests under way to Google
    google,    \* the objects created for each item, in order
    effects,   \* how often each row's write has taken effect
    starts     \* process starts used

localVars == <<item, account, coll, preview>>
ledgerVars == <<outbox, mapping, foreign, run>>
providerVars == <<flight, google, effects>>
vars == <<kind, localVars, ledgerVars, worker, providerVars, starts>>

Revisions == 1..MaxRevision
Keys == Items \X Revisions

Absent ==
    [state |-> "none", op |-> "upsert", coll |-> 0, remote |-> 0, etag |-> 0,
     claim |-> 0, permit |-> FALSE, posted |-> FALSE, unresolved |-> FALSE]

Open == {"pending", "delivering", "backoff"}
Closed == {"conflict", "superseded", "failed"}

Unmapped == [remote |-> 0, etag |-> 0, content |-> 0, gone |-> FALSE]

Resting(pc) ==
    [pc |-> pc, claim |-> 0, key |-> None, posted |-> FALSE,
     page |-> {}, coll |-> 0, answer |-> "none", remote |-> 0, etag |-> 0]

Init ==
    /\ kind \in [Items -> {"task", "event"}]
    /\ item = [i \in Items |-> [rev |-> 1, trashed |-> FALSE]]
    /\ account = "active"
    /\ coll = [rev |-> 1, writable |-> TRUE]
    /\ preview = [i \in Items |-> None]
    /\ outbox = [k \in Keys |-> Absent]
    /\ mapping = [i \in Items |-> Unmapped]
    /\ foreign = [i \in Items |-> {}]
    /\ run = [state |-> "idle", claim |-> 0, gen |-> 0, leased |-> FALSE]
    /\ worker = [w \in Workers |-> Resting("idle")]
    /\ flight = {}
    /\ google = [i \in Items |-> <<>>]
    /\ effects = [k \in Keys |-> 0]
    /\ starts = 0

(***************************************************************************)
(* Conditions the transactions share                                       *)
(***************************************************************************)
\* ensure_run_identity: the run still names this claim, whatever its lease.
RunIs(g) == run.claim = g

\* ensure_run_claim and renew_claim.
RunHeld(g) == RunIs(g) /\ run.leased

RowHeld(k, g) == outbox[k].state = "delivering" /\ outbox[k].claim = g

Current(k) == item[k[1]].rev = k[2]

\* A create of a task, which carries no id of DayWeave's choosing.
Markerless(k) ==
    kind[k[1]] = "task" /\ outbox[k].op = "upsert" /\ outbox[k].remote = 0

IsCreate(r) == r.op = "upsert" /\ r.remote = 0 /\ r.etag = 0

\* A create needs an item (and, for an event, its id) without mapping; an
\* update or a delete the exact mapping that was reviewed.
MappingFits(k) ==
    LET r == outbox[k]
        m == mapping[k[1]]
    IN \/ /\ IsCreate(r)
          /\ m.remote = 0
          /\ kind[k[1]] = "event" => 1 \notin foreign[k[1]]
       \/ /\ r.remote # 0 /\ r.etag # 0
          /\ m.remote = r.remote /\ m.etag = r.etag

CollectionFits(k) == coll.writable /\ coll.rev = outbox[k].coll

(***************************************************************************)
(* Ways a row loses its delivery claim                                     *)
(***************************************************************************)
Release(r, state) ==
    [r EXCEPT !.state = state, !.claim = 0, !.permit = FALSE, !.unresolved = FALSE]

\* The CASE of every statement that takes a delivery back: a markerless
\* create that may have been sent is a conflict for the user to resolve.
TakeBack(k, r, state) ==
    IF Markerless(k) /\ r.posted
    THEN [Release(r, "conflict") EXCEPT !.unresolved = TRUE]
    ELSE Release(r, state)

\* Mutant: the end of a run leaves its deliveries as they are.
KeepChildren(g) == outbox

\* reconcile_outbound_for_parent_end.
EndChildren(g) ==
    [k \in Keys |-> IF RowHeld(k, g) THEN TakeBack(k, outbox[k], "backoff")
                                     ELSE outbox[k]]

\* conflict_active_outbox.
ConflictActive(i, rows) ==
    [k \in Keys |-> IF k[1] = i /\ rows[k].state \in Open \cup {"conflict"}
                    THEN TakeBack(k, rows[k], "conflict") ELSE rows[k]]

ConflictOpen ==
    [k \in Keys |-> IF outbox[k].state \in Open THEN Release(outbox[k], "conflict")
                                                ELSE outbox[k]]

(***************************************************************************)
(* The user: items, approvals, configuration                               *)
(***************************************************************************)
\* An edit, a move to the trash or a restore.
EditItem(i) ==
    /\ item[i].rev < MaxRevision
    /\ \E trashed \in BOOLEAN :
           item' = [item EXCEPT ![i] = [rev |-> @.rev + 1, trashed |-> trashed]]
    /\ UNCHANGED <<kind, account, coll, preview, ledgerVars, worker, providerVars, starts>>

\* Mutant: only rows that end as an unresolved identity are unsafe.
OnlyUnresolvedIsUnsafe(i) ==
    \E k \in Keys : k[1] = i /\ outbox[k].op = "upsert" /\ outbox[k].unresolved

\* unsafe_prior_create: a create of this task may already be at Google.
UnsafePriorCreate(i) ==
    \E k \in Keys :
        /\ k[1] = i /\ outbox[k].state # "none" /\ outbox[k].op = "upsert"
        /\ outbox[k].unresolved \/ (outbox[k].remote = 0 /\ outbox[k].posted)

\* create_outbound_preview: what is to be written, against what is known of
\* the object.  Only the latest preview can still be enqueued: revisions,
\* configurations and etags never come back.
CreatePreview(i) ==
    LET op == IF item[i].trashed THEN "delete" ELSE "upsert"
        m == mapping[i]
    IN /\ account = "active" /\ coll.writable
       /\ m.remote # 0 => m.etag # 0
       /\ op = "delete" => m.remote # 0
       /\ (kind[i] = "task" /\ op = "upsert" /\ m.remote = 0) => ~UnsafePriorCreate(i)
       /\ preview' = [preview EXCEPT ![i] =
              [rev |-> item[i].rev, op |-> op, coll |-> coll.rev,
               remote |-> m.remote, etag |-> m.etag, approved |-> FALSE]]
       /\ preview' # preview
       /\ UNCHANGED <<kind, item, account, coll, ledgerVars, worker, providerVars, starts>>

\* approve_outbound: rechecks what the preview was made from.
ApproveOutbound(i) ==
    /\ preview[i] # None /\ ~preview[i].approved
    /\ account = "active" /\ coll.writable /\ coll.rev = preview[i].coll
    /\ item[i].rev = preview[i].rev
    /\ preview' = [preview EXCEPT ![i].approved = TRUE]
    /\ UNCHANGED <<kind, item, account, coll, ledgerVars, worker, providerVars, starts>>

\* An approval runs out.
ApprovalExpires(i) ==
    /\ preview[i] # None
    /\ preview' = [preview EXCEPT ![i] = None]
    /\ UNCHANGED <<kind, item, account, coll, ledgerVars, worker, providerVars, starts>>

\* What enqueue_outbound checks of the approval against the present state.
ApprovalHolds(i) ==
    LET p == preview[i]
        m == mapping[i]
    IN /\ p # None /\ p.approved
       /\ account = "active" /\ coll.writable /\ coll.rev = p.coll
       /\ item[i].rev = p.rev
       /\ m.remote # 0 => m.etag # 0
       /\ m.remote = p.remote /\ m.etag = p.etag
       /\ p.op = "delete" => p.remote # 0

\* A newer revision of the item takes the place of what is not published.
SupersedeOlder(i, rev) ==
    [k \in Keys |-> IF /\ k[1] = i /\ k[2] < rev
                       /\ outbox[k].state \in Open \cup {"conflict", "failed"}
                    THEN Release(outbox[k], "superseded") ELSE outbox[k]]

\* enqueue_outbound; an intent that is in the outbox already is a receipt.
EnqueueOutbound(i) ==
    LET p == preview[i]
        k == <<i, p.rev>>
        row == [Absent EXCEPT !.op = p.op, !.coll = p.coll, !.remote = p.remote,
                              !.etag = p.etag]
        intent(r) == <<r.op, r.coll, r.remote, r.etag>>
    IN /\ ApprovalHolds(i)
       /\ (kind[i] = "task" /\ IsCreate(row)) => ~UnsafePriorCreate(i)
       /\ preview' = [preview EXCEPT ![i] = None]
       /\ \/ /\ outbox[k].state = "none"
             /\ outbox' = [SupersedeOlder(i, p.rev) EXCEPT ![k] = [row EXCEPT !.state = "pending"]]
          \/ /\ outbox[k].state # "none" /\ intent(outbox[k]) = intent(row)
             /\ outbox' = SupersedeOlder(i, p.rev)
       /\ UNCHANGED <<kind, item, account, coll, mapping, foreign, run, worker, providerVars, starts>>

\* request_refresh: a run that had stopped may be claimed again.
RequestRefresh ==
    /\ account = "active"
    /\ run.state \in {"failed", "reauthorization_required"}
    /\ run' = [run EXCEPT !.state = "idle"]
    /\ UNCHANGED <<kind, localVars, outbox, mapping, foreign, worker, providerVars, starts>>

\* update_collection; and the discovery of a collection that was deleted or
\* downgraded at Google, which leaves it unwritable.
ConfigureCollection ==
    /\ coll.rev < MaxConfigs
    /\ account = "active"
    /\ \E writable \in BOOLEAN : coll' = [rev |-> coll.rev + 1, writable |-> writable]
    /\ outbox' = ConflictOpen
    /\ UNCHANGED <<kind, item, account, preview, mapping, foreign, run, worker, providerVars, starts>>

(***************************************************************************)
(* Account transitions                                                     *)
(***************************************************************************)
\* set_paused(true): deliveries are put back without looking at whether a
\* markerless create may have been sent.
PauseAccount ==
    /\ account = "active"
    /\ account' = "paused"
    /\ run' = [run EXCEPT !.state = "idle", !.claim = 0, !.leased = FALSE]
    /\ outbox' = [k \in Keys |-> IF outbox[k].state = "delivering"
                                 THEN Release(outbox[k], "backoff") ELSE outbox[k]]
    /\ UNCHANGED <<kind, item, coll, preview, mapping, foreign, worker, providerVars, starts>>

\* set_paused(false).
ResumeAccount ==
    /\ account = "paused"
    /\ account' = "active"
    /\ UNCHANGED <<kind, item, coll, preview, ledgerVars, worker, providerVars, starts>>

\* The disconnect fence.
DisconnectAccount ==
    /\ account \in {"active", "paused"}
    /\ account' = "disconnecting"
    /\ outbox' = ConflictOpen
    /\ run' = [run EXCEPT !.state = "idle", !.claim = 0, !.leased = FALSE]
    /\ UNCHANGED <<kind, item, coll, preview, mapping, foreign, worker, providerVars, starts>>

\* A new authorization of the same account replaces its credentials.
ReplaceAuthorization ==
    /\ account \in {"active", "paused"}
    /\ account' = "active"
    /\ outbox' = [k \in Keys |-> IF outbox[k].state = "delivering"
                                 THEN TakeBack(k, outbox[k], "backoff") ELSE outbox[k]]
    /\ run' = [run EXCEPT !.state = IF @ \in {"running", "reauthorization_required"}
                                    THEN "idle" ELSE @,
                          !.claim = 0, !.leased = FALSE]
    /\ UNCHANGED <<kind, item, coll, preview, mapping, foreign, worker, providerVars, starts>>

(***************************************************************************)
(* Processes and the sync run                                              *)
(***************************************************************************)
\* A process dies; what it sent stays under way.
Crash(w) ==
    /\ worker[w].pc # "down"
    /\ starts < MaxStarts
    /\ worker' = [worker EXCEPT ![w] = Resting("down")]
    /\ UNCHANGED <<kind, localVars, ledgerVars, providerVars, starts>>

\* A process starts: recover_startup takes back every delivery and run, also
\* those of a process that is still alive.
Start(w) ==
    /\ worker[w].pc = "down"
    /\ starts' = starts + 1
    /\ worker' = [worker EXCEPT ![w] = Resting("idle")]
    /\ outbox' = [k \in Keys |-> IF outbox[k].state = "delivering"
                                 THEN TakeBack(k, outbox[k], "backoff") ELSE outbox[k]]
    /\ run' = IF run.state = "running"
              THEN [run EXCEPT !.state = "backoff", !.claim = 0, !.leased = FALSE] ELSE run
    /\ UNCHANGED <<kind, localVars, mapping, foreign, providerVars>>

\* Ten minutes pass without a heartbeat.
LeaseExpires ==
    /\ run.leased
    /\ run' = [run EXCEPT !.leased = FALSE]
    /\ UNCHANGED <<kind, localVars, outbox, mapping, foreign, worker, providerVars, starts>>

\* Mutant: a run whose lease ran out is left to its worker.
NoTakeover == FALSE

Expired == run.state = "running" /\ ~run.leased

\* claim_due: an expired run loses its deliveries and its claim; then a run
\* that is due is claimed under a new generation.
ClaimDue(w) ==
    /\ worker[w].pc = "idle"
    /\ Expired \/ run.state \in {"idle", "backoff"}
    /\ outbox' = IF Expired THEN EndChildren(run.claim) ELSE outbox
    /\ \/ /\ account = "active" /\ run.gen < MaxClaims
          /\ run' = [state |-> "running", claim |-> run.gen + 1, gen |-> run.gen + 1,
                     leased |-> TRUE]
          /\ worker' = [worker EXCEPT ![w].pc = "inbound", ![w].claim = run.gen + 1]
       \/ \* expired, and nothing else is due
          /\ Expired /\ (account # "active" \/ run.gen = MaxClaims)
          /\ run' = [run EXCEPT !.state = "backoff", !.claim = 0]
          /\ UNCHANGED worker
    /\ UNCHANGED <<kind, localVars, mapping, foreign, providerVars, starts>>

\* complete_claim or fail_claim; a worker whose run is no longer its own
\* changes nothing and goes back to polling.
EndRun(w, state) ==
    /\ IF RunHeld(worker[w].claim)
       THEN /\ outbox' = EndChildren(worker[w].claim)
            /\ run' = [run EXCEPT !.state = state, !.claim = 0, !.leased = FALSE]
       ELSE UNCHANGED <<outbox, run>>
    /\ worker' = [worker EXCEPT ![w] = Resting("idle")]
    /\ UNCHANGED <<kind, localVars, mapping, foreign, providerVars, starts>>

CompleteRun(w) == worker[w].pc = "done" /\ EndRun(w, "idle")

\* drain_one: what is recorded depends on the error that ended the run.
FailRun(w) ==
    /\ worker[w].pc = "failing"
    /\ \E state \in {"backoff", "reauthorization_required", "failed"} : EndRun(w, state)

(***************************************************************************)
(* Inbound: what Google has, applied object by object                      *)
(***************************************************************************)
\* The objects of the accounts' collection at Google.
Objects == {j \in Items \X (1..2) : j[2] <= Len(google[j[1]])}

\* The feed lists the objects that changed since the cursor, in the version
\* they have now.  A collection that is not selected is skipped.
ReadPage(w) ==
    /\ worker[w].pc = "inbound"
    /\ \/ \E listed \in SUBSET Objects :
              worker' = [worker EXCEPT ![w].pc = "page", ![w].coll = coll.rev,
                           ![w].page = {<<j[1], j[2], google[j[1]][j[2]]>> : j \in listed}]
       \/ worker' = [worker EXCEPT ![w].pc = "failing"]
    /\ UNCHANGED <<kind, localVars, ledgerVars, providerVars, starts>>

\* recover_dayweave_mapping: the create of this event the object could be.
Recoverable(i) ==
    {k \in Keys : /\ k[1] = i /\ kind[i] = "event" /\ ~item[i].trashed
                  /\ outbox[k].op = "upsert" /\ outbox[k].remote = 0
                  /\ outbox[k].state \in Open \cup {"superseded"}
                  /\ outbox[k].state = "delivering" => outbox[k].claim = run.claim}

\* Mutant: only the version of a changed object is noted.
NoteVersion(m, o) == [m EXCEPT !.etag = o.etag, !.gone = FALSE]

\* What apply_remote_upsert makes of DayWeave's own mapping.
Observed(m, o) == [m EXCEPT !.etag = o.etag, !.content = o.content, !.gone = FALSE]

ReleaseAll(rows, state) ==
    [k \in Keys |-> IF k \in rows THEN Release(outbox[k], state) ELSE outbox[k]]

\* What applying object o (the n-th created for item i) does to the rows,
\* to the mapping and to the foreign mappings of that item.
ApplyLive(i, n, o) ==
    LET m == mapping[i]
        rows == Recoverable(i)
        exact == {k \in rows : o.content = k[2]}
        latest == {k \in rows : \A j \in rows : j[2] <= k[2]}
    IN IF m.remote = n  \* apply_remote_upsert, DayWeave's own
       THEN [outbox |-> IF m.etag # o.etag \/ m.content # o.content
                        THEN ConflictActive(i, outbox) ELSE outbox,
             mapping |-> Observed(m, o),
             foreign |-> foreign[i]]
       ELSE IF rows = {}
       THEN [outbox |-> outbox, mapping |-> m, foreign |-> foreign[i] \cup {n}]
       ELSE IF exact # {} /\ m.remote = 0 /\ n \notin foreign[i]
       THEN [outbox |-> ReleaseAll(exact, "published"),
             mapping |-> [remote |-> n, etag |-> o.etag, content |-> o.content, gone |-> FALSE],
             foreign |-> foreign[i]]
       ELSE [outbox |-> ReleaseAll(IF exact # {} THEN exact ELSE latest, "conflict"),
             mapping |-> m, foreign |-> foreign[i] \cup {n}]

\* apply_remote_delete.
ApplyGone(i, n, o) ==
    LET m == mapping[i]
    IN IF m.remote # n
       THEN [outbox |-> outbox, mapping |-> m, foreign |-> foreign[i]]
       ELSE [outbox |-> IF m.gone /\ m.etag = o.etag THEN outbox ELSE ConflictActive(i, outbox),
             mapping |-> [m EXCEPT !.etag = o.etag, !.content = 0],
             foreign |-> foreign[i]]

\* apply_remote_item, behind ensure_inbound_claim.
ApplyRemoteItem(w) ==
    LET held == /\ RunHeld(worker[w].claim)
                /\ account = "active" /\ coll.rev = worker[w].coll
    IN /\ worker[w].pc = "page"
       /\ \E x \in worker[w].page :
              IF held
              THEN LET d == IF x[3].live THEN ApplyLive(x[1], x[2], x[3])
                                         ELSE ApplyGone(x[1], x[2], x[3])
                   IN /\ outbox' = d.outbox
                      /\ mapping' = [mapping EXCEPT ![x[1]] = d.mapping]
                      /\ foreign' = [foreign EXCEPT ![x[1]] = d.foreign]
                      /\ worker' = [worker EXCEPT ![w].page = @ \ {x}]
              ELSE /\ worker' = [worker EXCEPT ![w].pc = "failing", ![w].page = {}]
                   /\ UNCHANGED <<outbox, mapping, foreign>>
       /\ UNCHANGED <<kind, localVars, run, providerVars, starts>>

EndInbound(w) ==
    /\ worker[w].pc = "page" /\ worker[w].page = {}
    /\ worker' = [worker EXCEPT ![w].pc = "outbound", ![w].coll = 0]
    /\ UNCHANGED <<kind, localVars, ledgerVars, providerVars, starts>>

(***************************************************************************)
(* Outbound: claim a row, authorize the dispatch, send, record the outcome *)
(***************************************************************************)
\* The repairs claim_outbound makes before it picks a row, in their order.
Repaired(k, g, old) ==
    LET r == outbox[k]
        r1 == IF r.state = "delivering" /\ r.claim # g THEN TakeBack(k, r, "backoff") ELSE r
        r2 == IF r1.state \in Open /\ ~Current(k) THEN TakeBack(k, r1, "superseded") ELSE r1
        r3 == IF r2.state = "delivering" /\ old THEN TakeBack(k, r2, "backoff") ELSE r2
    IN IF r3.state \in {"pending", "backoff"} /\ ~MappingFits(k)
       THEN Release(r3, "conflict") ELSE r3

\* guard_new_task_insert refuses a create that may have been sent before.
GuardNewTaskInsert(posted) == posted

\* claim_outbound after a heartbeat; old says whether the child lease of a
\* row this run left behind has run out.  An event that is to be created is
\* looked up first.
ClaimOutbound(w) ==
    LET g == worker[w].claim
    IN /\ worker[w].pc = "outbound"
       /\ RunHeld(g) /\ account = "active"
       /\ \E old \in BOOLEAN :
            LET rows == [k \in Keys |-> Repaired(k, g, old)]
                ready == {k \in Keys : /\ rows[k].state \in {"pending", "backoff"}
                                       /\ CollectionFits(k) /\ Current(k)}
            IN \/ \E k \in ready :
                    /\ outbox' = [rows EXCEPT ![k].state = "delivering", ![k].claim = g,
                                              ![k].permit = FALSE]
                    /\ worker' = [worker EXCEPT ![w] =
                         [@ EXCEPT !.key = k, !.posted = rows[k].posted,
                            !.pc = IF Markerless(k) /\ GuardNewTaskInsert(rows[k].posted)
                                   THEN "answer"
                                   ELSE IF kind[k[1]] = "event" /\ IsCreate(rows[k])
                                   THEN "lookup" ELSE "ready",
                            !.answer = IF Markerless(k) /\ GuardNewTaskInsert(rows[k].posted)
                                       THEN "unresolved" ELSE "none"]]
               \/ \* rows in backoff may not be due yet
                  /\ \A k \in ready : rows[k].state = "backoff"
                  /\ outbox' = rows
                  /\ worker' = [worker EXCEPT ![w].pc = "done"]
       /\ UNCHANGED <<kind, localVars, mapping, foreign, run, providerVars, starts>>

\* The heartbeat or the claim finds the run taken or the account paused.
LoseRun(w) ==
    /\ worker[w].pc = "outbound"
    /\ ~RunHeld(worker[w].claim) \/ account # "active"
    /\ worker' = [worker EXCEPT ![w].pc = "failing"]
    /\ UNCHANGED <<kind, localVars, ledgerVars, providerVars, starts>>

\* The worker drops the row it holds and goes on with the run.
Dropped(w) ==
    [worker[w] EXCEPT !.pc = "outbound", !.key = None, !.posted = FALSE,
                      !.answer = "none", !.remote = 0, !.etag = 0]

Answered(w, answer) == [worker[w] EXCEPT !.pc = "answer", !.answer = answer]

\* Mutant: an event under DayWeave's id is taken for the approved one.
OwnedIsEnough(o, k) == o.live

\* calendar_event_owned_by and calendar_event_matches_intent.
MatchesIntent(o, k) == o.live /\ o.content = k[2]

\* renew_outbound, then get_event for the id the new event would have: an
\* event that is exactly what was approved is adopted, any other is not
\* touched.
LookUpEvent(w) ==
    LET k == worker[w].key
        objects == google[k[1]]
        renewed == /\ RunHeld(worker[w].claim) /\ RowHeld(k, worker[w].claim)
                   /\ account = "active" /\ coll.writable
                   /\ Current(k) /\ MappingFits(k)
    IN /\ worker[w].pc = "lookup"
       /\ worker' = [worker EXCEPT ![w] =
              IF ~renewed THEN Dropped(w)
              ELSE IF objects = <<>> THEN [@ EXCEPT !.pc = "ready"]
              ELSE IF MatchesIntent(objects[1], k)
              THEN [@ EXCEPT !.pc = "found", !.remote = 1, !.etag = objects[1].etag]
              ELSE Answered(w, "stale")]
       /\ UNCHANGED <<kind, localVars, ledgerVars, providerVars, starts>>

\* The lookup, or the token refresh and construction of the request, fails
\* or takes too long: nothing has been sent.
PrepareFails(w) ==
    /\ worker[w].pc \in {"lookup", "ready"}
    /\ \E answer \in {"limited", "transient"} :
           worker' = [worker EXCEPT ![w] = Answered(w, answer)]
    /\ UNCHANGED <<kind, localVars, ledgerVars, providerVars, starts>>

\* task_post_may_start.
TaskPostMayStart(k) == Markerless(k)

\* authorize_outbound_dispatch: the last check before a request is sent.
AuthorizeDispatch(w) ==
    LET k == worker[w].key
        g == worker[w].claim
        write == worker[w].pc = "ready"
        r == outbox[k]
    IN /\ worker[w].pc \in {"ready", "found"}
       /\ IF /\ RunHeld(g) /\ RowHeld(k, g)
             /\ account = "active" /\ CollectionFits(k)
             /\ Current(k) /\ MappingFits(k)
          THEN /\ outbox' = [outbox EXCEPT ![k].permit = TRUE,
                                           ![k].posted = @ \/ (write /\ TaskPostMayStart(k))]
               /\ worker' = [worker EXCEPT ![w] =
                      IF write THEN [@ EXCEPT !.pc = "permit"] ELSE Answered(w, "ok")]
          ELSE /\ outbox' = IF RunIs(g) /\ RowHeld(k, g)
                            THEN [outbox EXCEPT ![k] =
                                    Release(@, IF Current(k) THEN "conflict" ELSE "superseded")]
                            ELSE outbox
               /\ worker' = [worker EXCEPT ![w] = Dropped(w)]
       /\ UNCHANGED <<kind, localVars, mapping, foreign, run, providerVars, starts>>

\* The request leaves the process.
Send(w) ==
    /\ worker[w].pc = "permit"
    /\ flight' = flight \cup {[by |-> w, claim |-> worker[w].claim, key |-> worker[w].key]}
    /\ worker' = [worker EXCEPT ![w].pc = "sent"]
    /\ UNCHANGED <<kind, localVars, ledgerVars, google, effects, starts>>

\* cancel_outbound_before_send: the thirty seconds ran out first.
CancelBeforeSend(w) ==
    LET k == worker[w].key
    IN /\ worker[w].pc = "permit"
       /\ outbox' = IF RunIs(worker[w].claim) /\ RowHeld(k, worker[w].claim)
                    THEN [outbox EXCEPT ![k] = [Release(@, "backoff") EXCEPT !.posted = FALSE]]
                    ELSE outbox
       /\ worker' = [worker EXCEPT ![w] = Dropped(w)]
       /\ UNCHANGED <<kind, localVars, mapping, foreign, run, providerVars, starts>>

\* The answer did not come in time; the request may be under way still.
\* For a markerless create that is an unresolved identity.
LoseAnswer(w) ==
    /\ worker[w].pc = "sent"
    /\ worker' = [worker EXCEPT ![w] =
           Answered(w, IF Markerless(worker[w].key) THEN "unresolved" ELSE "transient")]
    /\ UNCHANGED <<kind, localVars, ledgerVars, providerVars, starts>>

(***************************************************************************)
(* Google (external): what happens to a request, and edits made there      *)
(***************************************************************************)
\* The object of the item a row's write leaves behind, if it may be carried
\* out: a new task, an event under a free id, or the reviewed version.
Writable(k) ==
    LET r == outbox[k]
        objects == google[k[1]]
    IN IF IsCreate(r) THEN kind[k[1]] = "task" \/ objects = <<>>
       ELSE r.remote <= Len(objects) /\ objects[r.remote].live
            /\ objects[r.remote].etag = r.etag

Written(k) ==
    LET r == outbox[k]
        objects == google[k[1]]
    IN IF IsCreate(r)
       THEN Append(objects, [etag |-> 1, content |-> k[2], live |-> TRUE, edits |-> 0])
       ELSE [objects EXCEPT ![r.remote].etag = @ + 1,
                            ![r.remote].live = r.op = "upsert",
                            ![r.remote].content = IF r.op = "upsert" THEN k[2] ELSE 0]

\* The sender still waits for the answer to this request.
Waits(q) ==
    /\ worker[q.by].pc = "sent"
    /\ worker[q.by].claim = q.claim /\ worker[q.by].key = q.key

\* A request arrives and is carried out; its sender may get a good answer,
\* one it cannot use, or none.
Carry(q) ==
    LET k == q.key
        n == IF IsCreate(outbox[k]) THEN Len(google[k[1]]) + 1 ELSE outbox[k].remote
        unsure == IF Markerless(k) THEN "unresolved" ELSE "transient"
    IN /\ q \in flight
       /\ flight' = flight \ {q}
       /\ Writable(k)
       /\ google' = [google EXCEPT ![k[1]] = Written(k)]
       /\ effects' = [effects EXCEPT ![k] = @ + 1]
       /\ IF Waits(q)
          THEN \E answer \in {"ok", unsure, IF Markerless(k) THEN unsure ELSE "garbled"} :
                 worker' = [worker EXCEPT ![q.by] =
                   [Answered(q.by, answer) EXCEPT
                      !.remote = IF answer = "ok" THEN n ELSE 0,
                      !.etag = IF answer = "ok" /\ google'[k[1]][n].live
                               THEN google'[k[1]][n].etag ELSE 0]]
          ELSE UNCHANGED worker
       /\ UNCHANGED <<kind, localVars, ledgerVars, starts>>

\* A request is refused: outdated, not acceptable, or not now.
Refuse(q) ==
    /\ q \in flight
    /\ flight' = flight \ {q}
    /\ IF Waits(q)
       THEN \E answer \in IF Writable(q.key) THEN {"rejected", "limited"} ELSE {"stale", "rejected"} :
              worker' = [worker EXCEPT ![q.by] = Answered(q.by, answer)]
       ELSE UNCHANGED worker
    /\ UNCHANGED <<kind, localVars, ledgerVars, google, effects, starts>>

\* Somebody edits, touches or deletes the object with another client.
EditAtGoogle(i) ==
    /\ \E n \in 1..Len(google[i]) :
         /\ google[i][n].live /\ google[i][n].edits < MaxEdits
         /\ \E content \in {0, google[i][n].content}, live \in BOOLEAN :
              /\ live \/ content = 0
              /\ google' = [google EXCEPT ![i][n] =
                    [etag |-> @.etag + 1, content |-> content, live |-> live,
                     edits |-> @.edits + 1]]
    /\ UNCHANGED <<kind, localVars, ledgerVars, worker, flight, effects, starts>>

(***************************************************************************)
(* Recording the outcome                                                   *)
(***************************************************************************)
\* revoke_outbound_after_provider.
Revoked(k, state) ==
    IF Markerless(k) /\ outbox[k].posted
    THEN [Release(outbox[k], "conflict") EXCEPT !.unresolved = TRUE]
    ELSE [Release(outbox[k], state) EXCEPT !.posted = FALSE]

\* The mapping complete_outbound finds is the one the write was made against.
MappingUnchanged(k, n) ==
    /\ n \notin foreign[k[1]]
    /\ IF IsCreate(outbox[k]) THEN mapping[k[1]].remote = 0
       ELSE mapping[k[1]].remote = outbox[k].remote /\ mapping[k[1]].etag = outbox[k].etag

\* authorization_valid of complete_outbound.
CompletionValid(k, g) ==
    /\ RunHeld(g) /\ RowHeld(k, g) /\ outbox[k].permit
    /\ account = "active" /\ CollectionFits(k) /\ Current(k)

\* complete_outbound.
CompleteOutbound(w) ==
    LET k == worker[w].key
        g == worker[w].claim
        n == worker[w].remote
    IN /\ worker[w].pc = "answer" /\ worker[w].answer = "ok"
       /\ IF CompletionValid(k, g) /\ MappingUnchanged(k, n)
          THEN /\ mapping' = [mapping EXCEPT ![k[1]] =
                     [remote |-> n, etag |-> worker[w].etag,
                      content |-> IF outbox[k].op = "upsert" THEN k[2] ELSE 0,
                      gone |-> outbox[k].op = "delete"]]
               /\ outbox' = [outbox EXCEPT ![k] = Release(@, "published")]
          ELSE /\ outbox' = IF RunIs(g) /\ RowHeld(k, g)
                            THEN [outbox EXCEPT ![k] =
                                    Revoked(k, IF Current(k) THEN "conflict" ELSE "superseded")]
                            ELSE outbox
               /\ UNCHANGED mapping
       /\ worker' = [worker EXCEPT ![w] = Dropped(w)]
       /\ UNCHANGED <<kind, localVars, foreign, run, providerVars, starts>>

\* Answers that prove that nothing was created.
Explicit == {"stale", "rejected", "limited"}

\* preserve_task_post_uncertainty.
PreserveUncertainty(k, answer) == Markerless(k) /\ answer \notin Explicit

\* Mutant: a row takes a state only a run has.
RunState(answer) == IF answer = "limited" THEN "reauthorization_required" ELSE "conflict"

\* failure: the state of a row its error leaves behind.
FailedState(answer) ==
    IF answer \in {"stale", "rejected", "unresolved"} THEN "conflict"
    ELSE IF answer \in {"limited", "transient"} THEN "backoff" ELSE "failed"

\* process_outbound on an error, and fail_outbound.
FailOutbound(w) ==
    LET k == worker[w].key
        answer == worker[w].answer
        held == RunIs(worker[w].claim) /\ RowHeld(k, worker[w].claim)
    IN /\ worker[w].pc = "answer" /\ answer # "ok"
       /\ outbox' =
            IF ~held THEN outbox
            ELSE IF PreserveUncertainty(k, answer) /\ outbox[k].posted
            THEN [outbox EXCEPT ![k] = [Release(@, "conflict") EXCEPT !.unresolved = TRUE]]
            ELSE [outbox EXCEPT ![k] = [Release(@, FailedState(answer)) EXCEPT
                                          !.posted = FALSE, !.unresolved = answer = "unresolved"]]
       /\ worker' = [worker EXCEPT ![w] =
            IF held /\ answer \notin {"limited", "transient"} THEN Dropped(w)
            ELSE [Dropped(w) EXCEPT !.pc = "failing"]]
       /\ UNCHANGED <<kind, localVars, mapping, foreign, run, providerVars, starts>>

(***************************************************************************)
(* Specification                                                           *)
(***************************************************************************)
\* What a live worker does by itself.
WorkerStep(w) ==
    \/ ClaimDue(w)
    \/ CompleteRun(w)
    \/ FailRun(w)
    \/ ReadPage(w)
    \/ ApplyRemoteItem(w)
    \/ EndInbound(w)
    \/ ClaimOutbound(w)
    \/ LoseRun(w)
    \/ LookUpEvent(w)
    \/ PrepareFails(w)
    \/ AuthorizeDispatch(w)
    \/ Send(w)
    \/ CancelBeforeSend(w)
    \/ LoseAnswer(w)
    \/ CompleteOutbound(w)
    \/ FailOutbound(w)

UserStep ==
    \/ \E i \in Items :
         \/ EditItem(i)
         \/ CreatePreview(i)
         \/ ApproveOutbound(i)
         \/ ApprovalExpires(i)
         \/ EnqueueOutbound(i)
    \/ RequestRefresh
    \/ ConfigureCollection
    \/ PauseAccount
    \/ ResumeAccount
    \/ DisconnectAccount
    \/ ReplaceAuthorization

Next ==
    \/ UserStep
    \/ \E w \in Workers : Crash(w) \/ Start(w) \/ WorkerStep(w)
    \/ LeaseExpires
    \/ \E q \in flight : Carry(q) \/ Refuse(q)
    \/ \E i \in Items : EditAtGoogle(i)

Spec == Init /\ [][Next]_vars

\* A worker keeps polling and its waits are bounded by timeouts; a stopped
\* process is started again; a lease that is not renewed runs out.
Fairness ==
    /\ \A w \in Workers : WF_vars(WorkerStep(w)) /\ WF_vars(Start(w))
    /\ WF_vars(LeaseExpires)

FairSpec == Spec /\ Fairness

(***************************************************************************)
(* Properties                                                              *)
(***************************************************************************)
\* Every variable holds what its table, request or process can hold.
TypeOK ==
    /\ item \in [Items -> [rev : Revisions, trashed : BOOLEAN]]
    /\ account \in {"active", "paused", "disconnecting"}
    /\ outbox \in [Keys -> [state : Open \cup Closed \cup {"none", "published"},
                            op : {"upsert", "delete"}, coll : 0..MaxConfigs,
                            remote : Nat, etag : Nat, claim : 0..MaxClaims,
                            permit : BOOLEAN, posted : BOOLEAN, unresolved : BOOLEAN]]
    /\ run \in [state : {"idle", "running", "backoff", "failed", "reauthorization_required"},
                claim : 0..MaxClaims, gen : 0..MaxClaims, leased : BOOLEAN]
    /\ \A w \in Workers :
          worker[w].pc \in {"down", "idle", "inbound", "page", "outbound", "lookup", "ready",
                           "found", "permit", "sent", "answer", "done", "failing"}
    /\ effects \in [Keys -> Nat]

\* However often a create is retried, taken over, paused, cancelled, lost or
\* approved again, an item has at most one object at Google.
OneObjectPerItem == \A i \in Items : Len(google[i]) <= 1

\* A row that is being delivered belongs to the run that is running now: a
\* worker that comes back after a takeover finds no row to record on.
DeliveringIsOwned ==
    \A k \in Keys : outbox[k].state = "delivering" =>
        run.state = "running" /\ run.claim = outbox[k].claim

\* A mapping that carries the object's present etag also describes its
\* present content: the If-Match of the next write is one the user saw.
MappingIsSound ==
    \A i \in Items : mapping[i].remote # 0 =>
        LET o == google[i][mapping[i].remote]
        IN mapping[i].etag = o.etag => mapping[i].content = o.content

\* What the user is promised of each intent.
Report == [k \in Keys |-> IF outbox[k].state \in Open THEN "open"
                          ELSE IF outbox[k].state \in Closed THEN "closed"
                          ELSE outbox[k].state]

Promise == INSTANCE ProviderWrite WITH Intents <- Keys, report <- Report, applied <- effects

\* The outbox implements ProviderWrite: no approved write takes effect
\* twice, and none is reported as published that Google does not have.
KeepsPromise == Promise!Spec

\* No delivery is stuck: whatever happens to the process that holds a row,
\* the row leaves "delivering".
DeliveriesEnd == \A k \in Keys : outbox[k].state = "delivering" ~> outbox[k].state # "delivering"
=============================================================================

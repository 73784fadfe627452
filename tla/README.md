# DayWeave: TLA+ models and proofs

DayWeave is a planner: a Rust server with PostgreSQL (`server/dayweave-api`), shared
crates for scheduling and Google access (`crates/`), and native clients for Android and
macOS (`apps/`).  Several devices of one owner work on one workspace at the same time,
several server processes serve them, answers get lost, clocks jump, and an account can
be deleted while work for it is under way.  The modules here model the parts of the
system whose correctness depends on such orders of events.

Seven parts are modelled:

| part | specification | runs | proofs |
|---|---|---|---|
| the execution lease | `ExecutionSession`, `ExecutionLease` | `LeaseClock`, `LeaseRequests` | `ExecutionLeaseProofs` |
| admission of provider operations | `ProviderAdmission` | `AdmissionFence` | `ProviderAdmissionProofs` |
| invalidation streams | `InvalidationStream` | `InvalidationPoke`, `InvalidationReach` | `InvalidationStreamProofs` |
| item history, delta and bootstrap | `DeltaPage`, `ItemDelta` | `DeltaHistory`, `DeltaCatchUp` | `ItemHistoryProofs`, `ItemDeltaProofs` |
| publication of items to Google | `GoogleOutbound`, and what it promises: `ProviderWrite` | `OutboundHistory`, `OutboundTakeover` | `GoogleOutboundLedgerProofs`, `GoogleOutboundProofs` |
| custody of Google's refresh tokens | `GoogleCustody` | `CustodyHandover`, `CustodyStaged` | `GoogleCustodyProofs` |
| items, completion and proposals | `ItemForest`, `ProposalApplication` | `ProposalReview` | |

`MC*.tla` instantiate the specifications for TLC; each `.cfg` gives the constants of one
run.  `PROJECT.json` lists the runs, the lines of code behind every definition, a
mutation of the model that breaks each property, the hazards and the theorems.

To repeat the work, in this directory:

    tlc -workers 2 -config LeaseClock.cfg MCExecutionLease
    tlapm ExecutionLeaseProofs.tla

## 1. Inventory

State, operations and what makes each part hard.  Paths are relative to
`server/dayweave-api/src` unless they say otherwise.

| part | state | operations | hard because |
|---|---|---|---|
| execution (`execution/`, `persistence/execution_repository.rs`) | `execution_state` (revision, active session, instant), `execution_sessions`, idempotency rows, outbox | start, pause, resume, complete, skip, defer; defer assessment; history | two devices, retries of lost answers, a wall clock that goes back, item edits between check and use |
| items (`items/`, `persistence/item_repository.rs`) | `items`, edges, `item_changes`, groups | create, replace, trash, restore, batches from proposals and completion; delta | sequence numbers drawn before the commit, groups that pages may not cut, statements with separate snapshots |
| bootstrap (`persistence/item_bootstrap_repository.rs`) | snapshots and their members | capture, read a page, expire | changes between pages, reuse, expiry, capacity |
| item completion and progress | completion states, progress rows | put, cascades over the hierarchy | cascade against a live session |
| invalidation (`*/invalidation.rs`) | a watch channel per process, a stream per client | publish or poke, open, select, probe | subscribe against read, out-of-order publication, several processes, lost connections |
| provider admission (`provider_admission.rs`) | local closure and owner count, a durable registry | run, register, settle, close, drain | lost answers, cancellation, crashes, waiting for other processes |
| account deletion (`account_deletion/`) | lifecycle, fence, cleanup targets, external tombstone | prepare, cancel, fence, claim and resolve cleanup, seal, advance | crash between two stores, leases that expire |
| schedule (`scheduling/`) | compositions, revisions, receipts | compose, simulate, publish | staleness of everything a composition was made from |
| habits and routine occurrences | outcomes, pauses, missed records, deltas | put, pause, resume, reconcile, resolve | late reconciliation, publication of occurrences |
| proposals | proposals, previews, applications | preview, apply, undo | items that change in between |
| Google sync and OAuth | sync runs, claims, outbox, tokens | claim, renew, complete, take over; authorise, clean up, disconnect | lease takeovers, external effects that may or may not have happened |
| credentials | device sessions, enrolments, recovery codes | create, consume, refresh, revoke | a refresh whose answer is lost |
| outbox, idempotency | rows with leases and expiry | claim, mark; reserve, complete | late workers |
| native clients | local replicas, journals | refresh, queue and send commands | offline work, partial refreshes |
| scheduler, recurrence, codex, MCP, assistant, HTTP shell | none shared, or external | — | data and protocols rather than orders of events |

How they interact: a command of the lease locks the execution row and then the item
space, so that the item of the live session stays executable; every item mutation appends
to the history that clients follow; every committed command, item or habit mutation and
schedule publication wakes the streams of its process; Google operations run under
admission, which account deletion closes and drains before its fence.

## 2. Plan

Most important behaviour first.  Done: the lease (one thing is worked on at a time, and
work is charged correctly), provider admission (nothing runs behind the fence), streams
(nobody stays out of date), item history (replicas are right), Google publication (one
effect per approved write, no false report), token custody (no working grant is forgotten
and no account in use is revoked), and proposals over the item forest (what is applied is
what was shown, and undo takes back exactly that).  What would come next:

1. `DeviceSession`: refresh rotation with lost answers, enrolment, recovery codes.
2. `AccountDeletion`: cleanup claims and their leases and the external tombstone, with
   `ProviderAdmission` and the disconnect of `GoogleCustody` as components.
3. `NativeExecution`: the clients' offline journals over the lease.
4. Dependencies and blockers in `ItemForest`; the publication of schedules in
   `GoogleOutbound`.

## 3. The modules

### ExecutionSession and ExecutionLease

`ExecutionSession` has a session and the pure transitions of `execution/domain.rs`:
`StartSession`, `PauseSession`, `ResumeSession`, `FinishSession`, `DeferSession` with their
conditions (`CanPause`, ...), the validation of commands, and the CHECK constraints of the
table (`TableAccepts`).  Instants are ticks of the database's precision and `Second` ticks
make a second, so truncation to whole seconds is modelled.  `at` is the protocol instant of
a transition, `observed` the clock reading of the request; the code charges time by the
second and orders history by the first.

`ExecutionLease` has the tables as variables (`revision`, `active`, `updatedAt` are the
`execution_state` row) and the requests in flight.  A request takes three steps, as in
`ExecutionService::command`: `Receive` reads the clock, `ReplayLookup` or `Validate` looks
for a remembered answer and checks the command and its item, and `Start`, `Pause`,
`Resume`, `Finish`, `Defer`, `ApplyReplay` or `Refuse` is the transaction.  The transaction
holds the idempotency row and the execution row from its beginning to its commit and is one
step.  `Lose` is a crash, a lost answer or a client that gives up, at any of these points;
what is committed stays.  `ClockForward`, `ClockBack` and `ItemChange` happen in between.
`forward` and `startForward` are history variables for the property about charged time.

Left out: ids of devices and blocks, pause reasons, the occurrence and schedule checks of
Start, and the assessment and replacement claim of Defer.  The checks refuse commands that
the model allows, so the safety properties are stated over more behaviours than the code has.

### ProviderAdmission

One workspace owner, several runtimes (processes).  `phase` follows an operation from
`enter_local` over its durable registration to the end of its last context; `contexts`
counts the completion guards alive, `interrupted` is the owner's flag.  A registration and
its answer are separate steps, so a caller can be cancelled before or after the commit
(`Abandon`, `LateRegister`).  `drain` is the program counter of `close_and_drain`, with the
enabling of the notification, the count of owners, the look at the registry and the wait as
separate steps.  `closedFor`, `rows`, `status` and `fence` are the tables.  A local
controller (`durable` is false) has no registry and no poll; which kind a server has, and
which runtime draws which operation id (`home`), is chosen initially and never changes.

### InvalidationStream

`head` is the durable revision or sequence, `owed` the announcements of commands that have
committed and not yet returned, `mark` and `unseen` the watch channel and what each receiver
has not seen, `lastSent`, `fetched`, `phase` a stream, `wire` and `cursor` its client.
`HighWater` chooses between the design of executions and schedules (the channel carries the
largest revision) and that of items and habits (the channel only pokes).  `ProbeYields` is
the schedule stream, whose heartbeats abandon a slow probe.  `Replay` is the announcement
that a retried command repeats under its old revision.  `Crash` restarts a process: its hub
begins at zero and what it owed is never announced.

### DeltaPage and ItemDelta

`DeltaPage` has the functions that cut a page (`items/repository.rs`, `items/bootstrap.rs`)
and, beside them, a definition of the page without the loops (`LargestPage`).

`ItemDelta` has writers, whose transactions take the item lock, open a group, record rows
and close the group (any number of times), and commit or roll back; and clients, whose
refresh is a bootstrap or a delta from the saved cursor.  A delta call is four statements
with four snapshots (`DeltaHead`, `DeltaRows`, `DeltaCheck`, `DeltaDeliver`).  The capture
of a snapshot holds the item lock to its commit and is one step with its first page.  An
item's content is abstracted to its revision and whether it is live.  The sequence column is
shared with other workspaces (`OtherWorkspace`) and rollbacks leave gaps.  A payload's
stored text is `Spacing` longer than its compact form: groups are bounded by the one at
commit and pages by the other.  Rows from before groups were introduced have group `None`.
An expired snapshot and a deleted one are the same to a reader.

Left out: parents of bootstrap members, the limits on a snapshot's total size, the encoding
of cursors and the client's limits on the number and size of pages.

### ProviderWrite and GoogleOutbound

`ProviderWrite` is what a user who approves a write is promised: an approved intent takes
effect at most once, nothing else does, and an intent is reported as published only when
the provider has it.  `GoogleOutbound` is how the server keeps that promise, and
`KeepsPromise` is the refinement (`report` is read off the outbox row, `applied` counts the
effects at Google).

One account with one collection.  A write is previewed against a mapping and an etag,
approved, enqueued, and delivered by the sync worker of one of the API processes, which
works under a leased run.  Every repository call is one transaction and one step; between
two of them the process may crash or lose its lease, another may take the run over or start
up and take every delivery back, the user may edit the item, reconfigure the collection or
pause, disconnect or reauthorize the account, and somebody may edit the object at Google.
A request in `flight` may be carried out late, or answered unusably or not at all.  Events
are created under an id DayWeave chooses; tasks are not, so the code treats a create whose
answer is lost as an identity to be resolved by the user.  The inbound feed is modelled as
far as it touches DayWeave's own objects: it is what lets a mapping be repaired.  Content
is the revision it was exported from.

Left out: publication of schedules, imports of foreign objects, paging inside the feed,
backoff times and the fairness between accounts.

### GoogleCustody

A refresh token from the code exchange that makes Google issue it to the account that keeps
it or the revocation that ends it.  `session`, `cleanup`, `account`, `fence` and `resolved`
are tables; `task` is the callback of a session and the guardian that follows it when the
database refuses the token; `rec` and `disc` are passes of `reconcile_cleanup` and
disconnect requests.  `subject` and `grant` are Google's side: revocation is per Google user
and ends every token of that user, and revoking a dead token counts as success, as in the
code.  Any task may vanish between two transactions.

Timing.  Calls to Google are cut off after 20 or 30 seconds and leases last two minutes,
so a lease is never stale while the call it covers is out; otherwise a lease may be found
stale whenever it is looked at.  A disconnect revokes up to 33 tokens in turn, which can
outlast its lease; the model has at most three tokens and does not reach that case.

`discarded` is a history variable.  When a cleanup finds that its token's Google user still
has an account, it drops the stored copy without revoking it, because "the newly issued
token is merely another credential for a retained grant" (`google_oauth/service.rs:1388`).
If that account needs reauthorization because its own grant was revoked, the dropped token
may be the only one that works.  `NoGrantForgotten` excepts tokens dropped this way; of
every other working token the database has a copy, or the session as exchanging.

Left out: pausing, refreshed access tokens, the default account, and the quarantine of rows
from before custody existed.

### ItemForest and ProposalApplication

`ItemForest` has the items of a workspace as `item_repository.rs` writes them: `items`
(status, parent, sibling order, trash, revision) and `policy` (required, mode, provenance)
by identity, and `exec`, the revision of the execution state with the live item.  Every
write holds the execution and the item lock, applies a command (`Fits`, `Permitted`,
`Put`), refreshes the parents it touches and re-evaluates completion over the whole active
forest (`Decisions`, `Settle`), all in one transaction, which is one step or is refused.
`Decide` is `decide` of `hierarchy_completion.rs`; `Earned` says, without recursion over
decisions, what a settled forest looks like.  Items are one-off tasks; dependencies,
blockers, recurrence, completion instants and the review of legacy reopenings are left out.
The revision of a policy moves only with its item's and is left out.

`ProposalApplication` composes it with proposals.  `Preview` orders the commands of a group
(`GreedyOrder`, then `SearchedOrder`), runs them and their inverse in a savepoint and keeps
what was shown together with `Canonical`: the versions of all rows, the provider mappings
and the completion evidence.  `Apply` requires the same proposals and the same `Canonical`
and repeats the commands; `Undo` requires the same evidence and fences and runs the stored
inverse.  `OtherRequest`, `LeaseEnds`, `Remap`, `EditProposal`, `CloseProposal`,
`PreviewExpires`, `UndoCloses` and `MaintainRetention` happen in between.  The search
visits orders by index and remembers dead ends by the set of commands executed: the targets
are distinct, so a set of executed commands determines the contents of all rows, and the
model takes the first order that works.  Its cap of 50,000 visited states is left out.
Idempotency receipts are left out: a replay changes nothing.

## 4. What the runs show

| run | checks | distinct states |
|---|---|---|
| `lease_clock` | charged time is real, rows fit the table, history order is commit order, finished sessions never change, while the clock advances and is set back between any two steps | 4.5 million |
| `lease_requests` | one lease, commands applied at most once, the live item executable, with two clients, two keys that expire, retries, key reuse and item edits | 1.4 million |
| `admission_fence` | uncertain work is registered, drain proofs stay true, nothing runs behind the fence, and every drain ends, for durable and local controllers, operations in one process or in two, crashes and cancelled deletions | 0.3 million |
| `stream_poke` | poking streams lose no wakeup and their clients hear of every commit | 0.27 million |
| `stream_reach` | a client of a schedule stream hears of every commit | 92 thousand |
| `delta_history` | a replica is the state at its cursor, groups stay whole and sound, history grows at its end, the code's page is the defined page, everything committed is deliverable | 0.6 million |
| `delta_catch_up` | a client ends up with the current items; before that, the loops that cut pages are compared with their definition on every short sequence of rows | 40 thousand |
| `outbound_history` | one object per item, sound mappings, and the promise of `ProviderWrite`, with edits on both sides, reconfiguration, pause, reconnection, lost and late answers | 0.7 million |
| `outbound_takeover` | a row in delivery belongs to the running run, and no delivery is stuck, with two processes that crash, restart and lose their lease | 0.2 million |
| `custody_handover` | no working token is forgotten, one revocation at a time, none hits an account in use, with two authorizations, crashes everywhere, cleanup, disconnect and operator | 2.4 million |
| `custody_staged` | the finding below (expected violation) | |
| `proposal_review` | what is applied is what was shown, undo restores it, any workable order is found, completion stays derived, the live item stays executable, with one change by another request at any point | 0.14 million |

All but `custody_staged` pass.  That run shows a disagreement between the code and a
comment: `resolve_and_complete` leaves a session staged when its completion fails, since
"still staged is durable and reconcile_staged can safely finish it on the next entry point"
(`google_oauth/service.rs:1331`).  If `acknowledge_operator_recovery` has advanced the
account's revision in the meantime, `complete_staged` refuses with `AuthorizationConflict`
each time, nothing fails a staged session, and `create_session` refuses every new
authorization while it stands.

Bounds.  Every bound is a constant marked `bound` in its module.

- Lease: two sessions are enough for a second start to meet the first; four commits hold
  start, pause, resume and finish, or a finished session and a second one; `Second = 2` makes
  fractions of seconds happen; the clock goes forward three ticks in all and may fall back to
  zero, so that the protocol clock runs ahead of it.  Inputs hold values in and out of range.
  `LeaseClock` uses a VIEW: with one client, the contents of remembered commands and of past
  answers decide only what is answered, and a request under an old revision can only be
  refused; none of the run's invariants reads them.
- Admission: two processes and two operations with two contexts each, in one process or
  one in each; one deletion that is prepared, cancelled and fenced.  Two deletions with
  liveness (0.9 million states) were checked apart.
- Streams: two processes and one client; two commits allow reordering; one or two faults.
  Streams act on each other only through their hub; their safety is proved for any number.
- Item history: two items and two writers where the order of writers matters; groups of one
  and two rows; pages that hold one group, or three rows of unequal size.  `GroupCap` and
  `PageBytes` are both reached and exceeded.
- Outbound: one item with two revisions is enough for a newer write to supersede an older
  one, two claims for a takeover, one edit at Google, two configurations.  Larger instances
  (1.6 and 3.4 million states, and two workers with edits, 0.6 million) were checked apart.
- Custody: two sessions and the account that was linked before, of one or two Google users;
  two cleanup attempts reach the limit.  An instance with two disconnect requests and two
  claims was checked apart.
- Proposals: three items make a child, its parent and a sibling or grandparent; two
  proposals of one command each make a group whose order matters; one preview; one change
  by another request, and the end of the lease it may have taken.  The two initial forests
  are rows an older release may have left, one of which the first evaluation changes.
  Checked apart, without other requests: every legacy forest of three items (641 of them)
  with one proposal of two or three commands (0.4 million states), and with two proposals
  of one command (0.4 million); every command in place of changes of one field (1.6 million).

Symmetry is used only in runs without liveness, over sets whose members are interchangeable.
The admission, outbound and custody runs do not check deadlock: a fenced account, or a
workspace whose bounded edits, claims and sessions are used up, has nothing more to do.
All other runs check it.

Fairness, and why the code justifies it:

- Admission: a database answers or fails, provider calls have timeouts, a settlement is
  retried in a loop while its process lives, and a drain is a task of the executor.  Nothing
  is assumed of crashes, cancellation or recovery; the property excepts rows nobody is left
  to settle, which the code says need recovery.
- Streams: clients reconnect, a stream is polled, the probe interval passes, reads are
  answered.  Strong fairness of reads says that heartbeats do not cut off every probe.
  Faults are finite; nothing is assumed of a stream's lifetime.
- Outbound: a live worker keeps polling and its waits are bounded by timeouts, a stopped
  process is started again, and a lease that is not renewed runs out.  Nothing is assumed of
  answers from Google.
- Custody (only for the finding): the steps of a live task, the reconciliation every entry
  point begins with, and the end of leases.
- Item history: transactions end, PostgreSQL's lock queue serves every waiter (strong
  fairness of a client's reads), clients refresh again, and snapshots that nobody reads expire.

## 5. What is proved

TLAPS checks the following for all values of the constants, from the named assumptions of
the modules (bounds are numbers, `None` is not a member of the sets it is added to; an
initial item history has no groups, its numbers are a key and the revisions of an item grow
with them, and there are finitely many clients; sessions are positive numbers, zero being
the account that was linked before; there is a first revision and a first configuration of
the collection).

- **Lease.**  `LeaseIsExclusive`, `RowsAlwaysFit`, `ChargesAreBounded`, `HistoryIsOrdered`,
  `HistoryIsFinal`, `LiveItemStaysExecutable`, `EffectsAreSingle`, `TypeCorrect`.
  `LeaseInv` adds to `OneLease` what the table does not say of rows (an open row has no end,
  a paused one ends after it began) and is the base of the other two.  Charged time is not
  inductive: `ClockInv` says that any reading that can still commit was taken after the last
  commit, and that the span up to that reading lies within the clock's forward movement.
  `LedgerInv` says that the n-th outbox message is the command committed under revision
  n - 1, which is why a retry after expiry fails on its revision.
- **Admission.**  `UncertainWorkStaysRegistered`, `ProofsAreLasting`, `FenceIsQuiet`,
  `AdmissionTyped`.  The invariant ties a drain to the closure it made, says that no owner
  appears after a count of none, and that a proof and a fence keep the registry closed and
  empty.
- **Streams.**  `WakeupsAreKept`, `CursorsAreCovered`, `StreamsTyped`, for both designs.
  `WakeInv` follows the pending change through every phase of a stream, from the moment the
  head is read while it opens; `HeadInv` bounds everything by the durable head.
- **Item history, the writers.**  `HistoryGrowsAtItsEnd` and `CommittedGroupsAreSound`: one
  transaction at a time has unpublished rows, they come after everything published, groups
  are numbered in the order of their rows, and every closed group fits a page (`IInv`).
- **Item history, the readers.**  `ReplicasAreSnapshots` and `CursorsDivideNoGroup`.
  `ReplicaInv` adds four things to what the writers keep.  `RevisionInv`: the rows of an item
  carry growing revisions, those of the transaction under way included.  `SnapshotInv`: every
  stored snapshot has, for each item that was live at its head, the last row of that item at
  or below the head, and perhaps rows of dead items; ids are not used twice.  `ClientTypes`.
  `Reader`, which says what each phase of a client stands for: what is persisted is the state
  at the cursor; while deltas are read, what has been assembled is the state at `after`; the
  rows of a page are a stretch of the history after that place, so applying them gives the
  state at the end of the page; while a snapshot is read, the first members have been copied
  and nothing else.  The delta read is four statements with four snapshots, and the proof
  shows why that is enough: the history only grows at its end, so a stretch that was read
  stays a stretch.  `ItemHistoryProofs` has the lemmas about single histories: places that
  divide no group, what the loops that cut a page return (`atomic_delta_prefix_len`,
  `delivery_bounded_delta_prefix_len`: always such a place), the state as a fold of a stretch,
  and copies of snapshots.
- **Custody.**  `RevocationsAreFenced`, `CustodyTyped`, `GrantsAreKept` and
  `CleanupSparesAccounts`, for any number of sessions, Google users, reconcilers and requests.  Each transaction has a lemma that
  says what it does (`ClaimCleanupIs`, `StageIs`, ...), so that the steps of the proof do
  not open the rows.  `FenceInv` is inductive for the fence: `LifeInv` (one open session; a
  token is stored or fenced for only after its exchange, and a row that is due belongs to a
  failed session), `PassInv` and `HandlerInv` (a claim is never ahead of its row and never
  handed out twice, which is why a task whose claim was taken over cannot lift the new
  owner's fence), and `RowInv` (the row of a revocation under way says so, so that it is not
  due).  `GrantInv` adds what the grants need: `OwnerInv` and `RequestInv` (the tokens of an
  account, and of a request, are of one Google user, and no two accounts that are kept
  share one), `StageInv` (what `stage_authorization` checked is still so when
  `complete_staged` relies on it), `RevokeInv` (whoever has a request out spares the accounts
  that are kept) and `KeptInv` (`NoGrantForgotten`, and that a callback which has stored its
  token, or a task which has ended one, can rely on that in its later steps).
- **Publication to Google.**  `OutboundKeepsPromise`, `OutboundOneObjectPerItem`,
  `OutboundMappingIsSound`, `OutboundDeliveringIsOwned` and `OutboundTypes`, for any number of
  items, workers, revisions, claims, edits and configurations.  None of the three safety
  invariants is inductive, and the refinement needs all of them; `Inv` is their common
  strengthening.  `RunInv`: claims are numbered by the run, two workers that are at work have
  different ones, and a row in delivery has the one of the run.  `RowInv`: no row is ahead of
  its item, and a row has an etag exactly when it has an object.  `WorkInv`: whoever works on
  a row, or carries a request for it, has one.  `ThreatInv` is why there is one object: a
  create of a task whose request may be out, or was, is marked in its row
  (`provider_post_may_have_started`), only one row of an item is, and while a request is out
  nobody has a permit for a second one.  `HolderInv` says what a worker that holds a row
  between two transactions may rely on at each of its steps.  `KnownInv` is about what
  DayWeave knows of Google: every etag in a mapping, a page of the feed or an answer is or
  was one of the object, an etag that is still the present one stands for the content noted
  with it, the content of an object was put there by an approved row, and a conditional
  write that took effect left an etag above the one it was approved for, so it cannot take
  effect again.  The refinement is proved step by step: each action has a lemma that it
  keeps `Inv` and is a step of `ProviderWrite` or a stutter (`Promised`).  Most leave the
  effects alone and only close rows (`CalmStep`); `EnqueueStep` opens an intent, `CarryStep` is
  where it takes effect, and `CompleteStep` and `ApplyRemoteItemStep` are where it is
  reported as published.  `GoogleOutboundLedgerProofs` has the invariant and the steps that
  leave Google alone, `GoogleOutboundProofs` the others and the theorems.  TLC checked `Inv`
  in the two runs of the module and with two items (93 thousand states) before it was proved.

Only model-checked: the liveness properties (`DrainEnds`, `ClientsConverge`,
`ClientsCatchUp`, `DeliveriesEnd`), which are out of the prover's reach; `PageIsLargest` and
`AlwaysDeliverable` (sums over sequences), and the properties of `ItemForest` and
`ProposalApplication`, which depend on what recursive functions compute (a batch runs over a
sequence, completion over a tree).

## 6. What is not modelled

The components of `PROJECT.json` with status `not_modelled`, each with its reason: not yet
begun (section 2), pure data transformations whose inputs are too large for TLC (the
scheduler, recurrence over time zones) and the parts that compare digests of their output
(schedule publication, defer assessments, routine occurrences), front ends without state of
their own (MCP, HTTP, the assistant), external services, and user interfaces.  Most of the
repository's lines are in these: the scheduler and composition crates, the two native user
interfaces, and encoding and validation of data.

Lock order is not modelled either: every module takes its locks in one step at the start of
a transaction.

--------------------------- MODULE GoogleCustody ---------------------------
(***************************************************************************)
(* Custody of Google refresh tokens: from the code exchange of an OAuth    *)
(* callback, which makes Google issue a token, to the account that keeps   *)
(* it or the revocation that ends it.  Repository: persistence/            *)
(* google_oauth_repository.rs; service: google_oauth/service.rs.           *)
(*                                                                         *)
(* Every session is served by one callback, whose token survives in a      *)
(* guardian task when the store refuses it.  Reconcilers revoke abandoned  *)
(* tokens, disconnects revoke those of an account, and an operator         *)
(* confirms that every grant of the project was revoked by hand.  Any of   *)
(* them may vanish between two transactions.  One fence per user keeps     *)
(* them apart.                                                             *)
(*                                                                         *)
(* A token is named by the session that made Google issue it, an account   *)
(* by the session that linked it; both are 0 for the account that was      *)
(* linked before.  Revocation at Google is per subject (the Google user):  *)
(* it ends every token of the subject, and a token that has ended answers  *)
(* invalid_token, which the code takes for success.                        *)
(*                                                                         *)
(* Time.  Calls to Google are cut off after 20 or 30 seconds and the       *)
(* leases last two minutes, so no lease is stale while the call it covers  *)
(* is out; what a call that was cut off does, it has done by then.  Apart  *)
(* from that a lease may be found stale whenever it is looked at.          *)
(***************************************************************************)
EXTENDS Naturals, FiniteSets

CONSTANTS
    Sessions,     \* authorization requests
    Subjects,     \* Google users
    Reconcilers,  \* concurrent passes of reconcile_cleanup
    Requests,     \* deliveries of a disconnect request
    MaxAttempts,  \* MAX_CLEANUP_ATTEMPTS
    MaxClaims     \* bound on the disconnect claims of an account

ASSUME SessionsAreNumbered == Sessions \subseteq Nat \ {0}
ASSUME BoundsAreNumbers == MaxAttempts \in Nat /\ MaxClaims \in Nat

VARIABLES
    session,    \* google_oauth_sessions
    cleanup,    \* google_oauth_cleanup_tokens
    account,    \* provider_accounts
    fence,      \* the revocation columns of google_oauth_scope_state
    resolved,   \* google_oauth_guardian_resolutions
    task,       \* the callback of a session, or the guardian that follows it
    rec,        \* reconcile_cleanup passes
    disc,       \* the handlers of disconnect requests
    ready,      \* whether a request to begin is past its own reconcile_cleanup
    subject,    \* Google: the user a token speaks for
    grant,      \* Google: whether a token was issued and still works
    discarded   \* history: tokens whose stored copy was dropped unrevoked

store == <<session, cleanup, account, fence, resolved>>
google == <<subject, grant>>
vars == <<store, task, rec, disc, ready, google, discarded>>

Tokens == Sessions \cup {0}
Accounts == Tokens

NoSession ==
    [status |-> "none", account |-> 0, reauth |-> FALSE, current |-> TRUE,
     reuse |-> FALSE, token |-> 0, retired |-> {}]
NoRow == [status |-> "none", known |-> FALSE, attempt |-> 0]
NoAccount == [status |-> "none", token |-> 0, retired |-> {}, claim |-> 0]
NoFence == [kind |-> "none", owner |-> 0, claim |-> 0]

Init ==
    /\ session = [s \in Sessions |-> NoSession]
    /\ cleanup = [s \in Sessions |-> NoRow]
    /\ \E status \in {"none", "active"} :
          account = [a \in Accounts |-> IF a = 0 THEN [NoAccount EXCEPT !.status = status]
                                                 ELSE NoAccount]
    /\ fence = NoFence
    /\ resolved = [s \in Sessions |-> "none"]
    /\ task = [s \in Sessions |-> [pc |-> "idle", claimed |-> FALSE]]
    /\ rec = [r \in Reconcilers |-> [pc |-> "idle", token |-> 0, claim |-> 0]]
    /\ disc = [d \in Requests |-> [pc |-> "idle", account |-> 0, claim |-> 0, todo |-> {}]]
    /\ ready = FALSE
    /\ subject \in [Tokens -> Subjects]
    /\ grant = [t \in Tokens |-> IF t = 0 /\ account[0].status = "active" THEN "valid"
                                                                          ELSE "none"]
    /\ discarded = {}

(***************************************************************************)
(* Conditions and updates the transactions share                           *)
(***************************************************************************)
\* fetch_all_accounts: every account that is not revoked.
Protected == {a \in Accounts : account[a].status \notin {"none", "revoked"}}

Retained(g) == \E a \in Protected : subject[account[a].token] = g

\* ensure_no_revocation_fence.
Unfenced == fence.kind = "none"

\* ensure_cleanup_hold_allowed.
HoldAllowed(s) == Unfenced \/ (fence.kind = "guardian" /\ fence.owner = s)

\* ensure_revocation_fence.
FenceIs(kind, owner, claim) == fence = [kind |-> kind, owner |-> owner, claim |-> claim]

\* Mutant: attempts are not counted against the limit.
EndlessAttempts(s) ==
    /\ fence.kind \in {"none", "cleanup"}
    /\ fence.kind = "cleanup" => fence.owner = s
    /\ \/ cleanup[s].status = "pending"
       \/ /\ cleanup[s].status = "revoking"
          /\ \A r \in Reconcilers : ~(rec[r].pc = "revoke" /\ rec[r].token = s)

\* The row claim_cleanup may take: due, or taken by a pass that is gone.
Due(s) ==
    /\ fence.kind \in {"none", "cleanup"}
    /\ fence.kind = "cleanup" => fence.owner = s
    /\ cleanup[s].attempt < MaxAttempts
    /\ \/ cleanup[s].status = "pending"
       \/ /\ cleanup[s].status = "revoking"
          /\ \A r \in Reconcilers : ~(rec[r].pc = "revoke" /\ rec[r].token = s)

\* ensure_no_open_exchange.
NoOpenExchange == \A s \in Sessions : session[s].status \notin {"exchanging", "staged"}

\* ensure_no_open_authorization, after cleanup_stale_sessions.
NoOpenAuthorization ==
    \A s \in Sessions : session[s].status \notin {"pending", "exchanging", "staged"}

\* ensure_expected_account.
ExpectedAccount(s) ==
    session[s].reauth => session[s].account \in Protected /\ session[s].current

\* The revision of some accounts moves on: requests that expect it are late.
Drift(ss, as) ==
    [s \in Sessions |-> IF ss[s].reauth /\ ss[s].account \in as
                        THEN [ss[s] EXCEPT !.current = FALSE] ELSE ss[s]]

\* The session fails, the token it held is due for revocation.
Fail(ss, s) == [ss EXCEPT ![s].status = "failed"]
Promote(rows, s) ==
    [rows EXCEPT ![s].status = IF @ = "held" THEN "pending" ELSE @]

\* fail_session.
FailedSession(ss, s) ==
    IF ss[s].status \in {"pending", "exchanging"} THEN Fail(ss, s) ELSE ss
FailedRow(ss, rows, s) ==
    IF ss[s].status \in {"pending", "exchanging", "failed"} THEN Promote(rows, s) ELSE rows

Goto(s, pc) == task' = [task EXCEPT ![s].pc = pc]

\* Google ends the grant behind a token.
Revoke(t) ==
    grant' = IF grant[t] = "valid"
             THEN [u \in Tokens |-> IF subject[u] = subject[t] /\ grant[u] = "valid"
                                    THEN "revoked" ELSE grant[u]]
             ELSE grant

(***************************************************************************)
(* The authorization request                                               *)
(***************************************************************************)
\* begin_admitted first runs reconcile_cleanup, which finds nothing to claim
\* (or ends with CompleteCleanup below), and then creates the session.
BeginPass ==
    /\ ~ready
    /\ \A s \in Sessions : ~Due(s)
    /\ ready' = TRUE
    /\ UNCHANGED <<store, task, rec, disc, google, discarded>>

\* create_session, for a new account (a = s) or for an account that is to be
\* authorized again.  Requests that are still pending give way.
CreateSession(s, a) ==
    /\ session[s].status = "none"
    /\ ready /\ ready' = FALSE
    /\ \A u \in Sessions : u < s => session[u].status # "none"
    /\ Unfenced
    /\ NoOpenExchange
    /\ a = s \/ (a \in Protected /\ account[a].status # "disconnecting")
    /\ session' = [u \in Sessions |->
                     IF u = s THEN [NoSession EXCEPT !.status = "pending", !.account = a,
                                                     !.reauth = (a # s)]
                     ELSE IF session[u].status = "pending" THEN Fail(session, u)[u]
                     ELSE session[u]]
    /\ UNCHANGED <<cleanup, account, fence, resolved, task, rec, disc, google, discarded>>

\* cleanup_stale_sessions, which every mutation runs first, and
\* cancel_pending_authorizations_for_deletion.
ExpirePending(s) ==
    /\ session[s].status = "pending"
    /\ session' = Fail(session, s)
    /\ UNCHANGED <<cleanup, account, fence, resolved, task, rec, disc, ready, google, discarded>>

\* claim_callback.  The request remembers the credentials of the account it
\* is about as they are now.
ClaimCallback(s) ==
    /\ session[s].status = "pending"
    /\ Unfenced
    /\ \/ /\ ExpectedAccount(s)
          /\ LET old == account[session[s].account]
             IN session' = [session EXCEPT ![s].status = "exchanging",
                                           ![s].reuse = old.status = "active",
                                           ![s].token = old.token,
                                           ![s].retired = old.retired]
          /\ Goto(s, "claimed")
       \/ /\ ~ExpectedAccount(s)
          /\ session' = FailedSession(session, s)
          /\ UNCHANGED task
    /\ UNCHANGED <<cleanup, account, fence, resolved, rec, disc, ready, google, discarded>>

\* preflight_cleanup_storage.  The user may have declined instead, or the
\* store or the cipher may fail: then the request fails before Google is asked.
Preflight(s) ==
    /\ task[s].pc = "claimed"
    /\ \/ Unfenced /\ session[s].status = "exchanging" /\ Goto(s, "exchange")
       \/ Goto(s, "denied")
    /\ UNCHANGED <<store, rec, disc, ready, google, discarded>>

\* fail_authorization.
FailAuthorization(s) ==
    /\ task[s].pc = "denied"
    /\ session' = IF session[s].status = "exchanging" THEN Fail(session, s) ELSE session
    /\ Goto(s, "done")
    /\ UNCHANGED <<cleanup, account, fence, resolved, rec, disc, ready, google, discarded>>

\* Google answers the code exchange with a new refresh token, with none, or
\* with a definitive error; or the answer is lost, whatever Google did.
Exchange(s) ==
    /\ task[s].pc = "exchange"
    /\ \E issued \in BOOLEAN, pc \in {"hold", "identity", "denied", "done"} :
          /\ pc = "hold" => issued
          /\ pc \in {"identity", "denied"} => ~issued
          /\ grant' = [grant EXCEPT ![s] = IF issued THEN "valid" ELSE "none"]
          /\ Goto(s, pc)
    /\ UNCHANGED <<store, rec, disc, ready, subject, discarded>>

\* hold_cleanup_token: the insert, or the finding that it was made.
HoldRow(s) ==
    /\ HoldAllowed(s)
    /\ session[s].status = "exchanging"
    /\ cleanup' = [cleanup EXCEPT ![s].status = IF @ = "none" THEN "held" ELSE @]

\* hold_new_refresh_token: a few tries, whose answers may be lost, then the
\* guardian takes over.
Hold(s) ==
    /\ task[s].pc = "hold"
    /\ \/ HoldRow(s) /\ \E pc \in {"identity", "hold"} : Goto(s, pc)
       \/ Goto(s, "guardian") /\ UNCHANGED cleanup
    /\ UNCHANGED <<session, account, fence, resolved, rec, disc, ready, google, discarded>>

Fresh(s) == grant[s] # "none"

\* The identity request and identify_cleanup_token.
Identify(s) ==
    /\ task[s].pc = "identity"
    /\ \/ /\ Fresh(s)
          /\ HoldAllowed(s)
          /\ cleanup[s].status = "held"
          /\ cleanup' = [cleanup EXCEPT ![s].known = TRUE]
          /\ Goto(s, "stage")
       \/ ~Fresh(s) /\ Goto(s, "stage") /\ UNCHANGED cleanup
       \/ Goto(s, "abandon") /\ UNCHANGED cleanup
    /\ UNCHANGED <<session, account, fence, resolved, rec, disc, ready, google, discarded>>

\* completion_from_tokens: the identity is that of the account, and there is
\* a refresh token, a new one or that of a working account.
CompletionFits(s) ==
    /\ session[s].reauth => subject[s] = subject[session[s].token]
    /\ Fresh(s) \/ session[s].reuse

\* The conditions of stage_authorization.
StageFits(s) ==
    /\ Unfenced
    /\ session[s].status = "exchanging"
    /\ session[s].reauth => /\ session[s].account \in Protected
                            /\ subject[account[session[s].account].token] = subject[s]
    /\ \A a \in Protected \ {session[s].account} : subject[account[a].token] # subject[s]

\* stage_authorization, with retire_credentials.  A refusal leads through
\* resolve_and_complete to an abandoned request.
Stage(s) ==
    /\ task[s].pc = "stage"
    /\ \/ /\ CompletionFits(s)
          /\ StageFits(s)
          /\ LET old == session[s]
             IN session' = [session EXCEPT
                  ![s].status = "staged",
                  ![s].token = IF Fresh(s) THEN s ELSE old.token,
                  ![s].retired = IF Fresh(s) /\ old.reauth THEN old.retired \cup {old.token}
                                                           ELSE old.retired]
          /\ Goto(s, "complete")
       \/ Goto(s, "abandon") /\ UNCHANGED session
    /\ UNCHANGED <<cleanup, account, fence, resolved, rec, disc, ready, google, discarded>>

\* complete_staged: the account takes the credentials over and the held copy
\* goes, in one transaction.
CompleteStaged(s) ==
    LET a == session[s].account
    IN /\ Unfenced
       /\ session[s].status = "staged"
       /\ ExpectedAccount(s)
       /\ account' = [account EXCEPT ![a].status = "active", ![a].token = session[s].token,
                                     ![a].retired = session[s].retired]
       /\ cleanup' = [cleanup EXCEPT ![s] = NoRow]
       /\ session' = [Drift(session, {a}) EXCEPT ![s].status = "consumed"]

\* The end of resolve_and_complete: the request is completed, or its
\* completion is left to reconcile_staged.
Complete(s) ==
    /\ task[s].pc = "complete"
    /\ CompleteStaged(s) \/ UNCHANGED <<session, cleanup, account>>
    /\ Goto(s, "done")
    /\ UNCHANGED <<fence, resolved, rec, disc, ready, google, discarded>>

\* reconcile_staged, from every entry point, and the callback that comes again.
ReconcileStaged ==
    /\ \E s \in Sessions : CompleteStaged(s)
    /\ UNCHANGED <<fence, resolved, task, rec, disc, ready, google, discarded>>

\* abandon_authorization.
Abandon(s) ==
    /\ task[s].pc = "abandon"
    /\ session' = IF session[s].status \in {"exchanging", "staged"} THEN Fail(session, s)
                                                                    ELSE session
    /\ cleanup' = IF session[s].status \in {"exchanging", "staged", "failed"}
                  THEN Promote(cleanup, s) ELSE cleanup
    /\ Goto(s, "done")
    /\ UNCHANGED <<account, fence, resolved, rec, disc, ready, google, discarded>>

\* The process ends, or the request is cancelled.
Vanish(s) ==
    /\ task[s].pc \notin {"idle", "done"}
    /\ Goto(s, "done")
    /\ UNCHANGED <<store, rec, disc, ready, google, discarded>>

(***************************************************************************)
(* The guardian of a token the store did not take                          *)
(***************************************************************************)
GuardianFence(s) == [kind |-> "guardian", owner |-> s, claim |-> 0]

\* The lease of the guardian's fence is found stale, which it never is while
\* its revocation request is out.
GuardianStale == fence.kind = "guardian" /\ task[fence.owner].pc # "gRevoke"

\* guardian_loop: the token is stored after all.
GuardianHold(s) ==
    /\ task[s].pc = "guardian"
    /\ HoldRow(s)
    /\ Goto(s, IF task[s].claimed THEN "gRelease" ELSE "abandon")
    /\ UNCHANGED <<session, account, fence, resolved, rec, disc, ready, google, discarded>>

\* release_volatile_revocation.  Its answer may be lost.  A claim has one
\* resolution, so the insert fails when there is one.
GuardianRelease(s) ==
    /\ task[s].pc = "gRelease"
    /\ \/ /\ resolved[s] = "none"
          /\ fence = GuardianFence(s)
          /\ resolved' = [resolved EXCEPT ![s] = "released"]
          /\ fence' = NoFence
          /\ \E pc \in {"abandon", "guardian"} : Goto(s, pc)
       \/ /\ resolved[s] = "released"
          /\ Goto(s, "abandon")
          /\ UNCHANGED <<fence, resolved>>
       \/ /\ resolved[s] # "released"
          /\ Goto(s, "guardian")
          /\ UNCHANGED <<fence, resolved>>
    /\ UNCHANGED <<session, cleanup, account, rec, disc, ready, google, discarded>>

\* claim_volatile_revocation.  While any account is retained the guardian
\* only keeps its fence.
GuardianClaim(s) ==
    /\ task[s].pc = "guardian"
    /\ Unfenced \/ GuardianStale \/ (fence = GuardianFence(s) /\ task[s].claimed)
    /\ fence' = GuardianFence(s)
    /\ task' = [task EXCEPT ![s].claimed = TRUE,
                            ![s].pc = IF Protected = {} THEN "gRevoke" ELSE "guardian"]
    /\ UNCHANGED <<session, cleanup, account, resolved, rec, disc, ready, google, discarded>>

\* The revocation request: done and answered, done and not answered, not done.
GuardianRevoke(s) ==
    /\ task[s].pc = "gRevoke"
    /\ \/ Revoke(s) /\ \E pc \in {"gComplete", "guardian"} : Goto(s, pc)
       \/ Goto(s, "guardian") /\ UNCHANGED grant
    /\ UNCHANGED <<store, rec, disc, ready, subject, discarded>>

\* complete_volatile_revocation, whose answer may be lost.
GuardianComplete(s) ==
    /\ task[s].pc = "gComplete"
    /\ \/ /\ resolved[s] = "none"
          /\ fence = GuardianFence(s)
          /\ cleanup' = [cleanup EXCEPT ![s] = NoRow]
          /\ session' = FailedSession(session, s)
          /\ resolved' = [resolved EXCEPT ![s] = "revoked"]
          /\ fence' = NoFence
          /\ \E pc \in {"abandon", "gComplete"} : Goto(s, pc)
       \/ /\ resolved[s] = "revoked"
          /\ Goto(s, "abandon")
          /\ UNCHANGED <<session, cleanup, fence, resolved>>
    /\ UNCHANGED <<account, rec, disc, ready, google, discarded>>

(***************************************************************************)
(* Recovery                                                                *)
(***************************************************************************)
\* The first half of recover_startup: a stale guardian's fence is lifted when
\* its token is stored, and is otherwise left to the operator.
AfterGuardian(stale) ==
    LET s == fence.owner
        durable == cleanup[s].status # "none"
    IN [session |-> IF stale /\ durable THEN FailedSession(session, s) ELSE session,
        cleanup |-> IF stale /\ durable THEN FailedRow(session, cleanup, s) ELSE cleanup,
        resolved |-> IF stale /\ durable THEN [resolved EXCEPT ![s] = "released"] ELSE resolved,
        fence |-> IF ~stale THEN fence
                  ELSE IF durable THEN NoFence
                  ELSE [fence EXCEPT !.kind = "recovery"]]

\* Mutant: an interrupted exchange is cleared away.
ForgetExchange(now, s) ==
    /\ session' = FailedSession(now.session, s)
    /\ cleanup' = FailedRow(now.session, now.cleanup, s)
    /\ fence' = now.fence

\* The second half: an interrupted exchange fails when its token is stored,
\* and is otherwise left to the operator.
AfterExchange(now, s) ==
    IF now.cleanup[s].status # "none"
    THEN /\ session' = FailedSession(now.session, s)
         /\ cleanup' = FailedRow(now.session, now.cleanup, s)
         /\ fence' = now.fence
    ELSE /\ fence' = [kind |-> "recovery", owner |-> s, claim |-> 0]
         /\ UNCHANGED <<session, cleanup>>

\* recover_startup, at every start and every fifteen seconds.
RecoverStartup ==
    /\ \E stale \in BOOLEAN :
          /\ stale => /\ GuardianStale
                      /\ cleanup[fence.owner].status # "none" => resolved[fence.owner] = "none"
          /\ LET now == AfterGuardian(stale)
             IN /\ resolved' = now.resolved
                /\ \/ \E s \in Sessions :
                         /\ now.fence.kind = "none"
                         /\ now.session[s].status = "exchanging"
                         /\ task[s].pc # "exchange"
                         /\ AfterExchange(now, s)
                   \/ /\ stale
                      /\ session' = now.session
                      /\ cleanup' = now.cleanup
                      /\ fence' = now.fence
    /\ UNCHANGED <<account, task, rec, disc, ready, google, discarded>>

\* acknowledge_operator_recovery: the operator has revoked every grant of the
\* project, so no account has a working token any more.
OperatorRecovery ==
    /\ fence.kind = "recovery"
    /\ grant' = [t \in Tokens |-> IF grant[t] = "valid" THEN "revoked" ELSE grant[t]]
    /\ account' = [a \in Accounts |-> IF a \in Protected
                                      THEN [account[a] EXCEPT !.status = "reauthorize"]
                                      ELSE account[a]]
    /\ cleanup' = [cleanup EXCEPT ![fence.owner] = NoRow]
    /\ session' = Drift(FailedSession(session, fence.owner), Protected)
    /\ fence' = NoFence
    /\ UNCHANGED <<resolved, task, rec, disc, ready, subject, discarded>>

(***************************************************************************)
(* Revocation of abandoned tokens: reconcile_cleanup                       *)
(***************************************************************************)
\* Mutant: only a token known to be another's is spared.
RevokeUnlessRetained(s) ==
    IF cleanup[s].known /\ Retained(subject[s]) THEN "discard" ELSE "revoke"

\* What is to become of a claimed token, given the accounts that are kept.
Verdict(s) ==
    IF cleanup[s].known /\ Retained(subject[s]) THEN "discard"
    ELSE IF ~cleanup[s].known /\ Protected # {} THEN "defer"
    ELSE "revoke"

\* claim_cleanup; a token that cannot be decrypted goes straight to failure.
ClaimCleanup(r) ==
    /\ rec[r].pc = "idle"
    /\ \E s \in Sessions, pc \in {"verdict", "fail"} :
          LET n == cleanup[s].attempt + 1
          IN /\ Due(s)
             /\ cleanup' = [cleanup EXCEPT ![s].status = "revoking", ![s].attempt = n]
             /\ fence' = [kind |-> "cleanup", owner |-> s, claim |-> n]
             /\ rec' = [rec EXCEPT ![r] = [pc |-> IF pc = "fail" THEN pc ELSE Verdict(s),
                                           token |-> s, claim |-> n]]
    /\ UNCHANGED <<session, account, resolved, task, disc, ready, google, discarded>>

\* The revocation request, as for the guardian.
CleanupRevoke(r) ==
    /\ rec[r].pc = "revoke"
    /\ \/ /\ Revoke(rec[r].token)
          /\ \E pc \in {"complete", "fail"} : rec' = [rec EXCEPT ![r].pc = pc]
       \/ rec' = [rec EXCEPT ![r].pc = "fail"] /\ UNCHANGED grant
    /\ UNCHANGED <<store, task, disc, ready, subject, discarded>>

RowClaimed(r) ==
    LET s == rec[r].token
    IN /\ FenceIs("cleanup", s, rec[r].claim)
       /\ cleanup[s].status = "revoking"
       /\ cleanup[s].attempt = rec[r].claim

Rest(r) == rec' = [rec EXCEPT ![r] = [pc |-> "idle", token |-> 0, claim |-> 0]]

\* complete_cleanup: the stored copy goes and the fence is lifted.  A pass
\* that lost its claim stops.  The pass may have been that of begin_admitted.
CompleteCleanup(r) ==
    LET s == rec[r].token
    IN /\ rec[r].pc \in {"complete", "discard"}
       /\ Rest(r)
       /\ \/ /\ RowClaimed(r)
             /\ cleanup' = [cleanup EXCEPT ![s] = NoRow]
             /\ fence' = NoFence
             /\ discarded' = IF rec[r].pc = "discard" THEN discarded \cup {s} ELSE discarded
             /\ ready' \in {ready, TRUE}
          \/ ~RowClaimed(r) /\ UNCHANGED <<cleanup, fence, ready, discarded>>
       /\ UNCHANGED <<session, account, resolved, task, disc, google>>

\* fail_cleanup: the fence stays for the next attempt.
FailCleanup(r) ==
    /\ rec[r].pc = "fail"
    /\ Rest(r)
    /\ cleanup' = IF RowClaimed(r) THEN [cleanup EXCEPT ![rec[r].token].status = "pending"]
                                  ELSE cleanup
    /\ UNCHANGED <<session, account, fence, resolved, task, disc, ready, google, discarded>>

\* defer_cleanup_for_operator.
DeferCleanup(r) ==
    /\ rec[r].pc = "defer"
    /\ Rest(r)
    /\ IF RowClaimed(r)
       THEN /\ cleanup' = [cleanup EXCEPT ![rec[r].token].status = "operator"]
            /\ fence' = [fence EXCEPT !.kind = "recovery"]
       ELSE UNCHANGED <<cleanup, fence>>
    /\ UNCHANGED <<session, account, resolved, task, disc, ready, google, discarded>>

ReconcilerVanishes(r) ==
    /\ rec[r].pc # "idle"
    /\ Rest(r)
    /\ UNCHANGED <<store, task, disc, ready, google, discarded>>

(***************************************************************************)
(* Disconnecting an account                                                *)
(***************************************************************************)
\* Mutant: the disconnect does not look at the fence.
DisconnectAnyTime(a) == NoOpenAuthorization /\ a \in Protected

\* The guard of claim_disconnect: no other work is under way, or this is the
\* same request again, after a failure or when the last try is found stale.
MayDisconnect(a) ==
    /\ NoOpenAuthorization
    /\ a \in Protected
    /\ \/ Unfenced
       \/ /\ fence.kind = "disconnect" /\ fence.owner = a
          /\ \/ account[a].status = "revocation_failed"
             \/ /\ account[a].status = "disconnecting"
                /\ \A q \in Requests : ~(disc[q].pc = "revoke" /\ disc[q].account = a)

\* claim_disconnect.  The tokens of the account are revoked one by one,
\* unless another account is kept on the same grant.
ClaimDisconnect(d, a) ==
    /\ disc[d].pc = "idle"
    /\ MayDisconnect(a)
    /\ account[a].claim < MaxClaims
    /\ LET n == account[a].claim + 1
           shared == \E b \in Protected \ {a} :
                        subject[account[b].token] = subject[account[a].token]
       IN /\ account' = [account EXCEPT ![a].status = "disconnecting", ![a].claim = n]
          /\ fence' = [kind |-> "disconnect", owner |-> a, claim |-> n]
          /\ disc' = [disc EXCEPT ![d] =
                        [pc |-> IF shared THEN "complete" ELSE "revoke", account |-> a, claim |-> n,
                         todo |-> IF shared THEN {}
                                  ELSE {account[a].token} \cup account[a].retired]]
    /\ session' = Drift(session, {a})
    /\ UNCHANGED <<cleanup, resolved, task, rec, ready, google, discarded>>

\* One revocation request of disconnect_admitted; the first that is not
\* answered as done ends the try.
DisconnectRevoke(d) ==
    /\ disc[d].pc = "revoke"
    /\ \E t \in disc[d].todo :
          \/ /\ Revoke(t)
             /\ disc' = [disc EXCEPT ![d].todo = @ \ {t},
                                     ![d].pc = IF disc[d].todo = {t} THEN "complete" ELSE @]
          \/ Revoke(t) /\ disc' = [disc EXCEPT ![d].pc = "fail"]
          \/ disc' = [disc EXCEPT ![d].pc = "fail"] /\ UNCHANGED grant
    /\ UNCHANGED <<store, task, rec, ready, subject, discarded>>

DisconnectClaimed(d) ==
    LET a == disc[d].account
    IN /\ FenceIs("disconnect", a, disc[d].claim)
       /\ account[a].status = "disconnecting"

Leave(d) ==
    disc' = [disc EXCEPT ![d] = [pc |-> "idle", account |-> 0, claim |-> 0, todo |-> {}]]

\* complete_disconnect.
CompleteDisconnect(d) ==
    LET a == disc[d].account
    IN /\ disc[d].pc = "complete"
       /\ Leave(d)
       /\ IF DisconnectClaimed(d)
          THEN /\ account' = [account EXCEPT ![a].status = "revoked", ![a].retired = {}]
               /\ fence' = NoFence
               /\ session' = Drift(session, {a})
          ELSE UNCHANGED <<session, account, fence>>
       /\ UNCHANGED <<cleanup, resolved, task, rec, ready, google, discarded>>

\* fail_disconnect: the fence stays, for the same request only.
FailDisconnect(d) ==
    LET a == disc[d].account
    IN /\ disc[d].pc = "fail"
       /\ Leave(d)
       /\ IF DisconnectClaimed(d)
          THEN /\ account' = [account EXCEPT ![a].status = "revocation_failed"]
               /\ session' = Drift(session, {a})
          ELSE UNCHANGED <<session, account>>
       /\ UNCHANGED <<cleanup, fence, resolved, task, rec, ready, google, discarded>>

DisconnectVanishes(d) ==
    /\ disc[d].pc # "idle"
    /\ Leave(d)
    /\ UNCHANGED <<store, task, rec, ready, google, discarded>>

(***************************************************************************)
(* The specification                                                       *)
(***************************************************************************)
\* One step of the callback of a session and of its guardian.
TaskStep(s) ==
    \/ Preflight(s) \/ FailAuthorization(s) \/ Exchange(s) \/ Hold(s)
    \/ Identify(s) \/ Stage(s) \/ Complete(s) \/ Abandon(s)
    \/ GuardianHold(s) \/ GuardianRelease(s) \/ GuardianClaim(s)
    \/ GuardianRevoke(s) \/ GuardianComplete(s)

Next ==
    \/ \E s \in Sessions : \/ \E a \in Accounts : CreateSession(s, a)
                           \/ ExpirePending(s) \/ ClaimCallback(s)
                           \/ TaskStep(s) \/ Vanish(s)
    \/ BeginPass \/ ReconcileStaged \/ RecoverStartup \/ OperatorRecovery
    \/ \E r \in Reconcilers : \/ ClaimCleanup(r) \/ CleanupRevoke(r)
                              \/ CompleteCleanup(r) \/ FailCleanup(r)
                              \/ DeferCleanup(r) \/ ReconcilerVanishes(r)
    \/ \E d \in Requests : \/ \E a \in Accounts : ClaimDisconnect(d, a)
                           \/ DisconnectRevoke(d) \/ CompleteDisconnect(d)
                           \/ FailDisconnect(d) \/ DisconnectVanishes(d)

Spec == Init /\ [][Next]_vars

\* The recovery worker keeps coming, and every request in hand goes on.
FairSpec ==
    /\ Spec
    /\ WF_vars(ReconcileStaged)
    /\ WF_vars(RecoverStartup)
    /\ \A s \in Sessions : WF_vars(TaskStep(s))
    /\ \A r \in Reconcilers :
          WF_vars(ClaimCleanup(r) \/ CompleteCleanup(r) \/ FailCleanup(r) \/ DeferCleanup(r))

(***************************************************************************)
(* Properties                                                              *)
(***************************************************************************)
\* The rows of the tables and the states of the tasks.
SessionRow ==
    [status : {"none", "pending", "exchanging", "staged", "consumed", "failed"},
     account : Accounts, reauth : BOOLEAN, current : BOOLEAN, reuse : BOOLEAN,
     token : Tokens, retired : SUBSET Tokens]
CleanupRow ==
    [status : {"none", "held", "pending", "revoking", "operator"},
     known : BOOLEAN, attempt : 0..MaxAttempts]
AccountRow ==
    [status : {"none", "active", "reauthorize", "disconnecting", "revocation_failed", "revoked"},
     token : Tokens, retired : SUBSET Tokens, claim : 0..MaxClaims]
Fences ==
    [kind : {"none", "guardian", "cleanup", "disconnect", "recovery"},
     owner : Tokens, claim : Nat]
Callback ==
    [pc : {"idle", "claimed", "exchange", "denied", "hold", "identity", "stage", "complete",
           "abandon", "done", "guardian", "gRelease", "gRevoke", "gComplete"},
     claimed : BOOLEAN]
Pass ==
    [pc : {"idle", "revoke", "complete", "discard", "fail", "defer"},
     token : Tokens, claim : 0..MaxAttempts]
Handler ==
    [pc : {"idle", "revoke", "complete", "fail"}, account : Accounts,
     claim : 0..MaxClaims, todo : SUBSET Tokens]

\* Every variable holds a value of its table's or its task's type.
TypeOK ==
    /\ session \in [Sessions -> SessionRow]
    /\ cleanup \in [Sessions -> CleanupRow]
    /\ account \in [Accounts -> AccountRow]
    /\ fence \in Fences
    /\ resolved \in [Sessions -> {"none", "released", "revoked"}]
    /\ task \in [Sessions -> Callback]
    /\ rec \in [Reconcilers -> Pass]
    /\ disc \in [Requests -> Handler]
    /\ ready \in BOOLEAN
    /\ subject \in [Tokens -> Subjects]
    /\ grant \in [Tokens -> {"none", "valid", "revoked"}]
    /\ discarded \subseteq Sessions

\* No grant is forgotten.  Of a refresh token that works the database has a
\* copy, in an account that is kept or in a row to be revoked; or it still has
\* the session as exchanging, which startup recovery puts before the operator;
\* or the copy was dropped because the grant was an account's.  Callbacks,
\* guardians, recovery and operator must hand it on without a gap, wherever
\* one of them stops.
NoGrantForgotten ==
    \A s \in Sessions : grant[s] = "valid" =>
        \/ \E a \in Protected : s \in {account[a].token} \cup account[a].retired
        \/ cleanup[s].status # "none"
        \/ session[s].status = "exchanging"
        \/ s \in discarded

\* An account in use keeps working: no cleanup, guardian or disconnect of
\* another token revokes the grant its own token belongs to.
Works(a) ==
    account[a].status = "active" /\ grant[account[a].token] = "valid"
GrantOutlivesCleanup ==
    [][\A a \in Accounts :
         Works(a) /\ account'[a].status = "active" => Works(a)']_vars

\* At any time at most one revocation request is out at Google, whoever sends
\* it, and the fence names its sender.
OneRevocationAtATime ==
    /\ \A s \in Sessions : task[s].pc = "gRevoke" => fence = GuardianFence(s)
    /\ \A r \in Reconcilers : rec[r].pc = "revoke" =>
          FenceIs("cleanup", rec[r].token, rec[r].claim)
    /\ \A d \in Requests : disc[d].pc = "revoke" =>
          FenceIs("disconnect", disc[d].account, disc[d].claim)

\* "Still staged is durable and reconcile_staged can safely finish it on the
\* next entry point" (service.rs:1331): a staged authorization does not stay
\* staged, unless a revocation comes in between.
StagedIsFinished ==
    \A s \in Sessions :
        (session[s].status = "staged" /\ Unfenced)
            ~> (session[s].status # "staged" \/ ~Unfenced)
=============================================================================

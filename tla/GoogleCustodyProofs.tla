------------------------- MODULE GoogleCustodyProofs -------------------------
(***************************************************************************)
(* What the transactions of refresh token custody do, one lemma each, and  *)
(* that they keep the types, the life of a session and the fence: at most  *)
(* one revocation request is out at Google.  Then what a step of the       *)
(* fenced system may do to the grants, the accounts and the sessions, and  *)
(* what becomes of the grants: no grant that works is forgotten, and no    *)
(* revocation ends the grant of an account in use.  For any number of      *)
(* sessions, subjects, reconcilers and disconnect requests.                *)
(***************************************************************************)
EXTENDS GoogleCustody, TLAPS

(* Zenon does the leaves; SMT is named where one needs arithmetic. *)
USE Zenon

(***************************************************************************)
(* What the transactions do, one lemma each                                *)
(***************************************************************************)
\* The places a callback or its guardian can be at.
Pcs == {"idle", "claimed", "exchange", "denied", "hold", "identity", "stage", "complete",
        "abandon", "done", "guardian", "gRelease", "gRevoke", "gComplete"}

\* Two versions of a session's row that differ in status and revision at most.
SameRequest(x, y) ==
    /\ x.account = y.account /\ x.reauth = y.reauth /\ x.reuse = y.reuse
    /\ x.token = y.token /\ x.retired = y.retired
    /\ x.current => y.current

\* task' differs from task in the program counter of s.
Moves(s, pc) ==
    /\ task'[s].pc = pc
    /\ \A u \in Sessions \ {s} : task'[u] = task[u]

\* Goto moves one callback and leaves the others alone.
LEMMA GotoIs ==
    ASSUME task \in [Sessions -> Callback], NEW s \in Sessions, NEW pc \in Pcs, Goto(s, pc)
    PROVE  task' \in [Sessions -> Callback] /\ Moves(s, pc)
BY DEF Goto, Callback, Pcs, Moves

\* Fail changes nothing of the sessions but the status of one.
LEMMA FailIs ==
    ASSUME NEW ss \in [Sessions -> SessionRow], NEW s
    PROVE  /\ Fail(ss, s) \in [Sessions -> SessionRow]
           /\ \A u \in Sessions :
                 /\ SameRequest(Fail(ss, s)[u], ss[u])
                 /\ Fail(ss, s)[u].status = IF u = s THEN "failed" ELSE ss[u].status
BY ZenonT(30) DEF Fail, SessionRow, SameRequest

\* fail_session fails a session that is pending or exchanging.
LEMMA FailedSessionIs ==
    ASSUME NEW ss \in [Sessions -> SessionRow], NEW s
    PROVE  /\ FailedSession(ss, s) \in [Sessions -> SessionRow]
           /\ \A u \in Sessions :
                 /\ SameRequest(FailedSession(ss, s)[u], ss[u])
                 /\ FailedSession(ss, s)[u].status =
                       IF u = s /\ ss[u].status \in {"pending", "exchanging"}
                       THEN "failed" ELSE ss[u].status
<1>1. \A u \in Sessions : SameRequest(ss[u], ss[u])
  BY DEF SameRequest
<1> QED
  BY SMT, <1>1, FailIs DEF FailedSession

\* A new revision of some accounts makes the requests about them late and
\* changes nothing else.
LEMMA DriftIs ==
    ASSUME NEW ss \in [Sessions -> SessionRow], NEW as
    PROVE  /\ Drift(ss, as) \in [Sessions -> SessionRow]
           /\ \A u \in Sessions :
                 /\ SameRequest(Drift(ss, as)[u], ss[u])
                 /\ Drift(ss, as)[u].status = ss[u].status
                 /\ Drift(ss, as)[u].current => ~(ss[u].reauth /\ ss[u].account \in as)
BY ZenonT(30) DEF Drift, SessionRow, SameRequest

\* A held row becomes due, any other stays as it is.
LEMMA PromoteIs ==
    ASSUME NEW rows \in [Sessions -> CleanupRow], NEW s
    PROVE  /\ Promote(rows, s) \in [Sessions -> CleanupRow]
           /\ \A u \in Sessions :
                 /\ Promote(rows, s)[u].attempt = rows[u].attempt
                 /\ Promote(rows, s)[u].status =
                       IF u = s /\ rows[u].status = "held" THEN "pending" ELSE rows[u].status
BY ZenonT(30) DEF Promote, CleanupRow

\* A revocation ends the grants of one subject, and the token it was asked
\* for does not work afterwards.
LEMMA RevokeIs ==
    ASSUME grant \in [Tokens -> {"none", "valid", "revoked"}], NEW t \in Tokens, Revoke(t)
    PROVE  /\ grant' \in [Tokens -> {"none", "valid", "revoked"}]
           /\ grant'[t] # "valid"
           /\ \A u \in Tokens :
                 \/ grant'[u] = grant[u]
                 \/ grant[u] = "valid" /\ grant'[u] = "revoked" /\ subject[u] = subject[t]
           /\ grant[t] = "valid" =>
                 \A u \in Tokens : subject[u] = subject[t] => grant'[u] # "valid"
BY DEF Revoke

\* The empty rows and the fences are of their types.
LEMMA RowsTyped ==
    /\ NoSession \in SessionRow /\ NoRow \in CleanupRow /\ NoAccount \in AccountRow
    /\ NoFence \in Fences
    /\ \A s \in Sessions : GuardianFence(s) \in Fences
BY SMT, SessionsAreNumbered, BoundsAreNumbers
   DEF NoSession, NoRow, NoAccount, NoFence, GuardianFence, SessionRow, CleanupRow,
       AccountRow, Fences, Tokens, Accounts

\* hold_cleanup_token leaves a row that is not empty as it is.
LEMMA HoldRowIs ==
    ASSUME cleanup \in [Sessions -> CleanupRow], NEW s \in Sessions, HoldRow(s)
    PROVE  /\ cleanup' \in [Sessions -> CleanupRow]
           /\ cleanup'[s].status = IF cleanup[s].status = "none" THEN "held"
                                                               ELSE cleanup[s].status
           /\ cleanup'[s].attempt = cleanup[s].attempt
           /\ \A u \in Sessions \ {s} : cleanup'[u] = cleanup[u]
BY DEF HoldRow, CleanupRow

\* complete_staged: the effect on the session, its row and the account.
LEMMA CompleteStagedIs ==
    ASSUME TypeOK, NEW s \in Sessions, CompleteStaged(s)
    PROVE  LET a == session[s].account
           IN /\ a \in Accounts
              /\ session' \in [Sessions -> SessionRow]
              /\ cleanup' \in [Sessions -> CleanupRow]
              /\ account' \in [Accounts -> AccountRow]
              /\ \A u \in Sessions :
                    /\ SameRequest(session'[u], session[u])
                    /\ session'[u].status = IF u = s THEN "consumed" ELSE session[u].status
                    /\ session'[u].current => ~(session[u].reauth /\ session[u].account = a)
              /\ cleanup'[s] = NoRow
              /\ \A u \in Sessions \ {s} : cleanup'[u] = cleanup[u]
              /\ account'[a].status = "active"
              /\ account'[a].token = session[s].token
              /\ account'[a].retired = session[s].retired
              /\ account'[a].claim = account[a].claim
              /\ \A b \in Accounts \ {a} : account'[b] = account[b]
<1> DEFINE a == session[s].account
           ss == Drift(session, {a})
<1>1. a \in Accounts /\ session[s].token \in Tokens /\ session[s].retired \in SUBSET Tokens
  BY DEF TypeOK, SessionRow
<1>2. /\ ss \in [Sessions -> SessionRow]
      /\ \A u \in Sessions : /\ SameRequest(ss[u], session[u])
                             /\ ss[u].status = session[u].status
                             /\ ss[u].current => ~(session[u].reauth /\ session[u].account = a)
  BY SMT, DriftIs DEF TypeOK
<1>3. session' = [ss EXCEPT ![s].status = "consumed"]
  BY DEF CompleteStaged
<1> HIDE DEF ss
<1>4. /\ session' \in [Sessions -> SessionRow]
      /\ \A u \in Sessions :
            /\ SameRequest(session'[u], ss[u]) /\ session'[u].current = ss[u].current
            /\ session'[u].status = IF u = s THEN "consumed" ELSE ss[u].status
  BY SMT, <1>2, <1>3 DEF SessionRow, SameRequest
<1>5. \A u \in Sessions :
            /\ SameRequest(session'[u], session[u])
            /\ session'[u].status = IF u = s THEN "consumed" ELSE session[u].status
            /\ session'[u].current => ~(session[u].reauth /\ session[u].account = a)
  BY SMT, <1>2, <1>4 DEF SameRequest
<1>6. NoRow \in CleanupRow
  BY SMT, BoundsAreNumbers DEF NoRow, CleanupRow
<1>7. /\ cleanup' \in [Sessions -> CleanupRow] /\ cleanup'[s] = NoRow
      /\ \A u \in Sessions \ {s} : cleanup'[u] = cleanup[u]
  BY <1>6 DEF CompleteStaged, TypeOK
<1>8. /\ account' \in [Accounts -> AccountRow]
      /\ account'[a].status = "active"
      /\ account'[a].token = session[s].token
      /\ account'[a].retired = session[s].retired
      /\ account'[a].claim = account[a].claim
      /\ \A b \in Accounts \ {a} : account'[b] = account[b]
  BY ZenonT(30), <1>1 DEF CompleteStaged, TypeOK, AccountRow
<1> QED
  BY <1>1, <1>4, <1>5, <1>7, <1>8

\* create_session: the new session, and the pending ones that give way.
LEMMA CreateSessionIs ==
    ASSUME TypeOK, NEW s \in Sessions, NEW a \in Accounts, CreateSession(s, a)
    PROVE  /\ session' \in [Sessions -> SessionRow]
           /\ session'[s].status = "pending" /\ session'[s].account = a
           /\ session'[s].reauth = (a # s) /\ session'[s].reuse = FALSE
           /\ session'[s].token = 0 /\ session'[s].retired = {}
           /\ \A u \in Sessions \ {s} :
                 /\ SameRequest(session'[u], session[u])
                 /\ session'[u].status = IF session[u].status = "pending" THEN "failed"
                                                                        ELSE session[u].status
<1> DEFINE new == [NoSession EXCEPT !.status = "pending", !.account = a, !.reauth = (a # s)]
<1>1. /\ new \in SessionRow /\ new.status = "pending" /\ new.account = a
      /\ new.reauth = (a # s) /\ new.reuse = FALSE /\ new.token = 0 /\ new.retired = {}
  BY RowsTyped DEF NoSession, SessionRow
<1>2. session' = [u \in Sessions |->
                    IF u = s THEN new
                    ELSE IF session[u].status = "pending" THEN Fail(session, u)[u]
                    ELSE session[u]]
  BY DEF CreateSession
<1> HIDE DEF new
<1>3. session \in [Sessions -> SessionRow]
  BY DEF TypeOK
<1>4. \A u \in Sessions : SameRequest(session[u], session[u])
  BY DEF SameRequest
<1> QED
  BY SMT, <1>1, <1>2, <1>3, <1>4, FailIs

\* claim_callback: the session takes the credentials of the account over, or
\* fails.
LEMMA ClaimCallbackIs ==
    ASSUME TypeOK, NEW s \in Sessions, ClaimCallback(s)
    PROVE  LET old == account[session[s].account]
           IN /\ session' \in [Sessions -> SessionRow] /\ task' \in [Sessions -> Callback]
              /\ \A u \in Sessions \ {s} : session'[u] = session[u]
              /\ session'[s].account = session[s].account
              /\ session'[s].reauth = session[s].reauth
              /\ session'[s].current => session[s].current
              /\ \/ /\ ExpectedAccount(s)
                    /\ session'[s].status = "exchanging"
                    /\ session'[s].reuse = (old.status = "active")
                    /\ session'[s].token = old.token /\ session'[s].retired = old.retired
                    /\ Moves(s, "claimed")
                 \/ /\ session'[s].status = "failed"
                    /\ SameRequest(session'[s], session[s])
                    /\ UNCHANGED task
<1> DEFINE old == account[session[s].account]
<1>1. session \in [Sessions -> SessionRow] /\ task \in [Sessions -> Callback] /\ old \in AccountRow
  BY DEF TypeOK, SessionRow
<1>2. CASE ExpectedAccount(s)
  <2>1. Goto(s, "claimed") /\ session' = [session EXCEPT ![s].status = "exchanging",
                                             ![s].reuse = old.status = "active",
                                             ![s].token = old.token,
                                             ![s].retired = old.retired]
    BY <1>2 DEF ClaimCallback
  <2>2. task' \in [Sessions -> Callback] /\ Moves(s, "claimed")
    BY <1>1, <2>1, GotoIs DEF Pcs
  <2> HIDE DEF old
  <2>3. old.token \in Tokens /\ old.retired \in SUBSET Tokens
    BY <1>1 DEF AccountRow
  <2> DEFINE reuse == old.status = "active"
             row == [session[s] EXCEPT !.status = "exchanging", !.reuse = reuse,
                                       !.token = old.token, !.retired = old.retired]
  <2>a. reuse \in BOOLEAN /\ session' = [session EXCEPT ![s] = row]
    BY <1>1, <2>1
  <2>b. row \in SessionRow
    <3> HIDE DEF reuse
    <3> QED
      BY <1>1, <2>3, <2>a DEF SessionRow
  <2>4. /\ session' \in [Sessions -> SessionRow]
        /\ \A u \in Sessions \ {s} : session'[u] = session[u]
    <3> HIDE DEF row
    <3> QED
      BY <1>1, <2>a, <2>b
  <2>5. /\ session'[s].account = session[s].account
        /\ session'[s].reauth = session[s].reauth
        /\ session'[s].current => session[s].current
        /\ session'[s].status = "exchanging"
        /\ session'[s].reuse = (old.status = "active")
        /\ session'[s].token = old.token /\ session'[s].retired = old.retired
    BY SMT, <1>1, <2>1 DEF SessionRow
  <2> QED
    BY <1>2, <2>2, <2>4, <2>5 DEF old
<1>3. CASE ~ExpectedAccount(s)
  <2>1. session' = FailedSession(session, s) /\ session[s].status = "pending" /\ UNCHANGED task
    BY <1>3 DEF ClaimCallback
  <2>2. \A u \in Sessions \ {s} : session'[u] = session[u]
    BY <1>1, <2>1 DEF FailedSession, Fail
  <2> QED
    BY SMT, <1>1, <2>1, <2>2, FailedSessionIs DEF SameRequest
<1> QED
  BY <1>2, <1>3

\* stage_authorization: the request is staged as a whole, or abandoned.
LEMMA StageIs ==
    ASSUME TypeOK, NEW s \in Sessions, Stage(s)
    PROVE  /\ session' \in [Sessions -> SessionRow] /\ task' \in [Sessions -> Callback]
           /\ \A u \in Sessions \ {s} : session'[u] = session[u]
           /\ \/ /\ CompletionFits(s) /\ StageFits(s)
                 /\ session'[s].status = "staged"
                 /\ session'[s].account = session[s].account
                 /\ session'[s].reauth = session[s].reauth
                 /\ session'[s].reuse = session[s].reuse
                 /\ session'[s].current = session[s].current
                 /\ session'[s].token = IF Fresh(s) THEN s ELSE session[s].token
                 /\ session'[s].retired =
                       IF Fresh(s) /\ session[s].reauth
                       THEN session[s].retired \cup {session[s].token} ELSE session[s].retired
                 /\ Moves(s, "complete")
              \/ UNCHANGED session /\ Moves(s, "abandon")
<1> DEFINE old == session[s]
           token == IF Fresh(s) THEN s ELSE old.token
           retired == IF Fresh(s) /\ old.reauth THEN old.retired \cup {old.token}
                                                ELSE old.retired
<1>1. session \in [Sessions -> SessionRow] /\ task \in [Sessions -> Callback]
  BY DEF TypeOK
<1>2. token \in Tokens /\ retired \in SUBSET Tokens
  BY <1>1 DEF SessionRow, Tokens
<1>3. CASE /\ CompletionFits(s) /\ StageFits(s)
           /\ session' = [session EXCEPT ![s].status = "staged", ![s].token = token,
                                         ![s].retired = retired]
           /\ Goto(s, "complete")
  <2>1. task' \in [Sessions -> Callback] /\ Moves(s, "complete")
    BY <1>1, <1>3, GotoIs DEF Pcs
  <2>2. session' = [session EXCEPT ![s].status = "staged", ![s].token = token,
                                   ![s].retired = retired]
    BY <1>3
  <2> HIDE DEF token, retired
  <2> DEFINE row == [session[s] EXCEPT !.status = "staged", !.token = token, !.retired = retired]
  <2>a. session' = [session EXCEPT ![s] = row]
    BY <1>1, <2>2
  <2>b. row \in SessionRow
    BY <1>1, <1>2 DEF SessionRow
  <2>3. /\ session' \in [Sessions -> SessionRow]
        /\ \A u \in Sessions \ {s} : session'[u] = session[u]
    <3> HIDE DEF row
    <3> QED
      BY <1>1, <2>a, <2>b
  <2>4. /\ session'[s].status = "staged" /\ session'[s].token = token
        /\ session'[s].retired = retired /\ session'[s].account = old.account
        /\ session'[s].reauth = old.reauth /\ session'[s].reuse = old.reuse
        /\ session'[s].current = old.current
    BY SMT, <1>1, <2>2 DEF SessionRow
  <2> QED
    BY <1>3, <2>1, <2>3, <2>4 DEF token, retired
<1>4. CASE Goto(s, "abandon") /\ UNCHANGED session
  BY <1>1, <1>4, GotoIs DEF Pcs
<1> QED
  BY <1>3, <1>4 DEF Stage

\* recover_startup: it runs without a fence or under a stale guardian's, fails
\* only sessions whose token is stored, and drops no row.
LEMMA RecoverStartupIs ==
    ASSUME TypeOK, RecoverStartup
    PROVE  /\ session' \in [Sessions -> SessionRow] /\ cleanup' \in [Sessions -> CleanupRow]
           /\ fence' \in Fences /\ resolved' \in [Sessions -> {"none", "released", "revoked"}]
           /\ \A u \in Sessions :
                 /\ SameRequest(session'[u], session[u])
                 /\ \/ session'[u].status = session[u].status
                    \/ /\ session'[u].status = "failed" /\ cleanup[u].status # "none"
                       /\ session[u].status \in {"pending", "exchanging"}
                 /\ cleanup'[u].attempt = cleanup[u].attempt
                 /\ \/ cleanup'[u].status = cleanup[u].status
                    \/ /\ cleanup[u].status = "held" /\ cleanup'[u].status = "pending"
                       /\ session'[u].status = "failed"
           /\ Unfenced \/ GuardianStale
           /\ \/ fence'.kind = "none"
              \/ GuardianStale /\ fence'.kind = "recovery" /\ fence'.owner = fence.owner
              \/ \E s \in Sessions : /\ session[s].status = "exchanging"
                                     /\ task[s].pc # "exchange"
                                     /\ fence' = [kind |-> "recovery", owner |-> s, claim |-> 0]
<1> DEFINE Ends(ss, rows, tt, qq) ==
             \A u \in Sessions :
                 /\ SameRequest(tt[u], ss[u])
                 /\ \/ tt[u].status = ss[u].status
                    \/ /\ tt[u].status = "failed" /\ rows[u].status # "none"
                       /\ ss[u].status \in {"pending", "exchanging"}
                 /\ qq[u].attempt = rows[u].attempt
                 /\ \/ qq[u].status = rows[u].status
                    \/ rows[u].status = "held" /\ qq[u].status = "pending" /\ tt[u].status = "failed"
<1>1. ASSUME NEW ss \in [Sessions -> SessionRow], NEW rows \in [Sessions -> CleanupRow], NEW s,
             rows[s].status # "none"
      PROVE  /\ FailedSession(ss, s) \in [Sessions -> SessionRow]
             /\ FailedRow(ss, rows, s) \in [Sessions -> CleanupRow]
             /\ Ends(ss, rows, FailedSession(ss, s), FailedRow(ss, rows, s))
  BY SMT, <1>1, FailedSessionIs, PromoteIs DEF FailedRow
<1>2. ASSUME NEW ss, NEW rows PROVE Ends(ss, rows, ss, rows)
  BY DEF SameRequest
<1>3. ASSUME NEW ss, NEW rows, NEW tt, NEW qq, NEW vv, NEW ww,
             Ends(ss, rows, tt, qq), Ends(tt, qq, vv, ww)
      PROVE  Ends(ss, rows, vv, ww)
  BY SMT, <1>3 DEF SameRequest
<1>4. PICK stale \in BOOLEAN :
          /\ stale => GuardianStale
          /\ LET now == AfterGuardian(stale)
             IN /\ resolved' = now.resolved
                /\ \/ \E s \in Sessions :
                         /\ now.fence.kind = "none"
                         /\ now.session[s].status = "exchanging"
                         /\ task[s].pc # "exchange"
                         /\ AfterExchange(now, s)
                   \/ /\ stale
                      /\ session' = now.session
                      /\ cleanup' = now.cleanup
                      /\ fence' = now.fence
  BY DEF RecoverStartup
<1> DEFINE now == AfterGuardian(stale)
<1>5. /\ session \in [Sessions -> SessionRow] /\ cleanup \in [Sessions -> CleanupRow]
      /\ fence \in Fences
  BY DEF TypeOK
<1>6. /\ now.session \in [Sessions -> SessionRow] /\ now.cleanup \in [Sessions -> CleanupRow]
      /\ now.resolved \in [Sessions -> {"none", "released", "revoked"}]
      /\ Ends(session, cleanup, now.session, now.cleanup)
  <2>1. CASE stale /\ cleanup[fence.owner].status # "none"
    <3>1. /\ now.session = FailedSession(session, fence.owner)
          /\ now.cleanup = FailedRow(session, cleanup, fence.owner)
          /\ now.resolved = [resolved EXCEPT ![fence.owner] = "released"]
      BY <2>1 DEF AfterGuardian
    <3>2. now.resolved \in [Sessions -> {"none", "released", "revoked"}]
      BY <3>1 DEF TypeOK
    <3> HIDE DEF Ends, now
    <3> QED
      BY SMT, <1>1, <1>5, <2>1, <3>1, <3>2
  <2>2. CASE ~(stale /\ cleanup[fence.owner].status # "none")
    <3>1. now.session = session /\ now.cleanup = cleanup /\ now.resolved = resolved
      BY <2>2 DEF AfterGuardian
    <3> QED
      BY <1>2, <1>5, <3>1 DEF TypeOK
  <2> QED
    BY <2>1, <2>2
<1>7. /\ now.fence \in Fences
      /\ ~stale => now.fence = fence
      /\ stale => \/ now.fence.kind = "none"
                  \/ now.fence.kind = "recovery" /\ now.fence.owner = fence.owner
  BY <1>4, <1>5, RowsTyped DEF AfterGuardian, Fences, NoFence
<1>8. ASSUME now.fence.kind = "none" PROVE Unfenced \/ GuardianStale
  BY <1>4, <1>7, <1>8 DEF Unfenced
<1>9. ASSUME NEW s \in Sessions, now.session[s].status = "exchanging"
      PROVE  session[s].status = "exchanging"
  BY <1>6, <1>9
<1> HIDE DEF now, Ends
<1>10. CASE stale /\ session' = now.session /\ cleanup' = now.cleanup /\ fence' = now.fence
  BY <1>4, <1>6, <1>7, <1>10 DEF Ends, now
<1>11. ASSUME NEW s \in Sessions, now.fence.kind = "none", now.session[s].status = "exchanging",
              task[s].pc # "exchange", AfterExchange(now, s)
       PROVE  /\ session' \in [Sessions -> SessionRow] /\ cleanup' \in [Sessions -> CleanupRow]
              /\ fence' \in Fences
              /\ Ends(session, cleanup, session', cleanup')
              /\ \/ fence'.kind = "none"
                 \/ fence' = [kind |-> "recovery", owner |-> s, claim |-> 0]
  <2>1. CASE now.cleanup[s].status # "none"
    <3>1. /\ session' = FailedSession(now.session, s)
          /\ cleanup' = FailedRow(now.session, now.cleanup, s)
          /\ fence' = now.fence
      BY <1>11, <2>1 DEF AfterExchange
    <3>2. /\ session' \in [Sessions -> SessionRow] /\ cleanup' \in [Sessions -> CleanupRow]
          /\ Ends(now.session, now.cleanup, session', cleanup')
      BY <1>1, <1>6, <2>1, <3>1
    <3> QED
      BY SMT, <1>3, <1>6, <1>7, <1>11, <3>1, <3>2
  <2>2. CASE now.cleanup[s].status = "none"
    <3>1. UNCHANGED <<session, cleanup>> /\ fence' = [kind |-> "recovery", owner |-> s, claim |-> 0]
      BY <1>11, <2>2 DEF AfterExchange
    <3> QED
      BY <1>2, <1>5, <3>1 DEF Fences, Tokens
  <2> QED
    BY <2>1, <2>2
<1> QED
  BY SMT, <1>4, <1>6, <1>8, <1>9, <1>10, <1>11 DEF Ends, now

\* account' differs from account in what is given of a.
AccountMoves(a, status, retired, claim) ==
    /\ account' \in [Accounts -> AccountRow]
    /\ account'[a].status = status /\ account'[a].token = account[a].token
    /\ account'[a].retired = retired /\ account'[a].claim = claim
    /\ \A b \in Accounts \ {a} : account'[b] = account[b]

\* Sessions that expect the accounts as they were are late.
Drifts(as) ==
    /\ session' \in [Sessions -> SessionRow]
    /\ \A u \in Sessions :
          /\ SameRequest(session'[u], session[u])
          /\ session'[u].status = session[u].status
          /\ session'[u].current => ~(session[u].reauth /\ session[u].account \in as)

\* acknowledge_operator_recovery: nothing works any more, and every account
\* that is kept is to be authorized again.
LEMMA OperatorRecoveryIs ==
    ASSUME TypeOK, OperatorRecovery
    PROVE  /\ session' \in [Sessions -> SessionRow] /\ cleanup' \in [Sessions -> CleanupRow]
           /\ account' \in [Accounts -> AccountRow]
           /\ grant' \in [Tokens -> {"none", "valid", "revoked"}]
           /\ \A u \in Sessions :
                 /\ SameRequest(session'[u], session[u])
                 /\ session'[u].status =
                       IF u = fence.owner /\ session[u].status \in {"pending", "exchanging"}
                       THEN "failed" ELSE session[u].status
                 /\ session'[u].current => ~(session[u].reauth /\ session[u].account \in Protected)
                 /\ cleanup'[u] = IF u = fence.owner THEN NoRow ELSE cleanup[u]
           /\ \A a \in Accounts :
                 /\ account'[a].status = IF a \in Protected THEN "reauthorize"
                                                            ELSE account[a].status
                 /\ account'[a].token = account[a].token
                 /\ account'[a].retired = account[a].retired
                 /\ account'[a].claim = account[a].claim
                 /\ a \notin Protected => account'[a] = account[a]
           /\ \A t \in Tokens :
                 /\ grant'[t] # "valid"
                 /\ grant[t] # "valid" => grant'[t] = grant[t]
<1>1. /\ session \in [Sessions -> SessionRow] /\ cleanup \in [Sessions -> CleanupRow]
      /\ account \in [Accounts -> AccountRow]
      /\ grant \in [Tokens -> {"none", "valid", "revoked"}]
  BY DEF TypeOK
<1>2. /\ session' \in [Sessions -> SessionRow]
      /\ \A u \in Sessions :
            /\ SameRequest(session'[u], session[u])
            /\ session'[u].status =
                  IF u = fence.owner /\ session[u].status \in {"pending", "exchanging"}
                  THEN "failed" ELSE session[u].status
            /\ session'[u].current => ~(session[u].reauth /\ session[u].account \in Protected)
  <2> DEFINE ss == FailedSession(session, fence.owner)
  <2>1. /\ ss \in [Sessions -> SessionRow]
        /\ \A u \in Sessions :
              /\ SameRequest(ss[u], session[u])
              /\ ss[u].status = IF u = fence.owner /\ session[u].status \in {"pending", "exchanging"}
                                THEN "failed" ELSE session[u].status
    BY <1>1, FailedSessionIs
  <2>2. session' = Drift(ss, Protected)
    BY DEF OperatorRecovery
  <2> HIDE DEF ss
  <2>3. /\ session' \in [Sessions -> SessionRow]
        /\ \A u \in Sessions :
              /\ SameRequest(session'[u], ss[u])
              /\ session'[u].status = ss[u].status
              /\ session'[u].current => ~(ss[u].reauth /\ ss[u].account \in Protected)
    BY SMT, <2>1, <2>2, DriftIs
  <2> QED
    BY SMT, <2>1, <2>3 DEF SameRequest
<1>3. /\ cleanup' \in [Sessions -> CleanupRow]
      /\ \A u \in Sessions : cleanup'[u] = IF u = fence.owner THEN NoRow ELSE cleanup[u]
  BY <1>1, RowsTyped DEF OperatorRecovery
<1>4. \A a \in Accounts : account'[a] = IF a \in Protected
                                        THEN [account[a] EXCEPT !.status = "reauthorize"]
                                        ELSE account[a]
  BY DEF OperatorRecovery
<1>5. /\ account' \in [Accounts -> AccountRow]
      /\ \A a \in Accounts :
            /\ account'[a].status = IF a \in Protected THEN "reauthorize" ELSE account[a].status
            /\ account'[a].token = account[a].token
            /\ account'[a].retired = account[a].retired
            /\ account'[a].claim = account[a].claim
            /\ a \notin Protected => account'[a] = account[a]
  <2>1. account' = [a \in Accounts |-> account'[a]]
    BY DEF OperatorRecovery
  <2>2. \A a \in Accounts : account[a] \in AccountRow /\ account'[a] \in AccountRow
    BY ZenonT(30), <1>1, <1>4 DEF AccountRow
  <2>3. account' \in [Accounts -> AccountRow]
    BY <2>1, <2>2
  <2> QED
    BY <1>4, <2>2, <2>3 DEF AccountRow
<1>6. /\ grant' \in [Tokens -> {"none", "valid", "revoked"}]
      /\ \A t \in Tokens : grant'[t] # "valid" /\ (grant[t] # "valid" => grant'[t] = grant[t])
  BY <1>1 DEF OperatorRecovery
<1> QED
  BY <1>2, <1>3, <1>5, <1>6

\* claim_cleanup: the row, the fence and the pass agree on the attempt.
LEMMA ClaimCleanupIs ==
    ASSUME TypeOK, NEW r \in Reconcilers, ClaimCleanup(r)
    PROVE  /\ cleanup' \in [Sessions -> CleanupRow] /\ fence' \in Fences
           /\ rec' \in [Reconcilers -> Pass]
           /\ \E s \in Sessions :
                 LET n == cleanup[s].attempt + 1
                 IN /\ Due(s)
                    /\ cleanup[s].attempt \in Nat
                    /\ cleanup'[s].status = "revoking" /\ cleanup'[s].attempt = n
                    /\ \A u \in Sessions \ {s} : cleanup'[u] = cleanup[u]
                    /\ fence' = [kind |-> "cleanup", owner |-> s, claim |-> n]
                    /\ rec'[r].token = s /\ rec'[r].claim = n
                    /\ rec'[r].pc \in {"fail", Verdict(s)}
                    /\ \A q \in Reconcilers \ {r} : rec'[q] = rec[q]
<1>1. cleanup \in [Sessions -> CleanupRow] /\ rec \in [Reconcilers -> Pass]
  BY DEF TypeOK
<1>2. PICK s \in Sessions, pc \in {"verdict", "fail"} :
          LET n == cleanup[s].attempt + 1
          IN /\ Due(s)
             /\ cleanup' = [cleanup EXCEPT ![s].status = "revoking", ![s].attempt = n]
             /\ fence' = [kind |-> "cleanup", owner |-> s, claim |-> n]
             /\ rec' = [rec EXCEPT ![r] = [pc |-> IF pc = "fail" THEN pc ELSE Verdict(s),
                                           token |-> s, claim |-> n]]
  BY DEF ClaimCleanup
<1> DEFINE n == cleanup[s].attempt + 1
           next == IF pc = "fail" THEN pc ELSE Verdict(s)
<1>3. n \in 0..MaxAttempts /\ n \in Nat /\ cleanup[s].attempt \in Nat
  BY SMT, <1>1, <1>2, BoundsAreNumbers DEF Due, CleanupRow
<1>4. next \in {"fail", Verdict(s)} /\ next \in {"revoke", "discard", "fail", "defer"}
  BY DEF Verdict
<1>5. /\ cleanup' = [cleanup EXCEPT ![s].status = "revoking", ![s].attempt = n]
      /\ fence' = [kind |-> "cleanup", owner |-> s, claim |-> n]
      /\ rec' = [rec EXCEPT ![r] = [pc |-> next, token |-> s, claim |-> n]]
  BY <1>2
<1> HIDE DEF n, next
<1>6. /\ cleanup' \in [Sessions -> CleanupRow]
      /\ cleanup'[s].status = "revoking" /\ cleanup'[s].attempt = n
      /\ \A u \in Sessions \ {s} : cleanup'[u] = cleanup[u]
  BY <1>1, <1>3, <1>5 DEF CleanupRow
<1>7. fence' \in Fences
  BY <1>3, <1>5 DEF Fences, Tokens
<1>8. /\ rec' \in [Reconcilers -> Pass]
      /\ rec'[r].token = s /\ rec'[r].claim = n /\ rec'[r].pc = next
      /\ \A q \in Reconcilers \ {r} : rec'[q] = rec[q]
  BY <1>1, <1>3, <1>4, <1>5 DEF Pass, Tokens
<1> QED
  BY <1>2, <1>3, <1>4, <1>5, <1>6, <1>7, <1>8 DEF n

\* The revocation request of a pass.
LEMMA CleanupRevokeIs ==
    ASSUME TypeOK, NEW r \in Reconcilers, CleanupRevoke(r)
    PROVE  /\ rec' \in [Reconcilers -> Pass] /\ rec[r].token \in Tokens
           /\ rec'[r].token = rec[r].token /\ rec'[r].claim = rec[r].claim
           /\ \A q \in Reconcilers \ {r} : rec'[q] = rec[q]
           /\ \/ Revoke(rec[r].token) /\ rec'[r].pc \in {"complete", "fail"}
              \/ UNCHANGED grant /\ rec'[r].pc = "fail"
BY SMT DEF TypeOK, CleanupRevoke, Pass

\* A pass that ends leaves the others alone.
LEMMA RestIs ==
    ASSUME TypeOK, NEW r \in Reconcilers, Rest(r)
    PROVE  /\ rec' \in [Reconcilers -> Pass] /\ rec'[r].pc = "idle"
           /\ \A q \in Reconcilers \ {r} : rec'[q] = rec[q]
BY SMT, BoundsAreNumbers DEF TypeOK, Rest, Pass, Tokens

\* claim_disconnect: the account, the fence and the handler agree on the claim.
LEMMA ClaimDisconnectIs ==
    ASSUME TypeOK, NEW d \in Requests, NEW a \in Accounts, ClaimDisconnect(d, a)
    PROVE  LET n == account[a].claim + 1
               shared == \E b \in Protected \ {a} :
                            subject[account[b].token] = subject[account[a].token]
           IN /\ account[a].claim \in Nat
              /\ AccountMoves(a, "disconnecting", account[a].retired, n)
              /\ Drifts({a})
              /\ fence' \in Fences
              /\ fence' = [kind |-> "disconnect", owner |-> a, claim |-> n]
              /\ disc' \in [Requests -> Handler]
              /\ disc'[d].pc = (IF shared THEN "complete" ELSE "revoke")
              /\ disc'[d].account = a /\ disc'[d].claim = n
              /\ disc'[d].todo = IF shared THEN {} ELSE {account[a].token} \cup account[a].retired
              /\ \A e \in Requests \ {d} : disc'[e] = disc[e]
<1> DEFINE n == account[a].claim + 1
           shared == \E b \in Protected \ {a} :
                        subject[account[b].token] = subject[account[a].token]
           pc == IF shared THEN "complete" ELSE "revoke"
           todo == IF shared THEN {} ELSE {account[a].token} \cup account[a].retired
<1>1. /\ session \in [Sessions -> SessionRow] /\ account \in [Accounts -> AccountRow]
      /\ disc \in [Requests -> Handler]
  BY DEF TypeOK
<1>2. n \in 0..MaxClaims /\ n \in Nat /\ account[a].claim \in Nat
  BY SMT, <1>1, BoundsAreNumbers DEF ClaimDisconnect, AccountRow
<1>3. todo \in SUBSET Tokens /\ pc \in {"complete", "revoke"}
  BY <1>1 DEF AccountRow
<1>4. /\ account' = [account EXCEPT ![a].status = "disconnecting", ![a].claim = n]
      /\ fence' = [kind |-> "disconnect", owner |-> a, claim |-> n]
      /\ disc' = [disc EXCEPT ![d] = [pc |-> pc, account |-> a, claim |-> n, todo |-> todo]]
      /\ session' = Drift(session, {a})
  BY DEF ClaimDisconnect
<1> HIDE DEF n, pc, todo
<1>5. AccountMoves(a, "disconnecting", account[a].retired, n)
  BY <1>1, <1>2, <1>4 DEF AccountRow, AccountMoves
<1>6. Drifts({a})
  BY SMT, <1>1, <1>4, DriftIs DEF Drifts
<1>7. fence' \in Fences
  BY <1>2, <1>4 DEF Fences, Accounts
<1>8. /\ disc' \in [Requests -> Handler] /\ disc'[d].pc = pc /\ disc'[d].todo = todo
      /\ disc'[d].account = a /\ disc'[d].claim = n
      /\ \A e \in Requests \ {d} : disc'[e] = disc[e]
  BY <1>1, <1>2, <1>3, <1>4 DEF Handler
<1> QED
  BY <1>2, <1>4, <1>5, <1>6, <1>7, <1>8 DEF n, pc, todo

\* One revocation request of a disconnect.
LEMMA DisconnectRevokeIs ==
    ASSUME TypeOK, NEW d \in Requests, DisconnectRevoke(d)
    PROVE  /\ disc' \in [Requests -> Handler]
           /\ disc'[d].account = disc[d].account /\ disc'[d].claim = disc[d].claim
           /\ \A e \in Requests \ {d} : disc'[e] = disc[e]
           /\ \E t \in disc[d].todo :
                 /\ t \in Tokens
                 /\ \/ /\ Revoke(t)
                       /\ disc'[d].todo = disc[d].todo \ {t}
                       /\ disc'[d].pc = IF disc[d].todo = {t} THEN "complete" ELSE "revoke"
                    \/ disc'[d].pc = "fail" /\ (Revoke(t) \/ UNCHANGED grant)
<1>1. disc \in [Requests -> Handler]
  BY DEF TypeOK
<1>2. PICK t \in disc[d].todo :
          \/ /\ Revoke(t)
             /\ disc' = [disc EXCEPT ![d].todo = @ \ {t},
                                     ![d].pc = IF disc[d].todo = {t} THEN "complete" ELSE @]
          \/ Revoke(t) /\ disc' = [disc EXCEPT ![d].pc = "fail"]
          \/ disc' = [disc EXCEPT ![d].pc = "fail"] /\ UNCHANGED grant
  BY DEF DisconnectRevoke
<1>3. t \in Tokens /\ disc[d].pc = "revoke"
  BY <1>1 DEF Handler, DisconnectRevoke
<1>4. CASE /\ Revoke(t)
           /\ disc' = [disc EXCEPT ![d].todo = @ \ {t},
                                   ![d].pc = IF disc[d].todo = {t} THEN "complete" ELSE @]
  BY ZenonT(30), <1>1, <1>3, <1>4 DEF Handler
<1>5. CASE disc' = [disc EXCEPT ![d].pc = "fail"] /\ (Revoke(t) \/ UNCHANGED grant)
  BY <1>1, <1>3, <1>5 DEF Handler
<1> QED
  BY <1>2, <1>4, <1>5

\* A handler that ends leaves the others alone.
LEMMA LeaveIs ==
    ASSUME TypeOK, NEW d \in Requests, Leave(d)
    PROVE  /\ disc' \in [Requests -> Handler] /\ disc'[d].pc = "idle"
           /\ \A e \in Requests \ {d} : disc'[e] = disc[e]
BY SMT, BoundsAreNumbers DEF TypeOK, Leave, Handler, Accounts, Tokens

\* complete_disconnect and fail_disconnect by the handler that has the claim.
LEMMA EndDisconnectIs ==
    ASSUME TypeOK, NEW d \in Requests
    PROVE  LET a == disc[d].account
           IN /\ a \in Accounts
              /\ CompleteDisconnect(d) /\ DisconnectClaimed(d) =>
                    AccountMoves(a, "revoked", {}, account[a].claim) /\ Drifts({a})
              /\ FailDisconnect(d) /\ DisconnectClaimed(d) =>
                    /\ AccountMoves(a, "revocation_failed", account[a].retired, account[a].claim)
                    /\ Drifts({a})
<1> DEFINE a == disc[d].account
<1>1. /\ session \in [Sessions -> SessionRow] /\ account \in [Accounts -> AccountRow]
      /\ a \in Accounts
  BY DEF TypeOK, Handler
<1>2. ASSUME CompleteDisconnect(d), DisconnectClaimed(d)
      PROVE  AccountMoves(a, "revoked", {}, account[a].claim) /\ Drifts({a})
  <2>1. /\ account' = [account EXCEPT ![a].status = "revoked", ![a].retired = {}]
        /\ session' = Drift(session, {a})
    BY <1>2 DEF CompleteDisconnect
  <2>2. AccountMoves(a, "revoked", {}, account[a].claim)
    BY <1>1, <2>1 DEF AccountRow, AccountMoves
  <2> QED
    BY SMT, <1>1, <2>1, <2>2, DriftIs DEF Drifts
<1>3. ASSUME FailDisconnect(d), DisconnectClaimed(d)
      PROVE  /\ AccountMoves(a, "revocation_failed", account[a].retired, account[a].claim)
             /\ Drifts({a})
  <2>1. /\ account' = [account EXCEPT ![a].status = "revocation_failed"]
        /\ session' = Drift(session, {a})
    BY <1>3 DEF FailDisconnect
  <2>2. AccountMoves(a, "revocation_failed", account[a].retired, account[a].claim)
    BY <1>1, <2>1 DEF AccountRow, AccountMoves
  <2> QED
    BY SMT, <1>1, <2>1, <2>2, DriftIs DEF Drifts
<1> QED
  BY <1>1, <1>2, <1>3

(***************************************************************************)
(* The inductive invariant                                                 *)
(***************************************************************************)
\* The exchange that would make Google issue the token is still to come.
Unissued(s) == task[s].pc \in {"idle", "claimed", "exchange"}
\* A token whose exchange is over; the one that was linked before is.
Issued(t) == t \in Sessions => ~Unissued(t)
\* A session that is not finished.
Open(s) == session[s].status \in {"pending", "exchanging", "staged"}

\* The life of a session.  At most one is open, as the unique index
\* google_oauth_sessions_one_open_uq demands.  A token works, is stored or
\* is fenced for only once its exchange is over, and a row that is due belongs
\* to a session that failed.
LifeInv ==
    /\ \A s, u \in Sessions : Open(s) /\ Open(u) => s = u
    /\ \A s \in Sessions :
        /\ session[s].status \in {"none", "pending"} => task[s].pc = "idle"
        /\ Unissued(s) \/ task[s].pc = "denied" => grant[s] = "none"
        /\ Unissued(s) => cleanup[s].status = "none"
        /\ task[s].pc = "exchange" => session[s].status = "exchanging"
        /\ session[s].status = "staged" => Issued(s)
        /\ cleanup[s].status \in {"pending", "revoking", "operator"}
              => session[s].status = "failed"
    /\ fence.kind \in {"guardian", "cleanup", "recovery"} =>
          fence.owner \in Sessions /\ task[fence.owner].pc # "exchange"

\* The claim of a pass is not ahead of the row, and no two passes have the
\* same claim on a token.
PassInv ==
    /\ \A r \in Reconcilers : rec[r].pc # "idle" =>
          /\ rec[r].token \in Sessions
          /\ session[rec[r].token].status = "failed"
          /\ \/ cleanup[rec[r].token].status = "none"
             \/ rec[r].claim <= cleanup[rec[r].token].attempt
    /\ \A r, q \in Reconcilers :
          rec[r].pc # "idle" /\ rec[q].pc # "idle" /\ rec[r].token = rec[q].token
             /\ rec[r].claim = rec[q].claim => r = q

\* The claim of a handler is not ahead of the account, no two handlers have
\* the same claim, and an account with a request out is disconnecting.
HandlerInv ==
    /\ \A d \in Requests :
          /\ disc[d].pc # "idle" => disc[d].claim <= account[disc[d].account].claim
          /\ disc[d].pc = "revoke" => account[disc[d].account].status = "disconnecting"
    /\ \A d, e \in Requests :
          disc[d].pc # "idle" /\ disc[e].pc # "idle" /\ disc[d].account = disc[e].account
             /\ disc[d].claim = disc[e].claim => d = e

\* The row of a token whose revocation is under way says so.
RowInv == \A r \in Reconcilers : rec[r].pc = "revoke" => cleanup[rec[r].token].status = "revoking"

\* The inductive invariant of the fence.
FenceInv == TypeOK /\ LifeInv /\ PassInv /\ RowInv /\ HandlerInv /\ OneRevocationAtATime

(***************************************************************************)
(* The invariant is kept                                                   *)
(***************************************************************************)
\* Every action keeps the types.
LEMMA TypeStep == ASSUME FenceInv, [Next]_vars PROVE TypeOK'
<1> USE DEF Pcs, store, google
<1>t. TypeOK
  BY DEF FenceInv
<1>ty. /\ session \in [Sessions -> SessionRow] /\ cleanup \in [Sessions -> CleanupRow]
       /\ task \in [Sessions -> Callback]
       /\ grant \in [Tokens -> {"none", "valid", "revoked"}]
  BY <1>t DEF TypeOK
<1>1. CASE UNCHANGED vars
  BY <1>1, <1>t DEF vars, TypeOK
<1>2. ASSUME NEW s \in Sessions, NEW a \in Accounts, CreateSession(s, a) PROVE TypeOK'
  BY <1>2, <1>t, CreateSessionIs DEF CreateSession, TypeOK
<1>3. ASSUME NEW s \in Sessions, ExpirePending(s) PROVE TypeOK'
  BY <1>3, <1>t, FailIs DEF ExpirePending, TypeOK
<1>4. ASSUME NEW s \in Sessions, ClaimCallback(s) PROVE TypeOK'
  BY <1>4, <1>t, ClaimCallbackIs DEF ClaimCallback, TypeOK
<1>5. ASSUME NEW s \in Sessions, Preflight(s) \/ Vanish(s) PROVE TypeOK'
  BY <1>5, <1>t, GotoIs DEF Preflight, Vanish, TypeOK
<1>6. ASSUME NEW s \in Sessions, FailAuthorization(s) PROVE TypeOK'
  BY <1>6, <1>t, GotoIs, FailIs DEF FailAuthorization, TypeOK
<1>7. ASSUME NEW s \in Sessions, Exchange(s) PROVE TypeOK'
  <2>1. task' \in [Sessions -> Callback]
    BY SMT, <1>7, <1>ty, GotoIs DEF Exchange
  <2> QED
    BY <1>7, <1>t, <2>1 DEF Exchange, TypeOK
<1>8. ASSUME NEW s \in Sessions, Hold(s) PROVE TypeOK'
  BY <1>8, <1>t, GotoIs, HoldRowIs DEF Hold, TypeOK
<1>9. ASSUME NEW s \in Sessions, Identify(s) PROVE TypeOK'
  <2>1. task' \in [Sessions -> Callback]
    BY <1>9, <1>ty, GotoIs DEF Identify
  <2>2. cleanup' \in [Sessions -> CleanupRow]
    BY ZenonT(30), <1>9, <1>ty DEF Identify, CleanupRow
  <2> QED
    BY <1>9, <1>t, <2>1, <2>2 DEF Identify, TypeOK
<1>10. ASSUME NEW s \in Sessions, Stage(s) PROVE TypeOK'
  BY <1>10, <1>t, StageIs DEF Stage, TypeOK
<1>11. ASSUME NEW s \in Sessions, Complete(s) PROVE TypeOK'
  BY <1>11, <1>t, GotoIs, CompleteStagedIs DEF Complete, TypeOK
<1>12. ASSUME NEW s \in Sessions, Abandon(s) PROVE TypeOK'
  BY <1>12, <1>t, GotoIs, FailIs, PromoteIs DEF Abandon, TypeOK
<1>13. ASSUME NEW s \in Sessions, GuardianHold(s) PROVE TypeOK'
  BY <1>13, <1>t, GotoIs, HoldRowIs DEF GuardianHold, TypeOK
<1>14. ASSUME NEW s \in Sessions, GuardianRelease(s) PROVE TypeOK'
  <2>1. task' \in [Sessions -> Callback]
    BY <1>14, <1>ty, GotoIs DEF GuardianRelease
  <2> QED
    BY <1>14, <1>t, <2>1, RowsTyped DEF GuardianRelease, TypeOK
<1>15. ASSUME NEW s \in Sessions, GuardianClaim(s) PROVE TypeOK'
  <2>1. task' \in [Sessions -> Callback]
    BY ZenonT(30), <1>15, <1>ty DEF GuardianClaim, Callback
  <2> QED
    BY <1>15, <1>t, <2>1, RowsTyped DEF GuardianClaim, TypeOK
<1>16. ASSUME NEW s \in Sessions, GuardianRevoke(s) PROVE TypeOK'
  BY <1>16, <1>t, GotoIs, RevokeIs DEF GuardianRevoke, TypeOK, Tokens
<1>17. ASSUME NEW s \in Sessions, GuardianComplete(s) PROVE TypeOK'
  <2>1. task' \in [Sessions -> Callback]
    BY <1>17, <1>ty, GotoIs DEF GuardianComplete
  <2>2. session' \in [Sessions -> SessionRow] /\ cleanup' \in [Sessions -> CleanupRow]
    BY SMT, <1>17, <1>ty, FailedSessionIs, RowsTyped DEF GuardianComplete
  <2> QED
    BY <1>17, <1>t, <2>1, <2>2, RowsTyped DEF GuardianComplete, TypeOK
<1>18. CASE BeginPass
  BY <1>18, <1>t DEF BeginPass, TypeOK
<1>19. CASE ReconcileStaged
  BY <1>19, <1>t, CompleteStagedIs DEF ReconcileStaged, TypeOK
<1>20. CASE RecoverStartup
  BY <1>20, <1>t, RecoverStartupIs DEF RecoverStartup, TypeOK
<1>21. CASE OperatorRecovery
  BY <1>21, <1>t, OperatorRecoveryIs, RowsTyped DEF OperatorRecovery, TypeOK
<1>22. ASSUME NEW r \in Reconcilers, ClaimCleanup(r) PROVE TypeOK'
  BY <1>22, <1>t, ClaimCleanupIs DEF ClaimCleanup, TypeOK
<1>23. ASSUME NEW r \in Reconcilers, CleanupRevoke(r) PROVE TypeOK'
  BY <1>23, <1>t, CleanupRevokeIs, RevokeIs DEF CleanupRevoke, TypeOK
<1>24. ASSUME NEW r \in Reconcilers, CompleteCleanup(r) PROVE TypeOK'
  <2>1. rec[r].token \in Sessions
    BY <1>24 DEF CompleteCleanup, FenceInv, PassInv
  <2> QED
    BY ZenonT(30), <1>24, <1>t, <2>1, RestIs, RowsTyped DEF CompleteCleanup, TypeOK
<1>25. ASSUME NEW r \in Reconcilers, FailCleanup(r) PROVE TypeOK'
  <2>1. cleanup' \in [Sessions -> CleanupRow]
    BY ZenonT(30), <1>25, <1>ty DEF FailCleanup, CleanupRow
  <2> QED
    BY <1>25, <1>t, <2>1, RestIs DEF FailCleanup, TypeOK
<1>26. ASSUME NEW r \in Reconcilers, DeferCleanup(r) PROVE TypeOK'
  <2>1. cleanup' \in [Sessions -> CleanupRow]
    BY SMT, <1>26, <1>ty DEF DeferCleanup, CleanupRow
  <2>2. [fence EXCEPT !.kind = "recovery"] \in Fences /\ fence \in Fences
    BY <1>t DEF TypeOK, Fences
  <2> QED
    BY <1>26, <1>t, <2>1, <2>2, RestIs DEF DeferCleanup, TypeOK
<1>27. ASSUME NEW r \in Reconcilers, ReconcilerVanishes(r) PROVE TypeOK'
  BY <1>27, <1>t, RestIs DEF ReconcilerVanishes, TypeOK
<1>28. ASSUME NEW d \in Requests, NEW a \in Accounts, ClaimDisconnect(d, a) PROVE TypeOK'
  BY <1>28, <1>t, ClaimDisconnectIs DEF ClaimDisconnect, TypeOK, AccountMoves, Drifts
<1>29. ASSUME NEW d \in Requests, DisconnectRevoke(d) PROVE TypeOK'
  <2>1. grant' \in [Tokens -> {"none", "valid", "revoked"}]
    BY <1>29, <1>t, <1>ty, DisconnectRevokeIs, RevokeIs
  <2> QED
    BY <1>29, <1>t, <2>1, DisconnectRevokeIs DEF DisconnectRevoke, TypeOK
<1>30. ASSUME NEW d \in Requests, CompleteDisconnect(d) \/ FailDisconnect(d) PROVE TypeOK'
  <2>1. CASE DisconnectClaimed(d)
    <3>1. session' \in [Sessions -> SessionRow] /\ account' \in [Accounts -> AccountRow]
      BY <1>30, <1>t, <2>1, EndDisconnectIs DEF AccountMoves, Drifts
    <3>2. disc' \in [Requests -> Handler] /\ fence' \in {fence, NoFence}
      BY <1>30, <1>t, <2>1, LeaveIs DEF CompleteDisconnect, FailDisconnect
    <3>3. UNCHANGED <<cleanup, resolved, task, rec, ready, google, discarded>>
      BY <1>30 DEF CompleteDisconnect, FailDisconnect
    <3>4. fence' \in Fences
      BY <1>t, <3>2, RowsTyped DEF TypeOK
    <3> QED
      BY <1>t, <3>1, <3>2, <3>3, <3>4 DEF TypeOK
  <2>2. CASE ~DisconnectClaimed(d)
    BY <1>30, <1>t, <2>2, LeaveIs DEF CompleteDisconnect, FailDisconnect, TypeOK
  <2> QED
    BY <2>1, <2>2
<1>31. ASSUME NEW d \in Requests, DisconnectVanishes(d) PROVE TypeOK'
  BY <1>31, <1>t, LeaveIs DEF DisconnectVanishes, TypeOK
<1> QED
  BY <1>1, <1>2, <1>3, <1>4, <1>5, <1>6, <1>7, <1>8, <1>9, <1>10, <1>11, <1>12, <1>13, <1>14,
     <1>15, <1>16, <1>17, <1>18, <1>19, <1>20, <1>21, <1>22, <1>23, <1>24, <1>25, <1>26, <1>27,
     <1>28, <1>29, <1>30, <1>31 DEF Next, TaskStep

\* Every action keeps the life of the sessions.
LEMMA LifeStep == ASSUME FenceInv, [Next]_vars PROVE LifeInv'
<1> USE DEF Pcs, store, google, LifeInv, Open, Unissued, Issued
<1>t. TypeOK /\ LifeInv
  BY DEF FenceInv
<1>ty. /\ session \in [Sessions -> SessionRow] /\ cleanup \in [Sessions -> CleanupRow]
       /\ task \in [Sessions -> Callback]
       /\ grant \in [Tokens -> {"none", "valid", "revoked"}]
  BY <1>t DEF TypeOK
<1>T. TypeOK
  BY DEF FenceInv
<1>tok. Sessions \subseteq Tokens
  BY DEF Tokens
<1>c. ASSUME NEW s \in Sessions, CompleteStaged(s)
      PROVE  /\ session[s].status = "staged"
             /\ session'[s].status = "consumed"
             /\ \A u \in Sessions \ {s} : session'[u].status = session[u].status
             /\ cleanup'[s].status = "none"
             /\ \A u \in Sessions \ {s} : cleanup'[u] = cleanup[u]
  <2>1. session[s].status = "staged"
    BY <1>c DEF CompleteStaged
  <2> QED
    BY SMT, <1>c, <1>t, <2>1, CompleteStagedIs DEF NoRow
<1>1. CASE UNCHANGED vars
  BY <1>1, <1>t DEF vars
<1>2. ASSUME NEW s \in Sessions, NEW a \in Accounts, CreateSession(s, a) PROVE LifeInv'
  <2>1. /\ session'[s].status = "pending"
        /\ \A u \in Sessions \ {s} :
              session'[u].status = IF session[u].status = "pending" THEN "failed"
                                                                   ELSE session[u].status
    BY <1>2, <1>T, CreateSessionIs
  <2>2. /\ session[s].status = "none"
        /\ \A u \in Sessions : session[u].status \notin {"exchanging", "staged"}
        /\ UNCHANGED <<cleanup, fence, task, grant>>
    BY <1>2 DEF CreateSession, NoOpenExchange
  <2> QED
    BY SMT, <1>t, <2>1, <2>2
<1>3. ASSUME NEW s \in Sessions, ExpirePending(s) PROVE LifeInv'
  BY SMTT(30), <1>3, <1>t, <1>ty, FailIs DEF ExpirePending
<1>4. ASSUME NEW s \in Sessions, ClaimCallback(s) PROVE LifeInv'
  <2>1. /\ \A u \in Sessions \ {s} : session'[u] = session[u] /\ task'[u] = task[u]
        /\ \/ session'[s].status = "exchanging" /\ task'[s].pc = "claimed"
           \/ session'[s].status = "failed" /\ task' = task
    BY SMT, <1>4, <1>t, ClaimCallbackIs DEF Moves
  <2>2. /\ session[s].status = "pending" /\ fence.kind = "none"
        /\ UNCHANGED <<cleanup, fence, grant>>
    BY <1>4 DEF ClaimCallback, Unfenced
  <2> QED
    BY SMT, <1>t, <2>1, <2>2
<1>5. ASSUME NEW s \in Sessions, Preflight(s) \/ Vanish(s) PROVE LifeInv'
  <2>1. CASE Preflight(s)
    BY SMT, <2>1, <1>t, <1>ty, GotoIs DEF Preflight, Moves, Unfenced
  <2>2. CASE Vanish(s)
    BY SMT, <2>2, <1>t, <1>ty, GotoIs DEF Vanish, Moves
  <2> QED
    BY <1>5, <2>1, <2>2
<1>6. ASSUME NEW s \in Sessions, FailAuthorization(s) PROVE LifeInv'
  BY SMT, <1>6, <1>t, <1>ty, GotoIs, FailIs DEF FailAuthorization, Moves
<1>7. ASSUME NEW s \in Sessions, Exchange(s) PROVE LifeInv'
  <2>1. PICK pc \in {"hold", "identity", "denied", "done"} :
           Moves(s, pc) /\ (pc = "denied" => grant'[s] = "none")
    BY <1>7, <1>ty, <1>tok, GotoIs DEF Exchange
  <2>2. \A u \in Sessions \ {s} : grant'[u] = grant[u]
    BY <1>7, <1>ty, <1>tok DEF Exchange
  <2> QED
    BY SMT, <1>7, <1>t, <2>1, <2>2 DEF Exchange, Moves
<1>8. ASSUME NEW s \in Sessions, Hold(s) PROVE LifeInv'
  BY SMT, <1>8, <1>t, <1>ty, GotoIs, HoldRowIs DEF Hold, HoldRow, Moves
<1>9. ASSUME NEW s \in Sessions, Identify(s) PROVE LifeInv'
  <2>1. Moves(s, "stage") \/ Moves(s, "abandon")
    BY <1>9, <1>ty, GotoIs DEF Identify
  <2>2. \A u \in Sessions : cleanup'[u].status = cleanup[u].status
    BY <1>9, <1>ty DEF Identify, CleanupRow
  <2> QED
    BY SMT, <1>9, <1>t, <2>1, <2>2 DEF Identify, Moves
<1>10. ASSUME NEW s \in Sessions, Stage(s) PROVE LifeInv'
  <2>1. /\ \A u \in Sessions \ {s} : session'[u] = session[u] /\ task'[u] = task[u]
        /\ \/ /\ session[s].status = "exchanging" /\ session'[s].status = "staged"
              /\ task'[s].pc = "complete"
           \/ session' = session /\ task'[s].pc = "abandon"
    <3>1. StageFits(s) => session[s].status = "exchanging"
      BY DEF StageFits
    <3> QED
      BY ZenonT(30), <1>10, <1>t, <3>1, StageIs DEF Moves
  <2>2. UNCHANGED <<cleanup, fence, grant>> /\ task[s].pc = "stage"
    BY <1>10 DEF Stage
  <2> QED
    BY SMT, <1>t, <2>1, <2>2
<1>11. ASSUME NEW s \in Sessions, Complete(s) PROVE LifeInv'
  <2>1. Moves(s, "done") /\ task[s].pc = "complete" /\ UNCHANGED <<fence, grant>>
    BY <1>11, <1>ty, GotoIs DEF Complete
  <2>2. CASE CompleteStaged(s)
    BY SMT, <1>t, <1>c, <2>1, <2>2 DEF Moves
  <2>3. CASE UNCHANGED <<session, cleanup>>
    BY SMT, <1>t, <2>1, <2>3 DEF Moves
  <2> QED
    BY <1>11, <2>2, <2>3 DEF Complete
<1>12. ASSUME NEW s \in Sessions, Abandon(s) PROVE LifeInv'
  <2>1. task[s].pc = "abandon" /\ Moves(s, "done") /\ UNCHANGED <<fence, grant>>
    BY <1>12, <1>ty, GotoIs DEF Abandon
  <2>2. \A u \in Sessions : session'[u].status =
           IF u = s /\ session[u].status \in {"exchanging", "staged"}
           THEN "failed" ELSE session[u].status
    BY SMT, <1>12, <1>ty, FailIs DEF Abandon
  <2>3. \A u \in Sessions : cleanup'[u].status =
           IF /\ u = s /\ cleanup[u].status = "held"
              /\ session[u].status \in {"exchanging", "staged", "failed"}
           THEN "pending" ELSE cleanup[u].status
    BY SMT, <1>12, <1>ty, PromoteIs DEF Abandon
  <2> QED
    BY SMT, <1>t, <2>1, <2>2, <2>3 DEF Moves
<1>13. ASSUME NEW s \in Sessions, GuardianHold(s) PROVE LifeInv'
  BY SMT, <1>13, <1>t, <1>ty, GotoIs, HoldRowIs DEF GuardianHold, HoldRow, Moves
<1>14. ASSUME NEW s \in Sessions, GuardianRelease(s) PROVE LifeInv'
  BY SMT, <1>14, <1>t, <1>ty, GotoIs DEF GuardianRelease, NoFence, Moves
<1>15. ASSUME NEW s \in Sessions, GuardianClaim(s) PROVE LifeInv'
  <2>1. Moves(s, "gRevoke") \/ Moves(s, "guardian")
    BY <1>15, <1>ty DEF GuardianClaim, Callback, Moves
  <2> QED
    <3>1. fence'.owner = s /\ task[s].pc = "guardian" /\ UNCHANGED <<session, cleanup, grant>>
      BY <1>15 DEF GuardianClaim, GuardianFence
    <3> QED
      BY <1>t, <2>1, <3>1, SMTT(30) DEF Moves
<1>16. ASSUME NEW s \in Sessions, GuardianRevoke(s) PROVE LifeInv'
  <2>1. \A u \in Sessions : grant[u] = "none" => grant'[u] = "none"
    BY <1>16, <1>ty, <1>tok, RevokeIs DEF GuardianRevoke
  <2>2. Moves(s, "gComplete") \/ Moves(s, "guardian")
    BY <1>16, <1>ty, GotoIs DEF GuardianRevoke
  <2> QED
    BY SMT, <1>16, <1>t, <2>1, <2>2 DEF GuardianRevoke, Moves
<1>17. ASSUME NEW s \in Sessions, GuardianComplete(s) PROVE LifeInv'
  <2>1. Moves(s, "abandon") \/ Moves(s, "gComplete")
    BY <1>17, <1>ty, GotoIs DEF GuardianComplete
  <2> QED
    <3>1. CASE UNCHANGED <<session, cleanup, fence>>
      BY SMT, <1>17, <1>t, <2>1, <3>1 DEF GuardianComplete, Moves
    <3>2. CASE /\ cleanup' = [cleanup EXCEPT ![s] = NoRow]
               /\ session' = FailedSession(session, s)
               /\ fence' = NoFence
      <4>1. /\ cleanup'[s].status = "none"
            /\ \A u \in Sessions \ {s} : cleanup'[u] = cleanup[u]
        BY <1>ty, <3>2 DEF NoRow
      <4>2. \A u \in Sessions :
               session'[u].status = IF u = s /\ session[u].status \in {"pending", "exchanging"}
                                    THEN "failed" ELSE session[u].status
        BY <1>ty, <3>2, FailedSessionIs
      <4>3. fence'.kind = "none" /\ grant' = grant /\ task[s].pc = "gComplete"
        BY <1>17, <3>2 DEF GuardianComplete, NoFence
      <4> QED
        BY SMT, <1>t, <2>1, <4>1, <4>2, <4>3 DEF Moves
    <3> QED
      BY <1>17, <3>1, <3>2 DEF GuardianComplete
<1>18. CASE BeginPass
  BY <1>18, <1>t DEF BeginPass
<1>19. CASE ReconcileStaged
  BY SMT, <1>19, <1>t, <1>c DEF ReconcileStaged
<1>20. CASE RecoverStartup
  <2>1. UNCHANGED <<task, grant>>
    BY <1>20 DEF RecoverStartup
  <2> QED
    BY <1>20, <1>t, <2>1, RecoverStartupIs, SMTT(30) DEF GuardianStale
<1>21. CASE OperatorRecovery
  <2>1. UNCHANGED task /\ fence'.kind = "none" /\ fence.kind = "recovery"
    BY <1>21 DEF OperatorRecovery, NoFence
  <2> QED
    BY <1>21, <1>t, <1>ty, <1>tok, <2>1, OperatorRecoveryIs, SMTT(30) DEF NoRow
<1>22. ASSUME NEW r \in Reconcilers, ClaimCleanup(r) PROVE LifeInv'
  <2>1. PICK s \in Sessions :
          /\ cleanup[s].status \in {"pending", "revoking"} /\ cleanup'[s].status = "revoking"
          /\ \A u \in Sessions \ {s} : cleanup'[u] = cleanup[u]
          /\ fence'.owner = s
    <3>1. \A u \in Sessions : Due(u) => cleanup[u].status \in {"pending", "revoking"}
      BY DEF Due
    <3> QED
      BY <1>22, <1>t, <3>1, ClaimCleanupIs, SMTT(30)
  <2>2. UNCHANGED <<session, task, grant>>
    BY <1>22 DEF ClaimCleanup
  <2> QED
    BY <1>t, <2>1, <2>2, SMTT(30)
<1>23. ASSUME NEW r \in Reconcilers, CleanupRevoke(r) PROVE LifeInv'
  <2>1. \A u \in Sessions : grant[u] = "none" => grant'[u] = "none"
    BY SMTT(30), <1>23, <1>t, <1>ty, <1>tok, CleanupRevokeIs, RevokeIs
  <2> QED
    BY <1>23, <1>t, <2>1 DEF CleanupRevoke
<1>24. ASSUME NEW r \in Reconcilers, CompleteCleanup(r) PROVE LifeInv'
  <2>1. /\ \A u \in Sessions : cleanup'[u].status \in {cleanup[u].status, "none"}
        /\ fence' = fence \/ fence'.kind = "none"
    <3>1. \/ cleanup' = cleanup /\ fence' = fence
          \/ cleanup' = [cleanup EXCEPT ![rec[r].token] = NoRow] /\ fence' = NoFence
      BY <1>24 DEF CompleteCleanup
    <3> QED
      BY SMT, <1>ty, <3>1 DEF NoRow, NoFence
  <2> QED
    BY SMT, <1>24, <1>t, <2>1 DEF CompleteCleanup
<1>25. ASSUME NEW r \in Reconcilers, FailCleanup(r) PROVE LifeInv'
  <2>1. \A u \in Sessions : \/ cleanup'[u].status = cleanup[u].status
                            \/ cleanup[u].status = "revoking" /\ cleanup'[u].status = "pending"
    BY <1>25, <1>ty DEF FailCleanup, RowClaimed, CleanupRow
  <2> QED
    BY SMT, <1>25, <1>t, <2>1 DEF FailCleanup
<1>26. ASSUME NEW r \in Reconcilers, DeferCleanup(r) PROVE LifeInv'
  <2>1. \A u \in Sessions : \/ cleanup'[u].status = cleanup[u].status
                            \/ cleanup[u].status = "revoking" /\ cleanup'[u].status = "operator"
    BY SMT, <1>26, <1>ty DEF DeferCleanup, RowClaimed, CleanupRow
  <2>2. \/ fence' = fence
        \/ fence.kind = "cleanup" /\ fence'.owner = fence.owner
    BY SMT, <1>26, <1>t DEF DeferCleanup, RowClaimed, FenceIs, TypeOK, Fences
  <2> QED
    BY SMT, <1>26, <1>t, <2>1, <2>2 DEF DeferCleanup
<1>27. ASSUME NEW r \in Reconcilers, ReconcilerVanishes(r) PROVE LifeInv'
  BY <1>27, <1>t DEF ReconcilerVanishes
<1>28. ASSUME NEW d \in Requests, NEW a \in Accounts, ClaimDisconnect(d, a) PROVE LifeInv'
  <2>1. fence'.kind = "disconnect" /\ \A u \in Sessions : session'[u].status = session[u].status
    <3>1. /\ Drifts({a})
          /\ fence' = [kind |-> "disconnect", owner |-> a, claim |-> account[a].claim + 1]
      BY <1>28, <1>T, ClaimDisconnectIs
    <3> QED
      BY <3>1 DEF Drifts
  <2>2. UNCHANGED <<cleanup, task, grant>>
    BY <1>28 DEF ClaimDisconnect
  <2> QED
    BY SMT, <1>t, <2>1, <2>2
<1>29. ASSUME NEW d \in Requests, DisconnectRevoke(d) PROVE LifeInv'
  <2>1. \A u \in Sessions : grant[u] = "none" => grant'[u] = "none"
    BY <1>29, <1>t, <1>ty, <1>tok, DisconnectRevokeIs, RevokeIs
  <2> QED
    BY <1>29, <1>t, <2>1 DEF DisconnectRevoke
<1>30. ASSUME NEW d \in Requests, CompleteDisconnect(d) \/ FailDisconnect(d) PROVE LifeInv'
  <2>1. CASE DisconnectClaimed(d)
    <3>1. \A u \in Sessions : session'[u].status = session[u].status
      BY <1>30, <1>T, <2>1, EndDisconnectIs DEF Drifts
    <3>2. fence' \in {fence, NoFence} /\ UNCHANGED <<cleanup, task, grant>>
      BY <1>30, <2>1 DEF CompleteDisconnect, FailDisconnect
    <3> QED
      BY SMT, <1>t, <3>1, <3>2 DEF NoFence
  <2>2. CASE ~DisconnectClaimed(d)
    BY SMT, <1>30, <1>t, <2>2 DEF CompleteDisconnect, FailDisconnect
  <2> QED
    BY <2>1, <2>2
<1>31. ASSUME NEW d \in Requests, DisconnectVanishes(d) PROVE LifeInv'
  BY <1>31, <1>t DEF DisconnectVanishes
<1> HIDE DEF LifeInv
<1> QED
  BY <1>1, <1>2, <1>3, <1>4, <1>5, <1>6, <1>7, <1>8, <1>9, <1>10, <1>11, <1>12, <1>13, <1>14,
     <1>15, <1>16, <1>17, <1>18, <1>19, <1>20, <1>21, <1>22, <1>23, <1>24, <1>25, <1>26, <1>27,
     <1>28, <1>29, <1>30, <1>31 DEF Next, TaskStep

\* A failed session stays failed, and its row is not made again.
FailuresLast ==
    \A u \in Sessions : session[u].status = "failed" =>
        /\ session'[u].status = "failed"
        /\ \/ cleanup'[u].status = "none"
           \/ cleanup[u].status # "none" /\ cleanup'[u].attempt = cleanup[u].attempt

\* No action but claim_cleanup touches the row of a failed session, unless it
\* drops it: what a pass knows of its row stays true.
LEMMA FailureStep ==
    ASSUME FenceInv, [Next]_vars, \A r \in Reconcilers : ~ClaimCleanup(r)
    PROVE  FailuresLast
<1> USE DEF Pcs, store, google, FailuresLast
<1>t. TypeOK
  BY DEF FenceInv
<1>L. LifeInv
  BY DEF FenceInv
<1>ty. /\ session \in [Sessions -> SessionRow] /\ cleanup \in [Sessions -> CleanupRow]
       /\ task \in [Sessions -> Callback]
  BY <1>t DEF TypeOK
<1>1. CASE UNCHANGED <<session, cleanup>>
  BY <1>1
<1>2. ASSUME NEW s \in Sessions, NEW a \in Accounts, CreateSession(s, a) PROVE FailuresLast
  <2>1. session[s].status = "none" /\ UNCHANGED cleanup
    BY <1>2 DEF CreateSession
  <2>2. \A u \in Sessions \ {s} :
              session'[u].status = IF session[u].status = "pending" THEN "failed"
                                                                   ELSE session[u].status
    BY <1>2, <1>t, CreateSessionIs
  <2> QED
    BY <2>1, <2>2
<1>3. ASSUME NEW s \in Sessions, ExpirePending(s) \/ FailAuthorization(s) PROVE FailuresLast
  BY SMT, <1>3, <1>ty, FailIs DEF ExpirePending, FailAuthorization
<1>4. ASSUME NEW s \in Sessions, ClaimCallback(s) PROVE FailuresLast
  <2>1. session[s].status = "pending" /\ UNCHANGED cleanup
    BY <1>4 DEF ClaimCallback
  <2> QED
    BY SMT, <1>4, <1>t, <2>1, ClaimCallbackIs
<1>5. ASSUME NEW s \in Sessions, Hold(s) \/ GuardianHold(s) PROVE FailuresLast
  <2>1. session' = session /\ (HoldRow(s) \/ cleanup' = cleanup)
    BY <1>5 DEF Hold, GuardianHold
  <2>2. HoldRow(s) => session[s].status = "exchanging"
    BY DEF HoldRow
  <2> QED
    BY <1>ty, <2>1, <2>2, HoldRowIs
<1>6. ASSUME NEW s \in Sessions, Identify(s) PROVE FailuresLast
  <2>1. session' = session /\ cleanup' \in {cleanup, [cleanup EXCEPT ![s].known = TRUE]}
    BY <1>6 DEF Identify
  <2> QED
    BY SMT, <1>ty, <2>1 DEF CleanupRow
<1>7. ASSUME NEW s \in Sessions, Stage(s) PROVE FailuresLast
  <2>1. StageFits(s) => session[s].status = "exchanging"
    BY DEF StageFits
  <2>2. cleanup' = cleanup
    BY <1>7 DEF Stage
  <2> QED
    BY <1>7, <1>t, <2>1, <2>2, StageIs
<1>8. ASSUME NEW s \in Sessions, CompleteStaged(s) PROVE FailuresLast
  <2>1. session[s].status = "staged"
    BY <1>8 DEF CompleteStaged
  <2> QED
    BY <1>8, <1>t, <2>1, CompleteStagedIs, SMTT(30)
<1>9. ASSUME NEW s \in Sessions, Abandon(s) PROVE FailuresLast
  BY SMT, <1>9, <1>ty, FailIs, PromoteIs DEF Abandon
<1>10. ASSUME NEW s \in Sessions, GuardianComplete(s) PROVE FailuresLast
  <2>1. \/ UNCHANGED <<session, cleanup>>
        \/ session' = FailedSession(session, s) /\ cleanup' = [cleanup EXCEPT ![s] = NoRow]
    BY <1>10 DEF GuardianComplete
  <2> QED
    BY SMT, <1>ty, <2>1, FailedSessionIs DEF NoRow
<1>11. CASE RecoverStartup
  BY <1>11, <1>t, RecoverStartupIs
<1>12. CASE OperatorRecovery
  BY SMT, <1>12, <1>t, OperatorRecoveryIs DEF NoRow
<1>13. ASSUME NEW r \in Reconcilers, CompleteCleanup(r) PROVE FailuresLast
  <2>1. session' = session /\ cleanup' \in {cleanup, [cleanup EXCEPT ![rec[r].token] = NoRow]}
    BY <1>13 DEF CompleteCleanup
  <2> QED
    BY SMT, <1>ty, <2>1 DEF NoRow
<1>14. ASSUME NEW r \in Reconcilers, FailCleanup(r) \/ DeferCleanup(r) PROVE FailuresLast
  <2>1. /\ session' = session
        /\ \/ cleanup' = cleanup
           \/ \E status \in {"pending", "operator"} :
                 /\ cleanup' = [cleanup EXCEPT ![rec[r].token].status = status]
                 /\ cleanup[rec[r].token].status = "revoking"
    BY <1>14 DEF FailCleanup, DeferCleanup, RowClaimed
  <2> QED
    BY SMT, <1>ty, <2>1 DEF CleanupRow
<1>15. ASSUME NEW d \in Requests, NEW a \in Accounts, ClaimDisconnect(d, a) PROVE FailuresLast
  <2>1. cleanup' = cleanup
    BY <1>15 DEF ClaimDisconnect
  <2>2. Drifts({a})
    BY <1>15, <1>t, ClaimDisconnectIs
  <2> QED
    BY <2>1, <2>2 DEF Drifts
<1>16. ASSUME NEW d \in Requests, CompleteDisconnect(d) \/ FailDisconnect(d) PROVE FailuresLast
  <2>1. cleanup' = cleanup /\ (session' = session \/ session' = Drift(session, {disc[d].account}))
    BY <1>16 DEF CompleteDisconnect, FailDisconnect
  <2> QED
    BY SMT, <1>ty, <2>1, DriftIs
<1> QED
  <2>1. \A s \in Sessions : Complete(s) => CompleteStaged(s) \/ UNCHANGED <<session, cleanup>>
    BY DEF Complete
  <2>2. ReconcileStaged => \E s \in Sessions : CompleteStaged(s)
    BY DEF ReconcileStaged
  <2>3. \A s \in Sessions :
          Preflight(s) \/ Vanish(s) \/ Exchange(s) \/ GuardianRelease(s) \/ GuardianClaim(s)
            \/ GuardianRevoke(s) => UNCHANGED <<session, cleanup>>
    BY DEF Preflight, Vanish, Exchange, GuardianRelease, GuardianClaim, GuardianRevoke
  <2>4. BeginPass \/ UNCHANGED vars => UNCHANGED <<session, cleanup>>
    BY DEF BeginPass, vars
  <2>5. \A r \in Reconcilers :
          CleanupRevoke(r) \/ ReconcilerVanishes(r) => UNCHANGED <<session, cleanup>>
    BY DEF CleanupRevoke, ReconcilerVanishes
  <2>6. \A d \in Requests :
          DisconnectRevoke(d) \/ DisconnectVanishes(d) => UNCHANGED <<session, cleanup>>
    BY DEF DisconnectRevoke, DisconnectVanishes
  <2> HIDE DEF FailuresLast
  <2> QED
    BY <1>1, <1>2, <1>3, <1>4, <1>5, <1>6, <1>7, <1>8, <1>9, <1>10, <1>11, <1>12, <1>13, <1>14,
       <1>15, <1>16, <2>1, <2>2, <2>3, <2>4, <2>5, <2>6 DEF Next, TaskStep

\* Only the steps of reconcile_cleanup move a pass.
LEMMA PassFrame ==
    ASSUME [Next]_vars
    PROVE  \/ UNCHANGED rec
           \/ \E r \in Reconcilers :
                 \/ ClaimCleanup(r) \/ CleanupRevoke(r) \/ CompleteCleanup(r)
                 \/ FailCleanup(r) \/ DeferCleanup(r) \/ ReconcilerVanishes(r)
<1>1. \A s \in Sessions :
         (\E a \in Accounts : CreateSession(s, a)) \/ ExpirePending(s) \/ ClaimCallback(s)
            \/ TaskStep(s) \/ Vanish(s) => UNCHANGED rec
  BY ZenonT(30) DEF CreateSession, ExpirePending, ClaimCallback, TaskStep, Vanish, Preflight,
     FailAuthorization, Exchange, Hold, Identify, Stage, Complete, Abandon, GuardianHold,
     GuardianRelease, GuardianClaim, GuardianRevoke, GuardianComplete
<1>2. BeginPass \/ ReconcileStaged \/ RecoverStartup \/ OperatorRecovery \/ UNCHANGED vars
         => UNCHANGED rec
  BY DEF BeginPass, ReconcileStaged, RecoverStartup, OperatorRecovery, vars
<1>3. \A d \in Requests :
         (\E a \in Accounts : ClaimDisconnect(d, a)) \/ DisconnectRevoke(d)
            \/ CompleteDisconnect(d) \/ FailDisconnect(d) \/ DisconnectVanishes(d) => UNCHANGED rec
  BY DEF ClaimDisconnect, DisconnectRevoke, CompleteDisconnect, FailDisconnect, DisconnectVanishes
<1> QED
  BY <1>1, <1>2, <1>3 DEF Next

\* Every action keeps the claims of the passes: the attempt number that
\* claim_cleanup hands out is new.
LEMMA PassStep == ASSUME FenceInv, [Next]_vars PROVE PassInv'
<1>t. TypeOK /\ PassInv
  BY DEF FenceInv
<1>1. ASSUME FailuresLast, NEW r \in Reconcilers, rec'[r].pc = "idle",
             \A q \in Reconcilers \ {r} : rec'[q] = rec[q]
      PROVE  PassInv'
  BY SMT, <1>1, <1>t DEF PassInv, FailuresLast
<1>2. CASE UNCHANGED rec
  <2>1. \A r \in Reconcilers : ~ClaimCleanup(r)
    <3> SUFFICES ASSUME NEW r \in Reconcilers, ClaimCleanup(r) PROVE FALSE
      OBVIOUS
    <3>1. rec[r].pc = "idle"
      BY DEF ClaimCleanup
    <3>2. rec'[r].pc # "idle"
      <4>1. \A s \in Sessions : Verdict(s) # "idle"
        BY DEF Verdict
      <4> QED
        BY <1>t, <4>1, ClaimCleanupIs
    <3> QED
      BY <1>2, <3>1, <3>2
  <2>2. FailuresLast
    BY <2>1, FailureStep
  <2> QED
    BY <1>2, <1>t, <2>2 DEF PassInv, FailuresLast
<1>3. ASSUME NEW r \in Reconcilers, ClaimCleanup(r) PROVE PassInv'
  <2>1. PICK s \in Sessions :
          /\ Due(s)
          /\ cleanup[s].attempt \in Nat
          /\ cleanup'[s].status = "revoking" /\ cleanup'[s].attempt = cleanup[s].attempt + 1
          /\ \A u \in Sessions \ {s} : cleanup'[u] = cleanup[u]
          /\ rec'[r].token = s /\ rec'[r].claim = cleanup[s].attempt + 1
          /\ \A q \in Reconcilers \ {r} : rec'[q] = rec[q]
    BY <1>3, <1>t, ClaimCleanupIs
  <2>2. cleanup[s].status \in {"pending", "revoking"}
    BY <2>1 DEF Due
  <2>3. session' = session /\ session[s].status = "failed"
    BY <1>3, <2>2 DEF ClaimCleanup, FenceInv, LifeInv
  <2>4. \A q \in Reconcilers : rec[q].claim \in Nat
    BY SMT, <1>t, BoundsAreNumbers DEF TypeOK, Pass
  <2>5. \A q \in Reconcilers \ {r} : rec[q].pc # "idle" /\ rec[q].token = s =>
          rec[q].claim <= cleanup[s].attempt
    BY <1>t, <2>2 DEF PassInv
  <2> QED
    BY SMT, <1>t, <2>1, <2>3, <2>4, <2>5 DEF PassInv
<1>4. ASSUME NEW r \in Reconcilers, CleanupRevoke(r) PROVE PassInv'
  <2>1. UNCHANGED <<session, cleanup>> /\ rec[r].pc = "revoke"
    BY <1>4 DEF CleanupRevoke, store
  <2>2. /\ rec'[r].token = rec[r].token /\ rec'[r].claim = rec[r].claim
        /\ \A q \in Reconcilers \ {r} : rec'[q] = rec[q]
    BY <1>4, <1>t, CleanupRevokeIs
  <2> QED
    BY SMT, <1>t, <2>1, <2>2 DEF PassInv
<1>5. ASSUME NEW r \in Reconcilers,
             CompleteCleanup(r) \/ FailCleanup(r) \/ DeferCleanup(r) \/ ReconcilerVanishes(r)
      PROVE  PassInv'
  <2>1. Rest(r)
    BY <1>5 DEF CompleteCleanup, FailCleanup, DeferCleanup, ReconcilerVanishes
  <2>2. rec[r].pc # "idle"
    BY <1>5 DEF CompleteCleanup, FailCleanup, DeferCleanup, ReconcilerVanishes
  <2>3. /\ rec'[r].pc = "idle"
        /\ \A q \in Reconcilers \ {r} : rec'[q] = rec[q]
    BY <1>t, <2>1, RestIs
  <2>4. \A q \in Reconcilers : ~ClaimCleanup(q)
    <3> SUFFICES ASSUME NEW q \in Reconcilers, ClaimCleanup(q) PROVE FALSE
      OBVIOUS
    <3>1. rec[q].pc = "idle"
      BY DEF ClaimCleanup
    <3>2. rec'[q].pc # "idle"
      <4>1. \A s \in Sessions : Verdict(s) # "idle"
        BY DEF Verdict
      <4> QED
        BY SMT, <1>t, <4>1, ClaimCleanupIs
    <3> QED
      BY <2>2, <2>3, <3>1, <3>2
  <2>5. FailuresLast
    BY <2>4, FailureStep
  <2> QED
    BY <1>1, <2>3, <2>5
<1> QED
  BY <1>2, <1>3, <1>4, <1>5, PassFrame

\* Nobody has a revocation request out.
Quiet ==
    /\ \A s \in Sessions : task[s].pc # "gRevoke"
    /\ \A r \in Reconcilers : rec[r].pc # "revoke"
    /\ \A d \in Requests : disc[d].pc # "revoke"

\* Without a fence, or while recovery waits for the operator, no
\* revocation request is out.
LEMMA UnfencedIsQuiet ==
    ASSUME OneRevocationAtATime, fence.kind \in {"none", "recovery"} PROVE Quiet
BY SMT DEF OneRevocationAtATime, Quiet, FenceIs, GuardianFence

\* Every action keeps the row of a revocation that is under way.
LEMMA RowStep == ASSUME FenceInv, [Next]_vars PROVE RowInv'
<1> USE DEF store, google
<1>t. TypeOK
  BY DEF FenceInv
<1>R. RowInv
  BY DEF FenceInv
<1>F. OneRevocationAtATime
  BY DEF FenceInv
<1>ty. /\ cleanup \in [Sessions -> CleanupRow] /\ session \in [Sessions -> SessionRow]
       /\ \A r \in Reconcilers : rec[r].pc = "revoke" => rec[r].token \in Sessions
  BY <1>t DEF TypeOK, FenceInv, PassInv
<1>1. ASSUME UNCHANGED rec,
             \A u \in Sessions : cleanup[u].status = "revoking" => cleanup'[u].status = "revoking"
      PROVE  RowInv'
  BY <1>1, <1>R, <1>ty DEF RowInv
<1>2. ASSUME UNCHANGED rec, \A r \in Reconcilers : rec[r].pc # "revoke" PROVE RowInv'
  BY <1>2 DEF RowInv
<1>3. ASSUME NEW r \in Reconcilers, rec'[r].pc # "revoke", UNCHANGED cleanup,
             \A q \in Reconcilers \ {r} : rec'[q] = rec[q]
      PROVE  RowInv'
  BY <1>3, <1>R DEF RowInv
<1>4. ASSUME NEW s \in Sessions, Hold(s) \/ GuardianHold(s) PROVE RowInv'
  <2>1. UNCHANGED rec /\ (HoldRow(s) \/ UNCHANGED cleanup)
    BY <1>4 DEF Hold, GuardianHold
  <2> QED
    BY <1>1, <1>ty, <2>1, HoldRowIs
<1>5. ASSUME NEW s \in Sessions, Identify(s) PROVE RowInv'
  <2>1. UNCHANGED rec /\ cleanup' \in {cleanup, [cleanup EXCEPT ![s].known = TRUE]}
    BY <1>5 DEF Identify
  <2> QED
    BY SMT, <1>1, <1>ty, <2>1 DEF CleanupRow
<1>6. ASSUME NEW s \in Sessions, CompleteStaged(s), UNCHANGED rec PROVE RowInv'
  <2>1. Quiet
    BY <1>6, <1>F, UnfencedIsQuiet DEF CompleteStaged, Unfenced
  <2> QED
    BY <1>2, <1>6, <2>1 DEF Quiet
<1>7. ASSUME NEW s \in Sessions, Abandon(s) PROVE RowInv'
  <2>1. UNCHANGED rec /\ cleanup' \in {cleanup, Promote(cleanup, s)}
    BY <1>7 DEF Abandon
  <2> QED
    BY SMT, <1>1, <1>ty, <2>1, PromoteIs
<1>8. ASSUME NEW s \in Sessions, GuardianComplete(s) PROVE RowInv'
  <2>1. UNCHANGED rec /\ (UNCHANGED cleanup \/ fence.kind = "guardian")
    BY SMT, <1>8 DEF GuardianComplete, GuardianFence
  <2> QED
    BY SMT, <1>1, <1>2, <1>F, <2>1 DEF OneRevocationAtATime, FenceIs
<1>9. CASE RecoverStartup
  <2>1. UNCHANGED rec
    BY <1>9 DEF RecoverStartup
  <2> QED
    BY <1>1, <1>9, <1>t, <2>1, RecoverStartupIs
<1>10. CASE OperatorRecovery
  BY <1>2, <1>10, <1>F, UnfencedIsQuiet DEF OperatorRecovery, Quiet
<1>11. ASSUME NEW r \in Reconcilers, ClaimCleanup(r) PROVE RowInv'
  <2>1. PICK s \in Sessions :
          /\ cleanup'[s].status = "revoking" /\ rec'[r].token = s
          /\ \A u \in Sessions \ {s} : cleanup'[u] = cleanup[u]
          /\ \A q \in Reconcilers \ {r} : rec'[q] = rec[q]
    BY <1>11, <1>t, ClaimCleanupIs
  <2> QED
    BY SMT, <1>R, <1>ty, <2>1 DEF RowInv
<1>12. ASSUME NEW r \in Reconcilers, CleanupRevoke(r) PROVE RowInv'
  <2>1. UNCHANGED cleanup
    BY <1>12 DEF CleanupRevoke
  <2>2. rec'[r].pc # "revoke" /\ \A q \in Reconcilers \ {r} : rec'[q] = rec[q]
    BY <1>12, <1>t, CleanupRevokeIs
  <2> QED
    BY <1>3, <2>1, <2>2
<1>13. ASSUME NEW r \in Reconcilers,
             CompleteCleanup(r) \/ FailCleanup(r) \/ DeferCleanup(r) \/ ReconcilerVanishes(r)
      PROVE  RowInv'
  <2>1. /\ UNCHANGED cleanup \/ RowClaimed(r)
        /\ Rest(r) /\ rec[r].pc # "idle"
    BY <1>13 DEF CompleteCleanup, FailCleanup, DeferCleanup, ReconcilerVanishes
  <2>2. rec'[r].pc = "idle" /\ \A q \in Reconcilers \ {r} : rec'[q] = rec[q]
    BY <1>t, <2>1, RestIs
  <2>3. ASSUME RowClaimed(r), NEW q \in Reconcilers, rec[q].pc = "revoke" PROVE q = r
    BY <1>F, <2>1, <2>3 DEF RowClaimed, FenceInv, PassInv, OneRevocationAtATime, FenceIs
  <2> QED
    BY <1>3, <2>1, <2>2, <2>3 DEF RowInv
<1> QED
  <2>1. \A s \in Sessions :
           /\ (\E a \in Accounts : CreateSession(s, a)) \/ ExpirePending(s) \/ ClaimCallback(s)
                \/ Vanish(s) \/ Preflight(s) \/ FailAuthorization(s) \/ Exchange(s) \/ Stage(s)
                \/ GuardianRelease(s) \/ GuardianClaim(s) \/ GuardianRevoke(s)
                => UNCHANGED <<rec, cleanup>>
           /\ Complete(s) => UNCHANGED rec /\ (UNCHANGED cleanup \/ CompleteStaged(s))
    BY ZenonT(30) DEF CreateSession, ExpirePending, ClaimCallback, Vanish, Preflight, FailAuthorization,
       Exchange, Stage, Complete, GuardianRelease, GuardianClaim, GuardianRevoke
  <2>2. /\ UNCHANGED vars \/ BeginPass => UNCHANGED <<rec, cleanup>>
        /\ ReconcileStaged => UNCHANGED rec /\ \E s \in Sessions : CompleteStaged(s)
    BY DEF BeginPass, ReconcileStaged, vars
  <2>3. \A d \in Requests :
           (\E a \in Accounts : ClaimDisconnect(d, a)) \/ DisconnectRevoke(d)
              \/ CompleteDisconnect(d) \/ FailDisconnect(d) \/ DisconnectVanishes(d)
              => UNCHANGED <<rec, cleanup>>
    BY DEF ClaimDisconnect, DisconnectRevoke, CompleteDisconnect, FailDisconnect, DisconnectVanishes
  <2> QED
    BY <1>1, <1>4, <1>5, <1>6, <1>7, <1>8, <1>9, <1>10, <1>11, <1>12, <1>13, <2>1, <2>2, <2>3
       DEF Next, TaskStep

\* Every action keeps the claims of the handlers: the number claim_disconnect
\* hands out is new.
LEMMA HandlerStep == ASSUME FenceInv, [Next]_vars PROVE HandlerInv'
<1>t. TypeOK /\ HandlerInv /\ OneRevocationAtATime
  BY DEF FenceInv
<1>ty. disc \in [Requests -> Handler] /\ account \in [Accounts -> AccountRow]
  BY <1>t DEF TypeOK
<1>n. \A d \in Requests : disc[d].account \in Accounts /\ disc[d].claim \in Nat
  BY SMT, <1>ty, BoundsAreNumbers DEF Handler
<1>1. CASE UNCHANGED <<disc, account>>
  BY <1>1, <1>t DEF HandlerInv
<1>2. ASSUME NEW s \in Sessions, CompleteStaged(s), UNCHANGED disc PROVE HandlerInv'
  <2>1. Quiet
    BY <1>2, <1>t, UnfencedIsQuiet DEF CompleteStaged, Unfenced
  <2>2. \A a \in Accounts : account'[a].claim = account[a].claim
    BY <1>2, <1>t, CompleteStagedIs
  <2> QED
    BY <1>2, <1>t, <1>n, <2>1, <2>2 DEF HandlerInv, Quiet
<1>3. CASE OperatorRecovery
  <2>1. Quiet /\ UNCHANGED disc
    BY <1>3, <1>t, UnfencedIsQuiet DEF OperatorRecovery
  <2>2. \A a \in Accounts : account'[a].claim = account[a].claim
    BY <1>3, <1>t, OperatorRecoveryIs
  <2> QED
    BY <1>t, <1>n, <2>1, <2>2 DEF HandlerInv, Quiet
<1>4. ASSUME NEW d \in Requests, NEW a \in Accounts, ClaimDisconnect(d, a) PROVE HandlerInv'
  <2>1. /\ AccountMoves(a, "disconnecting", account[a].retired, account[a].claim + 1)
        /\ account[a].claim \in Nat
        /\ disc'[d].account = a /\ disc'[d].claim = account[a].claim + 1
        /\ \A e \in Requests \ {d} : disc'[e] = disc[e]
    BY <1>4, <1>t, ClaimDisconnectIs
  <2> QED
    BY <1>t, <1>n, <2>1, SMTT(30) DEF HandlerInv, AccountMoves
<1>5. ASSUME NEW d \in Requests, DisconnectRevoke(d) PROVE HandlerInv'
  <2>1. account' = account /\ disc[d].pc = "revoke"
    BY <1>5 DEF DisconnectRevoke, store
  <2>2. /\ disc'[d].account = disc[d].account /\ disc'[d].claim = disc[d].claim
        /\ \A e \in Requests \ {d} : disc'[e] = disc[e]
    BY <1>5, <1>t, DisconnectRevokeIs
  <2> QED
    BY SMT, <1>t, <2>1, <2>2 DEF HandlerInv
<1>6. ASSUME NEW d \in Requests, CompleteDisconnect(d) \/ FailDisconnect(d) \/ DisconnectVanishes(d)
      PROVE  HandlerInv'
  <2>1. disc[d].pc \in {"complete", "fail"} \/ account' = account
    BY <1>6 DEF CompleteDisconnect, FailDisconnect, DisconnectVanishes, store
  <2>2. Leave(d)
    BY <1>6 DEF CompleteDisconnect, FailDisconnect, DisconnectVanishes
  <2>3. /\ disc'[d].pc = "idle"
        /\ \A e \in Requests \ {d} : disc'[e] = disc[e]
    BY <1>t, <2>2, LeaveIs
  <2>4. CASE account' = account
    BY SMT, <1>t, <2>3, <2>4 DEF HandlerInv
  <2>5. CASE account' # account
    <3>1. DisconnectClaimed(d)
      BY <1>6, <2>5 DEF CompleteDisconnect, FailDisconnect, DisconnectVanishes, store
    <3>2. \/ AccountMoves(disc[d].account, "revoked", {}, account[disc[d].account].claim)
          \/ AccountMoves(disc[d].account, "revocation_failed", account[disc[d].account].retired,
                          account[disc[d].account].claim)
      <4>1. CompleteDisconnect(d) \/ FailDisconnect(d)
        BY <1>6, <2>5 DEF DisconnectVanishes, store
      <4> QED
        BY <1>t, <3>1, <4>1, EndDisconnectIs
    <3>3. \A e \in Requests \ {d} : disc[e].pc = "revoke" => disc[e].account # disc[d].account
      <4> SUFFICES ASSUME NEW e \in Requests \ {d}, disc[e].pc = "revoke",
                          disc[e].account = disc[d].account
                   PROVE  FALSE
        OBVIOUS
      <4>1. disc[e].claim = disc[d].claim
        BY <1>t, <3>1 DEF OneRevocationAtATime, FenceIs, DisconnectClaimed
      <4>2. disc[d].pc # "idle" /\ disc[e].pc # "idle"
        BY <2>1, <2>5
      <4> QED
        BY <1>t, <4>1, <4>2 DEF HandlerInv
    <3>4. /\ \A a \in Accounts : account'[a].claim = account[a].claim
          /\ \A b \in Accounts \ {disc[d].account} : account'[b] = account[b]
      BY <3>2 DEF AccountMoves
    <3>5. \A e \in Requests : disc[e].account \in Accounts
      BY <1>t DEF TypeOK, Handler
    <3>6. \A e \in Requests : disc'[e].pc # "idle" => e # d /\ disc'[e] = disc[e]
      BY <2>3
    <3>7. \A e \in Requests :
             /\ disc'[e].pc # "idle" => disc'[e].claim <= account'[disc'[e].account].claim
             /\ disc'[e].pc = "revoke" => account'[disc'[e].account].status = "disconnecting"
      BY SMT, <1>t, <3>3, <3>4, <3>5, <3>6 DEF HandlerInv
    <3>8. \A e, f \in Requests :
             disc'[e].pc # "idle" /\ disc'[f].pc # "idle" /\ disc'[e].account = disc'[f].account
                /\ disc'[e].claim = disc'[f].claim => e = f
      BY SMT, <1>t, <3>6 DEF HandlerInv
    <3> QED
      BY <3>7, <3>8 DEF HandlerInv
  <2> QED
    BY <2>4, <2>5
<1> QED
  <2>1. UNCHANGED vars => UNCHANGED <<disc, account>>
    BY DEF vars, store
  <2>2. \A s \in Sessions :
           /\ (\E a \in Accounts : CreateSession(s, a)) \/ ExpirePending(s) \/ ClaimCallback(s)
                \/ Vanish(s) => UNCHANGED <<disc, account>>
           /\ TaskStep(s) => UNCHANGED disc /\ (UNCHANGED account \/ CompleteStaged(s))
    BY ZenonT(30) DEF CreateSession, ExpirePending, ClaimCallback, TaskStep, Vanish, Preflight,
       FailAuthorization, Exchange, Hold, Identify, Stage, Complete, Abandon, GuardianHold,
       GuardianRelease, GuardianClaim, GuardianRevoke, GuardianComplete, store
  <2>3. /\ BeginPass \/ RecoverStartup => UNCHANGED <<disc, account>>
        /\ ReconcileStaged => UNCHANGED disc /\ \E s \in Sessions : CompleteStaged(s)
    BY DEF BeginPass, ReconcileStaged, RecoverStartup, store
  <2>4. \A r \in Reconcilers :
           ClaimCleanup(r) \/ CleanupRevoke(r) \/ CompleteCleanup(r) \/ FailCleanup(r)
              \/ DeferCleanup(r) \/ ReconcilerVanishes(r) => UNCHANGED <<disc, account>>
    BY DEF ClaimCleanup, CleanupRevoke, CompleteCleanup, FailCleanup, DeferCleanup,
       ReconcilerVanishes, store
  <2> QED
    BY <1>1, <1>2, <1>3, <1>4, <1>5, <1>6, <2>1, <2>2, <2>3, <2>4 DEF Next

\* Every action keeps at most one revocation request out: a fence is set only
\* when nobody is sending, and lifted or handed on only by its owner.
LEMMA FenceStep == ASSUME FenceInv, [Next]_vars PROVE OneRevocationAtATime'
<1> USE DEF OneRevocationAtATime, FenceIs, GuardianFence, store, google
<1>t. TypeOK
  BY DEF FenceInv
<1>F. OneRevocationAtATime
  BY DEF FenceInv
<1>ty. task \in [Sessions -> Callback] /\ fence \in Fences
  BY <1>t DEF TypeOK
<1>0. ASSUME UNCHANGED <<fence, rec, disc>>,
             \A s \in Sessions : task'[s].pc = "gRevoke" => task[s].pc = "gRevoke"
      PROVE  OneRevocationAtATime'
  BY <1>0, <1>F
<1>1. ASSUME Quiet, UNCHANGED <<task, rec, disc>> PROVE OneRevocationAtATime'
  BY <1>1 DEF Quiet
<1>2. ASSUME NEW s \in Sessions,
             (\E a \in Accounts : CreateSession(s, a)) \/ ExpirePending(s) \/ ClaimCallback(s)
               \/ Vanish(s) \/ Preflight(s) \/ FailAuthorization(s) \/ Exchange(s) \/ Hold(s)
               \/ Identify(s) \/ Stage(s) \/ Complete(s) \/ Abandon(s) \/ GuardianHold(s)
               \/ GuardianRevoke(s)
      PROVE  OneRevocationAtATime'
  <2>1. UNCHANGED <<fence, rec, disc>>
    BY <1>2 DEF CreateSession, ExpirePending, ClaimCallback, Vanish, Preflight, FailAuthorization,
       Exchange, Hold, Identify, Stage, Complete, Abandon, GuardianHold, GuardianRevoke
  <2>2. UNCHANGED task \/ \E pc \in Pcs \ {"gRevoke"} : Goto(s, pc)
    BY <1>2 DEF CreateSession, ExpirePending, ClaimCallback, Vanish, Preflight, FailAuthorization,
       Exchange, Hold, Identify, Stage, Complete, Abandon, GuardianHold, GuardianRevoke, Pcs
  <2> QED
    BY <1>0, <1>ty, <2>1, <2>2, GotoIs DEF Moves
<1>3. ASSUME NEW s \in Sessions, GuardianRelease(s) \/ GuardianComplete(s)
      PROVE  OneRevocationAtATime'
  <2>1. UNCHANGED <<rec, disc>> /\ (fence' = fence \/ fence = GuardianFence(s))
    BY <1>3 DEF GuardianRelease, GuardianComplete
  <2>2. \E pc \in Pcs \ {"gRevoke"} : Goto(s, pc)
    BY <1>3 DEF GuardianRelease, GuardianComplete, Pcs
  <2>3. task'[s].pc # "gRevoke" /\ \A u \in Sessions \ {s} : task'[u] = task[u]
    BY <1>ty, <2>2, GotoIs DEF Moves
  <2> QED
    BY <1>F, <2>1, <2>3, SMTT(30)
<1>4. ASSUME NEW s \in Sessions, GuardianClaim(s) PROVE OneRevocationAtATime'
  <2>1. /\ UNCHANGED <<rec, disc>> /\ fence' = GuardianFence(s) /\ task[s].pc = "guardian"
        /\ fence.kind = "none" \/ GuardianStale \/ fence = GuardianFence(s)
    BY <1>4 DEF GuardianClaim, Unfenced
  <2>2. \A u \in Sessions \ {s} : task'[u] = task[u]
    BY <1>4, <1>ty DEF GuardianClaim
  <2>3. \A u \in Sessions \ {s} : task[u].pc # "gRevoke"
    BY <1>F, <2>1, SMTT(30) DEF GuardianStale
  <2>4. /\ \A r \in Reconcilers : rec[r].pc # "revoke"
        /\ \A d \in Requests : disc[d].pc # "revoke"
    BY SMT, <1>F, <2>1 DEF GuardianStale
  <2> QED
    BY <2>1, <2>2, <2>3, <2>4
<1>5. CASE BeginPass \/ ReconcileStaged \/ UNCHANGED vars
  BY <1>0, <1>5 DEF BeginPass, ReconcileStaged, vars
<1>6. CASE RecoverStartup
  <2>1. UNCHANGED <<task, rec, disc>>
    BY <1>6 DEF RecoverStartup
  <2>2. fence.kind = "none" \/ GuardianStale
    BY <1>6, <1>t, RecoverStartupIs DEF Unfenced
  <2>3. Quiet
    BY SMT, <1>F, <2>2 DEF Quiet, GuardianStale
  <2> QED
    BY <1>1, <2>1, <2>3
<1>7. CASE OperatorRecovery
  BY <1>1, <1>7, <1>F, UnfencedIsQuiet DEF OperatorRecovery
<1>8. ASSUME NEW r \in Reconcilers, ClaimCleanup(r) PROVE OneRevocationAtATime'
  <2>1. PICK s \in Sessions :
          /\ Due(s)
          /\ fence' = [kind |-> "cleanup", owner |-> s, claim |-> cleanup[s].attempt + 1]
          /\ rec'[r].token = s /\ rec'[r].claim = cleanup[s].attempt + 1
          /\ \A q \in Reconcilers \ {r} : rec'[q] = rec[q]
    BY <1>8, <1>t, ClaimCleanupIs
  <2>2. /\ fence.kind \in {"none", "cleanup"} /\ (fence.kind = "cleanup" => fence.owner = s)
        /\ \/ cleanup[s].status = "pending"
           \/ /\ cleanup[s].status = "revoking"
              /\ \A q \in Reconcilers : ~(rec[q].pc = "revoke" /\ rec[q].token = s)
    BY <2>1 DEF Due
  <2>3. Quiet
    BY SMT, <1>F, <2>2 DEF Quiet, FenceInv, RowInv
  <2>4. UNCHANGED <<task, disc>>
    BY <1>8 DEF ClaimCleanup
  <2> QED
    BY <2>1, <2>3, <2>4 DEF Quiet
<1>9. ASSUME NEW r \in Reconcilers, CleanupRevoke(r) PROVE OneRevocationAtATime'
  <2>1. UNCHANGED <<task, disc, fence>>
    BY <1>9 DEF CleanupRevoke
  <2>2. /\ rec'[r].pc # "revoke"
        /\ \A q \in Reconcilers \ {r} : rec'[q] = rec[q]
    BY <1>9, <1>t, CleanupRevokeIs
  <2> QED
    BY <1>F, <2>1, <2>2
<1>10. ASSUME NEW r \in Reconcilers,
             CompleteCleanup(r) \/ FailCleanup(r) \/ DeferCleanup(r) \/ ReconcilerVanishes(r)
       PROVE  OneRevocationAtATime'
  <2>1. /\ UNCHANGED <<task, disc>> /\ Rest(r) /\ rec[r].pc # "idle"
        /\ fence' = fence \/ RowClaimed(r)
    BY <1>10 DEF CompleteCleanup, FailCleanup, DeferCleanup, ReconcilerVanishes
  <2>2. rec'[r].pc = "idle" /\ \A q \in Reconcilers \ {r} : rec'[q] = rec[q]
    BY <1>t, <2>1, RestIs
  <2>3. ASSUME RowClaimed(r), NEW q \in Reconcilers, rec[q].pc = "revoke" PROVE q = r
    BY <1>F, <2>1, <2>3 DEF RowClaimed, FenceInv, PassInv
  <2>4. RowClaimed(r) => fence.kind = "cleanup"
    BY SMT DEF RowClaimed
  <2> QED
    BY SMT, <1>F, <2>1, <2>2, <2>3, <2>4
<1>11. ASSUME NEW d \in Requests, NEW a \in Accounts, ClaimDisconnect(d, a)
       PROVE  OneRevocationAtATime'
  <2>1. /\ fence' = [kind |-> "disconnect", owner |-> a, claim |-> account[a].claim + 1]
        /\ disc'[d].account = a /\ disc'[d].claim = account[a].claim + 1
        /\ \A e \in Requests \ {d} : disc'[e] = disc[e]
    BY <1>11, <1>t, ClaimDisconnectIs
  <2>2. UNCHANGED <<task, rec>> /\ MayDisconnect(a)
    BY <1>11 DEF ClaimDisconnect
  <2>3. Quiet
    <3>1. CASE fence.kind = "none"
      BY <1>F, <3>1, UnfencedIsQuiet
    <3>2. CASE fence.kind # "none"
      BY <1>F, <2>2, <3>2, SMTT(30) DEF MayDisconnect, Unfenced, Quiet, FenceInv, HandlerInv
    <3> QED
      BY <3>1, <3>2
  <2> QED
    BY <2>1, <2>2, <2>3 DEF Quiet
<1>12. ASSUME NEW d \in Requests, DisconnectRevoke(d) PROVE OneRevocationAtATime'
  <2>1. UNCHANGED <<task, rec, fence>> /\ disc[d].pc = "revoke"
    BY <1>12 DEF DisconnectRevoke
  <2>2. /\ disc'[d].account = disc[d].account /\ disc'[d].claim = disc[d].claim
        /\ \A e \in Requests \ {d} : disc'[e] = disc[e]
    BY <1>12, <1>t, DisconnectRevokeIs
  <2> QED
    BY <1>F, <2>1, <2>2
<1>13. ASSUME NEW d \in Requests,
              CompleteDisconnect(d) \/ FailDisconnect(d) \/ DisconnectVanishes(d)
       PROVE  OneRevocationAtATime'
  <2>1. /\ UNCHANGED <<task, rec>> /\ Leave(d) /\ disc[d].pc # "idle"
        /\ fence' = fence \/ DisconnectClaimed(d)
    BY <1>13 DEF CompleteDisconnect, FailDisconnect, DisconnectVanishes
  <2>2. disc'[d].pc = "idle" /\ \A e \in Requests \ {d} : disc'[e] = disc[e]
    BY <1>t, <2>1, LeaveIs
  <2>3. ASSUME DisconnectClaimed(d), NEW e \in Requests, disc[e].pc = "revoke" PROVE e = d
    BY <1>F, <2>1, <2>3 DEF DisconnectClaimed, FenceInv, HandlerInv
  <2>4. DisconnectClaimed(d) => fence.kind = "disconnect"
    BY SMTT(30) DEF DisconnectClaimed
  <2> QED
    BY <1>F, <2>1, <2>2, <2>3, <2>4, SMTT(30)
<1> HIDE DEF OneRevocationAtATime
<1> QED
  BY <1>2, <1>3, <1>4, <1>5, <1>6, <1>7, <1>8, <1>9, <1>10, <1>11, <1>12, <1>13 DEF Next, TaskStep

(***************************************************************************)
(* The theorems                                                            *)
(***************************************************************************)
\* The initial states satisfy the invariant of the fence.
LEMMA InitFence == ASSUME Init PROVE FenceInv
<1> USE DEF Init, NoSession, NoRow, NoAccount, NoFence
<1>1. Sessions \subseteq Nat /\ 0 \notin Sessions /\ 0 \in Tokens /\ Accounts = Tokens
  BY SessionsAreNumbered DEF Tokens, Accounts
<1>2. TypeOK
  <2>1. session \in [Sessions -> SessionRow] /\ cleanup \in [Sessions -> CleanupRow]
    BY RowsTyped
  <2>2. account \in [Accounts -> AccountRow]
    BY SMTT(30), <1>1, BoundsAreNumbers DEF AccountRow
  <2>3. rec \in [Reconcilers -> Pass] /\ disc \in [Requests -> Handler]
    BY SMT, <1>1, BoundsAreNumbers DEF Pass, Handler
  <2>4. task \in [Sessions -> Callback]
    BY DEF Callback
  <2> QED
    BY <2>1, <2>2, <2>3, <2>4, RowsTyped DEF TypeOK
<1>3. LifeInv
  BY <1>1 DEF LifeInv, Open, Unissued, Issued, Tokens
<1>4. PassInv /\ RowInv
  BY DEF PassInv, RowInv
<1>5. HandlerInv
  BY DEF HandlerInv
<1>6. OneRevocationAtATime
  BY DEF OneRevocationAtATime
<1> QED
  BY <1>2, <1>3, <1>4, <1>5, <1>6 DEF FenceInv

\* The invariant of the fence is inductive.
LEMMA FenceInductive == ASSUME FenceInv, [Next]_vars PROVE FenceInv'
BY TypeStep, LifeStep, PassStep, RowStep, HandlerStep, FenceStep DEF FenceInv

\* The invariant of the fence holds in every reachable state, for every set
\* of sessions, subjects, reconcilers and requests.
THEOREM FenceAlways == Spec => []FenceInv
<1>1. Init => FenceInv
  BY InitFence
<1>2. FenceInv /\ [Next]_vars => FenceInv'
  BY FenceInductive
<1> QED
  BY <1>1, <1>2, PTL DEF Spec

\* At any time at most one revocation request is out at Google, and the fence
\* of google_oauth_scope_state names its sender.
THEOREM RevocationsAreFenced == Spec => []OneRevocationAtATime
<1>1. FenceInv => OneRevocationAtATime
  BY DEF FenceInv
<1> QED
  BY <1>1, FenceAlways, PTL

\* The tables and the tasks keep their types: no counter passes its bound and
\* no row names a token or an account that does not exist.
THEOREM CustodyTyped == Spec => []TypeOK
<1>1. FenceInv => TypeOK
  BY DEF FenceInv
<1> QED
  BY <1>1, FenceAlways, PTL

(***************************************************************************)
(* What a step may do to the grants, the accounts and the sessions         *)
(***************************************************************************)
\* What a step leaves of the grants that were issued before.
GrantsOnlyEnd ==
    /\ \A t \in Tokens : Issued(t) =>
          /\ Issued(t)'
          /\ \/ grant'[t] = grant[t]
             \/ grant[t] = "valid" /\ grant'[t] = "revoked"
    /\ \A t, u \in Tokens :
          grant[t] = "valid" /\ grant'[t] = "revoked" /\ subject[u] = subject[t]
             => grant'[u] # "valid"
    /\ \A t \in Tokens :
          /\ grant'[t] = "revoked" => grant[t] # "none"
          /\ grant'[t] = "valid" => grant[t] = "valid" \/ (t \in Sessions /\ Exchange(t))

\* No action changes whose token a token is.
LEMMA SubjectStep == ASSUME [Next]_vars PROVE subject' = subject
<1> USE DEF google, store
<1>1. \A s \in Sessions :
         (\E a \in Accounts : CreateSession(s, a)) \/ ExpirePending(s) \/ ClaimCallback(s)
            \/ TaskStep(s) \/ Vanish(s) => UNCHANGED subject
  BY ZenonT(30) DEF CreateSession, ExpirePending, ClaimCallback, TaskStep, Vanish, Preflight,
     FailAuthorization, Exchange, Hold, Identify, Stage, Complete, Abandon, GuardianHold,
     GuardianRelease, GuardianClaim, GuardianRevoke, GuardianComplete
<1>2. BeginPass \/ ReconcileStaged \/ RecoverStartup \/ OperatorRecovery \/ UNCHANGED vars
         => UNCHANGED subject
  BY DEF BeginPass, ReconcileStaged, RecoverStartup, OperatorRecovery, vars
<1>3. \A r \in Reconcilers :
         ClaimCleanup(r) \/ CleanupRevoke(r) \/ CompleteCleanup(r) \/ FailCleanup(r)
            \/ DeferCleanup(r) \/ ReconcilerVanishes(r) => UNCHANGED subject
  BY DEF ClaimCleanup, CleanupRevoke, CompleteCleanup, FailCleanup, DeferCleanup,
     ReconcilerVanishes
<1>4. \A d \in Requests :
         (\E a \in Accounts : ClaimDisconnect(d, a)) \/ DisconnectRevoke(d)
            \/ CompleteDisconnect(d) \/ FailDisconnect(d) \/ DisconnectVanishes(d)
            => UNCHANGED subject
  BY ZenonT(30) DEF ClaimDisconnect, DisconnectRevoke, CompleteDisconnect, FailDisconnect, DisconnectVanishes
<1> QED
  BY <1>1, <1>2, <1>3, <1>4 DEF Next

\* Every step, sorted by what it does to the grants.
LEMMA GrantCases ==
    ASSUME FenceInv, [Next]_vars
    PROVE  \/ UNCHANGED grant
           \/ \E s \in Sessions : Exchange(s)
           \/ OperatorRecovery
           \/ \E t \in Tokens : Revoke(t)
<1> USE DEF google, store
<1>1. \A s \in Sessions :
         /\ (\E a \in Accounts : CreateSession(s, a)) \/ ExpirePending(s) \/ ClaimCallback(s)
              \/ TaskStep(s) \/ Vanish(s) => UNCHANGED grant \/ Exchange(s) \/ Revoke(s)
         /\ s \in Tokens
  BY ZenonT(30) DEF CreateSession, ExpirePending, ClaimCallback, TaskStep, Vanish, Preflight,
     FailAuthorization, Hold, Identify, Stage, Complete, Abandon, GuardianHold,
     GuardianRelease, GuardianClaim, GuardianRevoke, GuardianComplete, Tokens
<1>2. BeginPass \/ ReconcileStaged \/ RecoverStartup \/ UNCHANGED vars => UNCHANGED grant
  BY DEF BeginPass, ReconcileStaged, RecoverStartup, vars
<1>3. \A r \in Reconcilers :
         /\ ClaimCleanup(r) \/ CleanupRevoke(r) \/ CompleteCleanup(r) \/ FailCleanup(r)
              \/ DeferCleanup(r) \/ ReconcilerVanishes(r)
              => UNCHANGED grant \/ Revoke(rec[r].token)
         /\ rec[r].token \in Tokens
  BY DEF ClaimCleanup, CleanupRevoke, CompleteCleanup, FailCleanup, DeferCleanup,
     ReconcilerVanishes, FenceInv, TypeOK, Pass
<1>4. \A d \in Requests :
         /\ (\E a \in Accounts : ClaimDisconnect(d, a)) \/ DisconnectRevoke(d)
              \/ CompleteDisconnect(d) \/ FailDisconnect(d) \/ DisconnectVanishes(d)
              => UNCHANGED grant \/ \E t \in disc[d].todo : Revoke(t)
         /\ disc[d].todo \subseteq Tokens
  BY ZenonT(30) DEF ClaimDisconnect, DisconnectRevoke, CompleteDisconnect, FailDisconnect,
     DisconnectVanishes, FenceInv, TypeOK, Handler
<1> QED
  BY <1>1, <1>2, <1>3, <1>4 DEF Next

\* Only the callback and guardian steps move a task.
LEMMA TaskFrame ==
    ASSUME [Next]_vars
    PROVE  \/ UNCHANGED task
           \/ \E s \in Sessions : ClaimCallback(s) \/ TaskStep(s) \/ Vanish(s)
<1> USE DEF google, store
<1>1. \A s \in Sessions :
         (\E a \in Accounts : CreateSession(s, a)) \/ ExpirePending(s) => UNCHANGED task
  BY DEF CreateSession, ExpirePending
<1>2. BeginPass \/ ReconcileStaged \/ RecoverStartup \/ OperatorRecovery \/ UNCHANGED vars
         => UNCHANGED task
  BY DEF BeginPass, ReconcileStaged, RecoverStartup, OperatorRecovery, vars
<1>3. \A r \in Reconcilers :
         ClaimCleanup(r) \/ CleanupRevoke(r) \/ CompleteCleanup(r) \/ FailCleanup(r)
            \/ DeferCleanup(r) \/ ReconcilerVanishes(r) => UNCHANGED task
  BY DEF ClaimCleanup, CleanupRevoke, CompleteCleanup, FailCleanup, DeferCleanup,
     ReconcilerVanishes
<1>4. \A d \in Requests :
         (\E a \in Accounts : ClaimDisconnect(d, a)) \/ DisconnectRevoke(d)
            \/ CompleteDisconnect(d) \/ FailDisconnect(d) \/ DisconnectVanishes(d)
            => UNCHANGED task
  BY ZenonT(30) DEF ClaimDisconnect, DisconnectRevoke, CompleteDisconnect, FailDisconnect, DisconnectVanishes
<1> QED
  BY <1>1, <1>2, <1>3, <1>4 DEF Next

\* A token that was issued stays issued.
LEMMA IssuedStep == ASSUME FenceInv, [Next]_vars, NEW t \in Tokens, Issued(t) PROVE Issued(t)'
<1> USE DEF Issued, Unissued
<1>ty. TypeOK /\ LifeInv /\ task \in [Sessions -> Callback]
  BY DEF FenceInv, TypeOK
<1>1. CASE UNCHANGED task
  BY <1>1
<1>2. ASSUME NEW s \in Sessions, NEW pc \in Pcs \ {"idle", "claimed", "exchange"}, Goto(s, pc)
      PROVE  Issued(t)'
  BY <1>2, <1>ty, GotoIs DEF Moves
<1>3. ASSUME NEW s \in Sessions, ClaimCallback(s) PROVE Issued(t)'
  <2>1. Unissued(s)
    BY <1>3, <1>ty DEF ClaimCallback, LifeInv
  <2> QED
    BY <1>3, <1>ty, <2>1, ClaimCallbackIs DEF Moves
<1>4. ASSUME NEW s \in Sessions, Preflight(s) PROVE Issued(t)'
  <2>1. Unissued(s) /\ \E pc \in Pcs : Goto(s, pc)
    BY <1>4 DEF Preflight, Pcs
  <2> QED
    BY <1>ty, <2>1, GotoIs DEF Moves
<1>5. ASSUME NEW s \in Sessions, GuardianClaim(s) PROVE Issued(t)'
  BY <1>5, <1>ty DEF GuardianClaim, Callback
<1> QED
  <2>1. \A s \in Sessions :
           \/ ~(Vanish(s) \/ TaskStep(s)) \/ Preflight(s) \/ GuardianClaim(s)
           \/ \E pc \in Pcs \ {"idle", "claimed", "exchange"} : Goto(s, pc)
    BY SMT DEF TaskStep, Vanish, FailAuthorization, Exchange, Hold, Identify, Stage, Complete,
       Abandon, GuardianHold, GuardianRelease, GuardianRevoke, GuardianComplete, Pcs
  <2> QED
    BY <1>1, <1>2, <1>3, <1>4, <1>5, <2>1, TaskFrame

\* Every action but the exchange only ends grants, all those of a subject at
\* once.
LEMMA GrantStep == ASSUME FenceInv, [Next]_vars PROVE GrantsOnlyEnd
<1>ty. TypeOK /\ grant \in [Tokens -> {"none", "valid", "revoked"}]
  BY DEF FenceInv, TypeOK
<1>1. \A t \in Tokens : Issued(t) => Issued(t)'
  BY IssuedStep
<1>2. CASE UNCHANGED grant
  BY <1>1, <1>2 DEF GrantsOnlyEnd
<1>3. ASSUME NEW s \in Sessions, Exchange(s) PROVE GrantsOnlyEnd
  <2>1. ~Issued(s) /\ grant'[s] # "revoked" /\ \A t \in Tokens \ {s} : grant'[t] = grant[t]
    BY <1>3, <1>ty DEF Exchange, Issued, Unissued, Tokens
  <2> QED
    BY <1>1, <1>3, <1>ty, <2>1 DEF GrantsOnlyEnd
<1>4. CASE OperatorRecovery
  <2>1. \A t \in Tokens : grant'[t] = IF grant[t] = "valid" THEN "revoked" ELSE grant[t]
    BY <1>4 DEF OperatorRecovery
  <2> QED
    BY <1>1, <1>ty, <2>1 DEF GrantsOnlyEnd
<1>5. ASSUME NEW t \in Tokens, Revoke(t) PROVE GrantsOnlyEnd
  BY <1>1, <1>5, <1>ty, RevokeIs DEF GrantsOnlyEnd, Revoke
<1> QED
  BY <1>2, <1>3, <1>4, <1>5, GrantCases

\* The step is complete_staged, by the callback or by reconcile_staged.
Completes(s) ==
    /\ CompleteStaged(s)
    /\ UNCHANGED <<fence, rec, disc, google, discarded>>
    /\ UNCHANGED task \/ (task[s].pc = "complete" /\ Goto(s, "done"))

\* The step ends the account: complete_disconnect with the claim.
Ends(a) ==
    /\ \E d \in Requests : disc[d].pc = "complete" /\ disc[d].account = a /\ DisconnectClaimed(d)
    /\ \A u \in Sessions : session[u].reauth /\ session[u].account = a => ~session'[u].current

\* What a step that completes no request leaves of the accounts: tokens stay,
\* and an account is given up, with its old tokens, only by its disconnect.
AccountsStay ==
    \A a \in Accounts :
        /\ account'[a].token = account[a].token
        /\ \/ account'[a].retired = account[a].retired
           \/ account'[a].retired = {} /\ Ends(a)
        /\ a \in Protected' => a \in Protected
        /\ a \in Protected => a \in Protected' \/ Ends(a)
        /\ account[a] = NoAccount => account'[a] = NoAccount

\* No other action gives an account a token, or a new account.
LEMMA AccountStep ==
    ASSUME FenceInv, [Next]_vars, \A s \in Sessions : ~Completes(s)
    PROVE  AccountsStay
<1> USE DEF google, store
<1>t. TypeOK
  BY DEF FenceInv
<1>1. CASE UNCHANGED account
  BY <1>1 DEF AccountsStay, Protected
<1>2. CASE OperatorRecovery
  <2>1. \A a \in Accounts :
           /\ account'[a].status = IF a \in Protected THEN "reauthorize" ELSE account[a].status
           /\ account'[a].token = account[a].token /\ account'[a].retired = account[a].retired
           /\ a \notin Protected => account'[a] = account[a]
    BY <1>2, <1>t, OperatorRecoveryIs
  <2> QED
    BY SMT, <2>1 DEF AccountsStay, Protected, NoAccount
<1>3. ASSUME NEW d \in Requests, NEW a \in Accounts, ClaimDisconnect(d, a) PROVE AccountsStay
  <2>1. AccountMoves(a, "disconnecting", account[a].retired, account[a].claim + 1)
    BY <1>3, <1>t, ClaimDisconnectIs
  <2>2. a \in Protected
    BY <1>3 DEF ClaimDisconnect, MayDisconnect
  <2> QED
    BY SMT, <2>1, <2>2 DEF AccountsStay, AccountMoves, Protected, NoAccount
<1>4. ASSUME NEW d \in Requests, CompleteDisconnect(d), DisconnectClaimed(d) PROVE AccountsStay
  <2> DEFINE a == disc[d].account
  <2>1. a \in Accounts /\ AccountMoves(a, "revoked", {}, account[a].claim) /\ Drifts({a})
    BY <1>4, <1>t, EndDisconnectIs
  <2>2. Ends(a)
    BY <1>4, <2>1 DEF Ends, Drifts, CompleteDisconnect
  <2>3. a \in Protected /\ account[a] # NoAccount
    BY SMT, <1>4, <2>1 DEF DisconnectClaimed, Protected, NoAccount
  <2> HIDE DEF a
  <2> QED
    BY <2>1, <2>2, <2>3 DEF AccountsStay, AccountMoves, Protected
<1>5. ASSUME NEW d \in Requests, FailDisconnect(d), DisconnectClaimed(d) PROVE AccountsStay
  <2> DEFINE a == disc[d].account
  <2>1. /\ a \in Accounts
        /\ AccountMoves(a, "revocation_failed", account[a].retired, account[a].claim)
    BY <1>5, <1>t, EndDisconnectIs
  <2>2. a \in Protected /\ account[a] # NoAccount
    BY SMT, <1>5, <2>1 DEF DisconnectClaimed, Protected, NoAccount
  <2> HIDE DEF a
  <2> QED
    BY <2>1, <2>2 DEF AccountsStay, AccountMoves, Protected
<1> QED
  <2>1. \A s \in Sessions :
           (\E a \in Accounts : CreateSession(s, a)) \/ ExpirePending(s) \/ ClaimCallback(s)
              \/ TaskStep(s) \/ Vanish(s) => UNCHANGED account \/ Completes(s)
    BY ZenonT(30) DEF CreateSession, ExpirePending, ClaimCallback, TaskStep, Vanish, Preflight,
       FailAuthorization, Exchange, Hold, Identify, Stage, Complete, Completes, Abandon,
       GuardianHold, GuardianRelease, GuardianClaim, GuardianRevoke, GuardianComplete
  <2>2. /\ BeginPass \/ RecoverStartup \/ UNCHANGED vars => UNCHANGED account
        /\ ReconcileStaged => \E s \in Sessions : Completes(s)
    BY DEF BeginPass, ReconcileStaged, Completes, RecoverStartup, vars
  <2>3. \A r \in Reconcilers :
           ClaimCleanup(r) \/ CleanupRevoke(r) \/ CompleteCleanup(r) \/ FailCleanup(r)
              \/ DeferCleanup(r) \/ ReconcilerVanishes(r) => UNCHANGED account
    BY DEF ClaimCleanup, CleanupRevoke, CompleteCleanup, FailCleanup, DeferCleanup,
       ReconcilerVanishes
  <2>4. \A d \in Requests :
           /\ DisconnectRevoke(d) \/ DisconnectVanishes(d) => UNCHANGED account
           /\ CompleteDisconnect(d) \/ FailDisconnect(d)
                => UNCHANGED account \/ DisconnectClaimed(d)
    BY DEF DisconnectRevoke, CompleteDisconnect, FailDisconnect, DisconnectVanishes
  <2> QED
    BY <1>1, <1>2, <1>3, <1>4, <1>5, <2>1, <2>2, <2>3, <2>4 DEF Next

\* What a step that completes no request makes of the row of a session.
Stays(u) ==
    /\ SameRequest(session'[u], session[u])
    /\ \/ session'[u].status = session[u].status
       \/ session'[u].status = "failed" /\ session[u].status \notin {"none", "consumed"}
\* The session is created.
Created(u) ==
    /\ session[u].status = "none" /\ session'[u].status = "pending"
    /\ session'[u].token = 0 /\ session'[u].retired = {} /\ ~session'[u].reuse
    /\ session'[u].reauth \/ session'[u].account = u
\* Its callback is claimed.
Claims(u) ==
    LET old == account[session[u].account]
    IN /\ UNCHANGED account /\ ExpectedAccount(u) /\ Moves(u, "claimed")
       /\ session[u].status = "pending" /\ session'[u].status = "exchanging"
       /\ session'[u].account = session[u].account
       /\ session'[u].reauth = session[u].reauth
       /\ session'[u].reuse = (old.status = "active")
       /\ session'[u].token = old.token /\ session'[u].retired = old.retired
\* Its request is staged.
Stages(u) ==
    /\ UNCHANGED <<account, grant>> /\ CompletionFits(u) /\ StageFits(u)
    /\ task[u].pc = "stage" /\ session'[u].status = "staged"
    /\ session'[u].account = session[u].account
    /\ session'[u].reauth = session[u].reauth
    /\ session'[u].reuse = session[u].reuse
    /\ session'[u].current = session[u].current
    /\ session'[u].token = IF Fresh(u) THEN u ELSE session[u].token
    /\ session'[u].retired =
          IF Fresh(u) /\ session[u].reauth
          THEN session[u].retired \cup {session[u].token} ELSE session[u].retired

\* The actions that change a session, apart from complete_staged.
LEMMA SessionFrame ==
    ASSUME TypeOK, [Next]_vars, \A s \in Sessions : ~Completes(s)
    PROVE  \/ UNCHANGED session
           \/ \E s \in Sessions, a \in Accounts : CreateSession(s, a)
           \/ \E s \in Sessions :
                 \/ ExpirePending(s) \/ ClaimCallback(s) \/ FailAuthorization(s)
                 \/ Stage(s) \/ Abandon(s) \/ GuardianComplete(s)
           \/ RecoverStartup \/ OperatorRecovery
           \/ \E a \in Accounts : session' = Drift(session, {a})
<1> USE DEF google, store
<1>1. \A s \in Sessions :
         /\ Vanish(s) \/ Preflight(s) \/ Exchange(s) \/ Hold(s) \/ Identify(s) \/ GuardianHold(s)
              \/ GuardianRelease(s) \/ GuardianClaim(s) \/ GuardianRevoke(s)
              => UNCHANGED session
         /\ Complete(s) => UNCHANGED session \/ Completes(s)
  BY DEF Vanish, Preflight, Exchange, Hold, Identify, Complete, Completes,
     GuardianHold, GuardianRelease, GuardianClaim, GuardianRevoke
<1>2. /\ BeginPass \/ UNCHANGED vars => UNCHANGED session
      /\ ReconcileStaged => \E s \in Sessions : Completes(s)
  BY DEF BeginPass, ReconcileStaged, Completes, vars
<1>3. \A r \in Reconcilers :
         ClaimCleanup(r) \/ CleanupRevoke(r) \/ CompleteCleanup(r) \/ FailCleanup(r)
            \/ DeferCleanup(r) \/ ReconcilerVanishes(r) => UNCHANGED session
  BY DEF ClaimCleanup, CleanupRevoke, CompleteCleanup, FailCleanup, DeferCleanup,
     ReconcilerVanishes
<1>4. \A d \in Requests :
         (\E a \in Accounts : ClaimDisconnect(d, a)) \/ DisconnectRevoke(d)
            \/ CompleteDisconnect(d) \/ FailDisconnect(d) \/ DisconnectVanishes(d)
            => UNCHANGED session \/ \E a \in Accounts : session' = Drift(session, {a})
  <2>1. \A d \in Requests : disc[d].account \in Accounts
    BY DEF TypeOK, Handler
  <2> QED
    BY <2>1 DEF ClaimDisconnect, DisconnectRevoke, CompleteDisconnect, FailDisconnect,
       DisconnectVanishes
<1> QED
  BY <1>1, <1>2, <1>3, <1>4 DEF Next, TaskStep

\* What a step makes of a session is one of these.
LEMMA SessionStep ==
    ASSUME FenceInv, [Next]_vars, \A s \in Sessions : ~Completes(s), NEW u \in Sessions
    PROVE  Stays(u) \/ Created(u) \/ Claims(u) \/ Stages(u)
<1> USE DEF google, store
<1>t. TypeOK /\ session \in [Sessions -> SessionRow]
  BY DEF FenceInv, TypeOK
<1>r. SameRequest(session[u], session[u])
  BY DEF SameRequest
<1>1. ASSUME session'[u] = session[u] PROVE Stays(u)
  BY <1>1, <1>r DEF Stays
<1>2. ASSUME NEW s \in Sessions, NEW a \in Accounts, CreateSession(s, a)
      PROVE  Stays(u) \/ Created(u)
  <2>1. session[s].status = "none"
    BY <1>2 DEF CreateSession
  <2>2. CASE u = s
    <3>1. /\ session'[s].status = "pending" /\ session'[s].account = a
          /\ session'[s].reauth = (a # s) /\ session'[s].reuse = FALSE
          /\ session'[s].token = 0 /\ session'[s].retired = {}
      BY <1>2, <1>t, CreateSessionIs
    <3> QED
      BY <2>1, <2>2, <3>1 DEF Created
  <2>3. CASE u # s
    <3>1. /\ SameRequest(session'[u], session[u])
          /\ session'[u].status = IF session[u].status = "pending" THEN "failed"
                                                                 ELSE session[u].status
      BY <1>2, <1>t, <2>3, CreateSessionIs
    <3> QED
      BY <3>1 DEF Stays
  <2> QED
    BY <2>2, <2>3
<1>3. ASSUME NEW s \in Sessions, ExpirePending(s) PROVE Stays(u)
  <2>1. session' = Fail(session, s) /\ session[s].status = "pending"
    BY <1>3 DEF ExpirePending
  <2> QED
    BY <1>t, <2>1, FailIs DEF Stays
<1>4. ASSUME NEW s \in Sessions, ClaimCallback(s) PROVE Stays(u) \/ Claims(u)
  <2>1. UNCHANGED account /\ session[s].status = "pending"
    BY <1>4 DEF ClaimCallback
  <2>2. CASE u = s
    BY <1>4, <1>t, <2>1, <2>2, ClaimCallbackIs DEF Claims, Stays
  <2>3. CASE u # s
    BY <1>1, <1>4, <1>t, <2>3, ClaimCallbackIs
  <2> QED
    BY <2>2, <2>3
<1>5. ASSUME NEW s \in Sessions, FailAuthorization(s) \/ Abandon(s) PROVE Stays(u)
  <2>1. \/ session' = session
        \/ session' = Fail(session, s) /\ session[s].status \in {"exchanging", "staged"}
    BY <1>5 DEF FailAuthorization, Abandon
  <2> QED
    BY SMT, <1>1, <1>t, <2>1, FailIs DEF Stays
<1>6. ASSUME NEW s \in Sessions, Stage(s) PROVE Stays(u) \/ Stages(u)
  <2>1. UNCHANGED <<account, grant>> /\ task[s].pc = "stage"
    BY <1>6 DEF Stage
  <2>2. CASE u = s
    BY <1>1, <1>6, <1>t, <2>1, <2>2, StageIs DEF Stages
  <2>3. CASE u # s
    BY <1>1, <1>6, <1>t, <2>3, StageIs
  <2> QED
    BY <2>2, <2>3
<1>7. ASSUME NEW s \in Sessions, GuardianComplete(s) PROVE Stays(u)
  <2>1. session' = session \/ session' = FailedSession(session, s)
    BY <1>7 DEF GuardianComplete
  <2> QED
    BY SMT, <1>1, <1>t, <2>1, FailedSessionIs DEF Stays
<1>8. CASE RecoverStartup
  <2>1. /\ SameRequest(session'[u], session[u])
        /\ \/ session'[u].status = session[u].status
           \/ /\ session'[u].status = "failed"
              /\ session[u].status \in {"pending", "exchanging"}
    BY <1>8, <1>t, RecoverStartupIs
  <2> QED
    BY <2>1 DEF Stays
<1>9. CASE OperatorRecovery
  <2>1. /\ SameRequest(session'[u], session[u])
        /\ session'[u].status =
              IF u = fence.owner /\ session[u].status \in {"pending", "exchanging"}
              THEN "failed" ELSE session[u].status
    BY <1>9, <1>t, OperatorRecoveryIs
  <2> QED
    BY <2>1 DEF Stays
<1>10. ASSUME NEW a \in Accounts, session' = Drift(session, {a}) PROVE Stays(u)
  BY SMT, <1>10, <1>t, DriftIs DEF Stays
<1> QED
  BY <1>1, <1>2, <1>3, <1>4, <1>5, <1>6, <1>7, <1>8, <1>9, <1>10, <1>t, SessionFrame

(***************************************************************************)
(* The tokens of accounts and sessions                                     *)
(***************************************************************************)
\* The tokens an account keeps, the current one and the retired ones.
Owned(a) == {account[a].token} \cup account[a].retired

\* The tokens of an account speak for one subject, and two accounts that are
\* kept have different ones.
OwnerInv ==
    /\ \A a \in Accounts, t \in Tokens : t \in Owned(a) =>
          Issued(t) /\ subject[t] = subject[account[a].token]
    /\ \A a, b \in Protected :
          subject[account[a].token] = subject[account[b].token] => a = b

\* A session holds tokens of one subject; it is for a new account, which does
\* not exist before it is consumed, or for one to be authorized again.
RequestInv ==
    \A s \in Sessions :
        /\ \A t \in {session[s].token} \cup session[s].retired :
              Issued(t) /\ subject[t] = subject[session[s].token]
        /\ session[s].status # "consumed" => account[s] = NoAccount
        /\ ~session[s].reauth => session[s].retired = {} /\ ~session[s].reuse
        /\ ~session[s].reauth /\ session[s].status # "none" => session[s].account = s

\* What stage_authorization checked stays true until complete_staged uses it.
\* A request that is not late still has the credentials the account has, and
\* what is staged contains all of them.  No other account is kept on the
\* subject.  When the new token was revoked, so was the account's.
StageInv ==
    \A s \in Sessions :
        LET row == session[s]
            a == session[s].account
        IN /\ row.status = "exchanging" /\ row.reauth /\ row.current =>
                 row.token = account[a].token /\ row.retired = account[a].retired
           /\ row.status = "staged" =>
                 /\ subject[row.token] = subject[s]
                 /\ grant[s] # "none" => row.token = s
                 /\ \A b \in Protected \ {a} : subject[account[b].token] # subject[s]
           /\ row.status = "staged" /\ row.reauth /\ row.current =>
                 /\ grant[s] = "none" => row.token = account[a].token
                 /\ Owned(a) \subseteq {row.token} \cup row.retired
                 /\ subject[account[a].token] = subject[s]
           /\ row.status \in {"exchanging", "staged"} /\ row.reauth /\ row.current
                /\ grant[s] = "revoked" /\ subject[account[a].token] = subject[s]
                => grant[account[a].token] # "valid"

\* What the accounts and the sessions say of the tokens.
CustodyInv == FenceInv /\ OwnerInv /\ RequestInv /\ StageInv

\* The types of the tokens and accounts that rows name.
LEMMA TokenTypes ==
    ASSUME TypeOK
    PROVE  /\ Sessions \subseteq Tokens /\ Accounts = Tokens /\ 0 \notin Sessions
           /\ \A a \in Accounts : Owned(a) \subseteq Tokens /\ account[a].token \in Tokens
           /\ \A s \in Sessions :
                 /\ session[s].token \in Tokens /\ session[s].retired \subseteq Tokens
                 /\ session[s].account \in Accounts
                 /\ session[s].reauth \in BOOLEAN /\ session[s].reuse \in BOOLEAN
                 /\ session[s].current \in BOOLEAN
<1>1. Sessions \subseteq Tokens /\ Accounts = Tokens /\ 0 \notin Sessions
  BY SessionsAreNumbered DEF Tokens, Accounts
<1>2. \A a \in Accounts : account[a] \in AccountRow
  BY DEF TypeOK
<1>3. \A s \in Sessions : session[s] \in SessionRow
  BY DEF TypeOK
<1>4. \A a \in Accounts : Owned(a) \subseteq Tokens /\ account[a].token \in Tokens
  BY <1>2 DEF AccountRow, Owned
<1> QED
  BY <1>1, <1>3, <1>4 DEF SessionRow

\* Every action keeps the accounts apart.
LEMMA OwnerStep == ASSUME CustodyInv, [Next]_vars PROVE OwnerInv'
<1>i. FenceInv /\ OwnerInv /\ RequestInv /\ StageInv /\ TypeOK
  BY DEF CustodyInv, FenceInv
<1>s. subject' = subject /\ \A t \in Tokens : Issued(t) => Issued(t)'
  BY <1>i, SubjectStep, IssuedStep
<1>1. CASE \A s \in Sessions : ~Completes(s)
  <2>1. AccountsStay
    BY <1>1, <1>i, AccountStep
  <2>2. \A a \in Accounts : account'[a].token = account[a].token /\ Owned(a)' \subseteq Owned(a)
    BY <2>1 DEF AccountsStay, Owned
  <2>3. \A a \in Protected' : a \in Protected
    BY <2>1 DEF AccountsStay, Protected
  <2>4. \A a \in Protected : a \in Accounts
    BY DEF Protected
  <2> QED
    BY SMT, <1>i, <1>s, <2>2, <2>3, <2>4 DEF OwnerInv
<1>2. ASSUME NEW s \in Sessions, Completes(s) PROVE OwnerInv'
  <2>0. PICK a \in Accounts : a = session[s].account
    BY <1>i, TokenTypes
  <2>1. /\ account'[a].status = "active"
        /\ account'[a].token = session[s].token
        /\ account'[a].retired = session[s].retired
        /\ \A b \in Accounts \ {a} : account'[b] = account[b]
    BY <1>2, <1>i, <2>0, CompleteStagedIs DEF Completes
  <2>2. session[s].status = "staged"
    BY <1>2 DEF Completes, CompleteStaged
  <2>3. /\ subject[session[s].token] = subject[s]
        /\ \A b \in Protected \ {a} : subject[account[b].token] # subject[s]
    BY <1>i, <2>0, <2>2 DEF StageInv
  <2>4. \A t \in {session[s].token} \cup session[s].retired :
           Issued(t) /\ subject[t] = subject[session[s].token]
    BY <1>i DEF RequestInv
  <2>5. Owned(a)' = {session[s].token} \cup session[s].retired
    BY <2>1 DEF Owned
  <2>6. \A b \in Accounts \ {a} : Owned(b)' = Owned(b)
    BY <2>1 DEF Owned
  <2>7. \A b \in Protected' : b = a \/ b \in Protected \ {a}
    BY <2>1 DEF Protected
  <2>8. \A b \in Accounts, t \in Tokens : t \in Owned(b)' =>
           Issued(t)' /\ subject'[t] = subject'[account'[b].token]
    BY SMTT(30), <1>i, <1>s, <2>1, <2>4, <2>5, <2>6 DEF OwnerInv
  <2>9. \A b, c \in Protected' :
           subject'[account'[b].token] = subject'[account'[c].token] => b = c
    <3>1. \A b \in Protected \ {a} : b \in Accounts \ {a}
      BY DEF Protected
    <3> QED
      BY SMT, <1>i, <1>s, <2>1, <2>3, <2>7, <3>1 DEF OwnerInv
  <2> QED
    BY <2>8, <2>9 DEF OwnerInv
<1> QED
  BY <1>1, <1>2

\* Every action keeps the tokens of a session together.
LEMMA RequestStep == ASSUME CustodyInv, [Next]_vars PROVE RequestInv'
<1>i. FenceInv /\ OwnerInv /\ RequestInv /\ StageInv /\ TypeOK
  BY DEF CustodyInv, FenceInv
<1>s. subject' = subject /\ \A t \in Tokens : Issued(t) => Issued(t)'
  BY <1>i, SubjectStep, IssuedStep
<1>tt. /\ Sessions \subseteq Tokens /\ Accounts = Tokens /\ 0 \notin Sessions
       /\ \A a \in Accounts : Owned(a) \subseteq Tokens
       /\ \A u \in Sessions :
             /\ session[u].token \in Tokens /\ session[u].retired \subseteq Tokens
             /\ session[u].account \in Accounts
  BY <1>i, TokenTypes
<1>1. ASSUME \A s \in Sessions : ~Completes(s) PROVE RequestInv'
  <2>1. \A a \in Accounts : account[a] = NoAccount => account'[a] = NoAccount
    BY <1>1, <1>i, AccountStep DEF AccountsStay
  <2> SUFFICES ASSUME NEW u \in Sessions
               PROVE  /\ \A t \in {session'[u].token} \cup session'[u].retired :
                            Issued(t)' /\ subject[t] = subject[session'[u].token]
                      /\ session'[u].status # "consumed" => account'[u] = NoAccount
                      /\ ~session'[u].reauth => session'[u].retired = {} /\ ~session'[u].reuse
                      /\ ~session'[u].reauth /\ session'[u].status # "none"
                           => session'[u].account = u
    BY <1>s DEF RequestInv
  <2>2. CASE Stays(u)
    BY SMT, <1>i, <1>s, <1>tt, <2>1, <2>2 DEF RequestInv, Stays, SameRequest
  <2>3. CASE Created(u)
    BY <1>i, <1>tt, <2>1, <2>3 DEF RequestInv, Created, Issued
  <2>4. CASE Claims(u)
    <3> DEFINE old == account[session[u].account]
    <3>1. /\ session[u].status = "pending" /\ account' = account
          /\ session'[u].account = session[u].account
          /\ session'[u].reauth = session[u].reauth
          /\ session'[u].reuse = (old.status = "active")
          /\ session'[u].token = old.token /\ session'[u].retired = old.retired
      BY <2>4 DEF Claims
    <3>2. \A t \in {old.token} \cup old.retired : Issued(t) /\ subject[t] = subject[old.token]
      BY <1>i, <1>tt DEF OwnerInv, Owned
    <3>3. ~session[u].reauth => old = NoAccount
      BY <1>i, <3>1 DEF RequestInv
    <3>4. NoAccount.retired = {} /\ NoAccount.status # "active"
      BY DEF NoAccount
    <3>5. \A t \in {old.token} \cup old.retired : t \in Tokens
      BY <1>tt DEF Owned
    <3> HIDE DEF old
    <3> QED
      BY ZenonT(30), <1>i, <1>s, <3>1, <3>2, <3>3, <3>4, <3>5 DEF RequestInv
  <2>5. CASE Stages(u)
    <3>1. Issued(u) /\ session[u].status = "exchanging" /\ account' = account
      BY <2>5 DEF Stages, Issued, Unissued, StageFits
    <3>2. session[u].reauth => subject[u] = subject[session[u].token]
      BY <2>5 DEF Stages, CompletionFits
    <3>3. /\ session'[u].account = session[u].account
          /\ session'[u].reauth = session[u].reauth
          /\ session'[u].reuse = session[u].reuse
          /\ session'[u].token = IF Fresh(u) THEN u ELSE session[u].token
          /\ session'[u].retired =
                IF Fresh(u) /\ session[u].reauth
                THEN session[u].retired \cup {session[u].token} ELSE session[u].retired
      BY <2>5 DEF Stages
    <3> QED
      BY SMT, <1>i, <1>s, <1>tt, <3>1, <3>2, <3>3 DEF RequestInv
  <2> QED
    BY <1>1, <1>i, <2>2, <2>3, <2>4, <2>5, SessionStep
<1>2. ASSUME NEW s \in Sessions, Completes(s) PROVE RequestInv'
  <2> DEFINE a == session[s].account
  <2>1. /\ a \in Accounts
        /\ \A u \in Sessions :
              /\ SameRequest(session'[u], session[u])
              /\ session'[u].status = IF u = s THEN "consumed" ELSE session[u].status
        /\ \A b \in Accounts \ {a} : account'[b] = account[b]
    BY SMT, <1>2, <1>i, CompleteStagedIs DEF Completes
  <2>2. session[s].status = "staged" /\ ExpectedAccount(s)
    BY <1>2 DEF Completes, CompleteStaged
  <2>3. a = s \/ account[a] # NoAccount
    BY SMT, <1>i, <2>2 DEF RequestInv, ExpectedAccount, Protected, NoAccount
  <2> HIDE DEF a
  <2> QED
    BY SMTT(30), <1>i, <1>s, <1>tt, <2>1, <2>2, <2>3 DEF RequestInv, SameRequest
<1> QED
  BY <1>1, <1>2

\* Every action keeps what was checked when a request was staged.
LEMMA StageStep == ASSUME CustodyInv, [Next]_vars PROVE StageInv'
<1>i. FenceInv /\ OwnerInv /\ RequestInv /\ StageInv /\ TypeOK /\ LifeInv
  BY DEF CustodyInv, FenceInv
<1>s. subject' = subject /\ GrantsOnlyEnd
  BY <1>i, SubjectStep, GrantStep
<1>tt. /\ Sessions \subseteq Tokens /\ Accounts = Tokens
       /\ \A a \in Accounts : Owned(a) \subseteq Tokens /\ account[a].token \in Tokens
       /\ \A u \in Sessions :
             session[u].token \in Tokens /\ session[u].account \in Accounts
  BY <1>i, TokenTypes
<1>1. ASSUME \A s \in Sessions : ~Completes(s) PROVE StageInv'
  <2>1. AccountsStay
    BY <1>1, <1>i, AccountStep
  <2>2. \A b \in Protected' : b \in Protected /\ b \in Accounts
    BY <2>1 DEF AccountsStay, Protected
  <2> SUFFICES ASSUME NEW u \in Sessions, NEW a \in Accounts, a = session'[u].account
               PROVE  /\ session'[u].status = "exchanging" /\ session'[u].reauth
                            /\ session'[u].current =>
                            /\ session'[u].token = account'[a].token
                            /\ session'[u].retired = account'[a].retired
                      /\ session'[u].status = "staged" =>
                            /\ subject[session'[u].token] = subject[u]
                            /\ grant'[u] # "none" => session'[u].token = u
                            /\ \A b \in Protected' \ {a} : subject[account'[b].token] # subject[u]
                      /\ session'[u].status = "staged" /\ session'[u].reauth
                            /\ session'[u].current =>
                            /\ grant'[u] = "none" => session'[u].token = account'[a].token
                            /\ Owned(a)' \subseteq {session'[u].token} \cup session'[u].retired
                            /\ subject[account'[a].token] = subject[u]
                      /\ session'[u].status \in {"exchanging", "staged"} /\ session'[u].reauth
                            /\ session'[u].current /\ grant'[u] = "revoked"
                            /\ subject[account'[a].token] = subject[u]
                            => grant'[account'[a].token] # "valid"
    <3>1. \A u \in Sessions : session'[u].account \in Accounts
      BY SMT, <1>i, TypeStep DEF TypeOK, SessionRow
    <3> QED
      BY SMTT(30), <1>s, <3>1 DEF StageInv, Owned
  <2>3. CASE Stays(u)
    <3>1. /\ session[u].account = a /\ session'[u].reauth = session[u].reauth
          /\ session'[u].token = session[u].token /\ session'[u].retired = session[u].retired
          /\ session'[u].current => session[u].current
          /\ session'[u].status \in {"exchanging", "staged"}
                => session'[u].status = session[u].status
      BY <2>3 DEF Stays, SameRequest
    <3>2. /\ account'[a].token = account[a].token
          /\ account'[a].retired \in {account[a].retired, {}}
          /\ session[u].reauth /\ session'[u].current => account'[a].retired = account[a].retired
      BY <2>1, <3>1 DEF AccountsStay, Ends
    <3>3. Issued(u) => (grant'[u] = "none" <=> grant[u] = "none")
      BY <1>s, <1>tt DEF GrantsOnlyEnd
    <3>4. session[u].status = "staged" => Issued(u)
      BY <1>i DEF LifeInv
    <3>5. \A b \in Protected' : b \in Protected /\ account'[b].token = account[b].token
      BY <2>1, <2>2 DEF AccountsStay
    <3>6. Issued(account[a].token)
      BY <1>i, <1>tt DEF OwnerInv, Owned
    <3>7. Owned(a)' \subseteq Owned(a)
      BY <3>2 DEF Owned
    <3>8. grant'[account[a].token] = "valid" => grant[account[a].token] = "valid"
      BY <1>s, <1>tt, <3>6 DEF GrantsOnlyEnd
    <3>9. grant'[u] = "revoked" =>
            \/ grant[u] = "revoked"
            \/ \A t \in Tokens : subject[t] = subject[u] => grant'[t] # "valid"
      <4>1. grant[u] \in {"none", "valid", "revoked"}
        BY <1>i, <1>tt DEF TypeOK
      <4> QED
        BY <1>s, <1>tt, <4>1 DEF GrantsOnlyEnd
    <3>10. /\ session[u].status = "exchanging" /\ session[u].reauth /\ session[u].current =>
                 session[u].token = account[a].token /\ session[u].retired = account[a].retired
           /\ session[u].status = "staged" =>
                 /\ subject[session[u].token] = subject[u]
                 /\ grant[u] # "none" => session[u].token = u
                 /\ \A b \in Protected \ {a} : subject[account[b].token] # subject[u]
           /\ session[u].status = "staged" /\ session[u].reauth /\ session[u].current =>
                 /\ grant[u] = "none" => session[u].token = account[a].token
                 /\ Owned(a) \subseteq {session[u].token} \cup session[u].retired
                 /\ subject[account[a].token] = subject[u]
           /\ session[u].status \in {"exchanging", "staged"} /\ session[u].reauth
                /\ session[u].current /\ grant[u] = "revoked"
                /\ subject[account[a].token] = subject[u]
                => grant[account[a].token] # "valid"
      <4>1. StageInv /\ session[u].account = a
        BY <1>i, <3>1
      <4> QED
        BY SMT, <4>1 DEF StageInv
    <3>11. session'[u].status = "exchanging" /\ session'[u].reauth /\ session'[u].current =>
             session'[u].token = account'[a].token /\ session'[u].retired = account'[a].retired
      BY <3>1, <3>2, <3>10
    <3>12. session'[u].status = "staged" =>
             /\ subject[session'[u].token] = subject[u]
             /\ grant'[u] # "none" => session'[u].token = u
             /\ \A b \in Protected' \ {a} : subject[account'[b].token] # subject[u]
      BY <3>1, <3>3, <3>4, <3>5, <3>10
    <3>13. session'[u].status = "staged" /\ session'[u].reauth /\ session'[u].current =>
             /\ grant'[u] = "none" => session'[u].token = account'[a].token
             /\ Owned(a)' \subseteq {session'[u].token} \cup session'[u].retired
             /\ subject[account'[a].token] = subject[u]
      BY <3>1, <3>2, <3>3, <3>4, <3>7, <3>10
    <3>14. session'[u].status \in {"exchanging", "staged"} /\ session'[u].reauth
             /\ session'[u].current /\ grant'[u] = "revoked"
             /\ subject[account'[a].token] = subject[u]
             => grant'[account'[a].token] # "valid"
      BY <1>tt, <3>1, <3>2, <3>8, <3>9, <3>10
    <3> QED
      BY <3>11, <3>12, <3>13, <3>14
  <2>4. CASE Created(u)
    BY <2>4 DEF Created
  <2>5. CASE Claims(u)
    <3>1. grant[u] = "none"
      BY <1>i, <2>5 DEF LifeInv, Claims, Unissued
    <3>2. grant'[u] # "revoked"
      BY <1>s, <1>tt, <3>1 DEF GrantsOnlyEnd
    <3> QED
      BY <2>5, <3>2 DEF Claims
  <2>6. CASE Stages(u)
    <3>1. /\ session[u].status = "exchanging" /\ session'[u].status = "staged"
          /\ session[u].account = a /\ UNCHANGED <<account, grant>>
          /\ session'[u].reauth = session[u].reauth /\ session'[u].current = session[u].current
          /\ session'[u].token = IF Fresh(u) THEN u ELSE session[u].token
          /\ session'[u].retired =
                IF Fresh(u) /\ session[u].reauth
                THEN session[u].retired \cup {session[u].token} ELSE session[u].retired
      BY <2>6 DEF Stages, StageFits
    <3>2. /\ session[u].reauth => subject[u] = subject[session[u].token]
          /\ grant[u] # "none" \/ session[u].reuse
          /\ Fresh(u) <=> grant[u] # "none"
      BY <2>6 DEF Stages, CompletionFits, Fresh
    <3>3. /\ session[u].reauth => subject[account[a].token] = subject[u]
          /\ \A b \in Protected \ {a} : subject[account[b].token] # subject[u]
      BY <2>6, <3>1 DEF Stages, StageFits
    <3>4. session[u].reuse => session[u].reauth
      BY <1>i DEF RequestInv
    <3>5. \A b \in Protected' : b \in Protected /\ account'[b].token = account[b].token
      BY <2>2, <3>1
    <3>6. /\ session[u].reauth /\ session[u].current =>
                session[u].token = account[a].token /\ session[u].retired = account[a].retired
          /\ session[u].reauth /\ session[u].current /\ grant[u] = "revoked"
                /\ subject[account[a].token] = subject[u] => grant[account[a].token] # "valid"
      BY <1>i, <3>1, SMTT(30) DEF StageInv
    <3>7. Owned(a)' = {account[a].token} \cup account[a].retired
      BY <3>1 DEF Owned
    <3> QED
      BY <3>1, <3>2, <3>3, <3>4, <3>5, <3>6, <3>7
  <2> QED
    BY <1>1, <1>i, <2>3, <2>4, <2>5, <2>6, SessionStep
<1>2. ASSUME NEW s \in Sessions, Completes(s) PROVE StageInv'
  <2>1. session[s].status = "staged"
    BY <1>2 DEF Completes, CompleteStaged
  <2>2. \A u \in Sessions : session'[u].status = IF u = s THEN "consumed" ELSE session[u].status
    BY SMTT(30), <1>2, <1>i, CompleteStagedIs DEF Completes
  <2>3. \A u \in Sessions : session'[u].status \notin {"exchanging", "staged"}
    BY SMT, <1>i, <2>1, <2>2 DEF LifeInv, Open
  <2> QED
    BY <2>3 DEF StageInv
<1> QED
  BY <1>1, <1>2

(***************************************************************************)
(* The revocations that are out                                            *)
(***************************************************************************)
\* A handler revokes tokens of its account only, and those it is done with do
\* not work as long as the claim is its own.
Handles(d) ==
    LET a == disc[d].account
    IN /\ disc[d].pc = "revoke" => disc[d].todo \subseteq Owned(a)
       /\ disc[d].pc = "complete" => disc[d].todo = {}
       /\ disc[d].pc \in {"revoke", "complete"} /\ FenceIs("disconnect", a, disc[d].claim) =>
             \A t \in Owned(a) \ disc[d].todo : grant[t] # "valid"

\* Whoever has a revocation request out may send it: no account is kept when
\* a guardian does, none of the subject when a pass does.
RevokeInv ==
    /\ \A s \in Sessions : task[s].pc = "gRevoke" => Protected = {}
    /\ \A r \in Reconcilers : rec[r].pc = "revoke" =>
          \A a \in Protected : subject[account[a].token] # subject[rec[r].token]
    /\ \A d \in Requests : Handles(d)

\* A guardian comes to send a revocation request only when no account is kept.
LEMMA GuardianCases ==
    ASSUME FenceInv, [Next]_vars, NEW s \in Sessions, task'[s].pc = "gRevoke"
    PROVE  task[s].pc = "gRevoke" \/ Protected = {}
<1> USE DEF store, google
<1>ty. TypeOK /\ task \in [Sessions -> Callback]
  BY DEF FenceInv, TypeOK
<1>1. CASE UNCHANGED task
  BY <1>1
<1>2. ASSUME NEW u \in Sessions, NEW pc \in Pcs \ {"gRevoke"}, Goto(u, pc)
      PROVE  task[s].pc = "gRevoke"
  BY <1>2, <1>ty, GotoIs DEF Moves
<1>3. ASSUME NEW u \in Sessions, GuardianClaim(u)
      PROVE  task[s].pc = "gRevoke" \/ Protected = {}
  BY <1>3, <1>ty DEF GuardianClaim, Callback
<1> QED
  <2>1. \A u \in Sessions :
           \/ ~(ClaimCallback(u) \/ Vanish(u) \/ TaskStep(u))
           \/ UNCHANGED task \/ GuardianClaim(u)
           \/ \E pc \in Pcs \ {"gRevoke"} : Goto(u, pc)
    BY SMT DEF ClaimCallback, TaskStep, Vanish, Preflight,
       FailAuthorization, Exchange, Hold, Identify, Stage, Complete, Abandon, GuardianHold,
       GuardianRelease, GuardianRevoke, GuardianComplete, Pcs
  <2> QED
    BY <1>1, <1>2, <1>3, <2>1, TaskFrame

\* A pass comes to send one only for a subject without an account, and to
\* complete one only when the token has ended.
LEMMA PassCases ==
    ASSUME FenceInv, [Next]_vars, NEW r \in Reconcilers
    PROVE  /\ rec'[r].pc = "revoke" =>
                \/ rec[r].pc = "revoke" /\ rec'[r].token = rec[r].token
                \/ \A a \in Protected : subject[account[a].token] # subject[rec'[r].token]
           /\ rec'[r].pc = "complete" =>
                \/ rec[r].pc = "complete" /\ rec'[r].token = rec[r].token
                \/ grant'[rec'[r].token] # "valid"
<1> USE DEF store, google
<1>t. TypeOK /\ grant \in [Tokens -> {"none", "valid", "revoked"}]
  BY DEF FenceInv, TypeOK
<1>1. CASE UNCHANGED rec
  BY <1>1
<1>2. ASSUME NEW q \in Reconcilers, ClaimCleanup(q), rec'[r] # rec[r]
      PROVE  /\ rec'[r].pc # "complete"
             /\ rec'[r].pc = "revoke" =>
                   \A a \in Protected : subject[account[a].token] # subject[rec'[r].token]
  <2>1. q = r
    BY <1>2, <1>t, ClaimCleanupIs
  <2>2. PICK s \in Sessions : rec'[r].token = s /\ rec'[r].pc \in {"fail", Verdict(s)}
    BY <1>2, <1>t, <2>1, ClaimCleanupIs
  <2>3. /\ Verdict(s) # "complete"
        /\ Verdict(s) = "revoke" => \A a \in Protected : subject[account[a].token] # subject[s]
    BY DEF Verdict, Retained
  <2> QED
    BY <2>2, <2>3
<1>3. ASSUME NEW q \in Reconcilers, CleanupRevoke(q), rec'[r] # rec[r]
      PROVE  /\ rec'[r].pc # "revoke"
             /\ rec'[r].pc = "complete" => grant'[rec'[r].token] # "valid"
  <2>1. q = r
    BY <1>3, <1>t, CleanupRevokeIs
  <2>2. /\ rec'[r].token = rec[r].token /\ rec[r].token \in Tokens
        /\ \/ Revoke(rec[r].token) /\ rec'[r].pc \in {"complete", "fail"}
           \/ rec'[r].pc = "fail"
    BY <1>3, <1>t, <2>1, CleanupRevokeIs
  <2> QED
    BY <1>t, <2>2, RevokeIs
<1>4. ASSUME NEW q \in Reconcilers, Rest(q), rec'[r] # rec[r] PROVE rec'[r].pc = "idle"
  BY <1>4, <1>t, RestIs
<1> QED
  <2>1. \A q \in Reconcilers :
           CompleteCleanup(q) \/ FailCleanup(q) \/ DeferCleanup(q) \/ ReconcilerVanishes(q)
              => Rest(q)
    BY DEF CompleteCleanup, FailCleanup, DeferCleanup, ReconcilerVanishes
  <2>2. CASE rec'[r] = rec[r]
    BY <2>2
  <2>3. CASE rec'[r] # rec[r]
    BY <1>1, <1>2, <1>3, <1>4, <2>1, <2>3, PassFrame
  <2> QED
    BY <2>2, <2>3

\* Every step, sorted by what it does to the handlers; only claim_disconnect
\* sets their fence.
LEMMA HandlerCases ==
    ASSUME FenceInv, [Next]_vars
    PROVE  \/ UNCHANGED disc /\ (fence' = fence \/ fence'.kind # "disconnect")
           \/ \E d \in Requests, a \in Accounts : ClaimDisconnect(d, a)
           \/ \E d \in Requests : DisconnectRevoke(d)
           \/ \E d \in Requests : Leave(d) /\ (fence' = fence \/ fence' = NoFence)
<1> USE DEF store, google
<1>t. TypeOK
  BY DEF FenceInv
<1>0. NoFence.kind # "disconnect" /\ \A s \in Sessions : GuardianFence(s).kind # "disconnect"
  BY DEF NoFence, GuardianFence
<1>1. \A s \in Sessions :
         (\E a \in Accounts : CreateSession(s, a)) \/ ExpirePending(s) \/ ClaimCallback(s)
            \/ TaskStep(s) \/ Vanish(s)
            => UNCHANGED disc /\ (fence' = fence \/ fence'.kind # "disconnect")
  <2>1. \A s \in Sessions :
           \/ GuardianRelease(s) \/ GuardianClaim(s) \/ GuardianComplete(s)
           \/ (\E a \in Accounts : CreateSession(s, a)) \/ ExpirePending(s) \/ ClaimCallback(s)
                \/ TaskStep(s) \/ Vanish(s) => UNCHANGED <<disc, fence>>
    BY ZenonT(30) DEF CreateSession, ExpirePending, ClaimCallback, TaskStep, Vanish, Preflight,
       FailAuthorization, Exchange, Hold, Identify, Stage, Complete, Abandon, GuardianHold,
       GuardianRevoke
  <2>2. \A s \in Sessions :
           GuardianRelease(s) \/ GuardianClaim(s) \/ GuardianComplete(s)
              => UNCHANGED disc /\ fence' \in {fence, NoFence, GuardianFence(s)}
    BY DEF GuardianRelease, GuardianClaim, GuardianComplete
  <2> QED
    BY <1>0, <2>1, <2>2
<1>2. BeginPass \/ ReconcileStaged \/ OperatorRecovery \/ UNCHANGED vars
         => UNCHANGED disc /\ (fence' = fence \/ fence'.kind # "disconnect")
  BY <1>0 DEF BeginPass, ReconcileStaged, OperatorRecovery, vars
<1>3. RecoverStartup => UNCHANGED disc /\ fence'.kind # "disconnect"
  <2>1. RecoverStartup => fence'.kind # "disconnect"
    BY SMT, <1>t, RecoverStartupIs
  <2> QED
    BY <2>1 DEF RecoverStartup
<1>4. \A r \in Reconcilers :
         ClaimCleanup(r) \/ CleanupRevoke(r) \/ CompleteCleanup(r) \/ FailCleanup(r)
            \/ DeferCleanup(r) \/ ReconcilerVanishes(r)
            => UNCHANGED disc /\ (fence' = fence \/ fence'.kind # "disconnect")
  <2>1. [fence EXCEPT !.kind = "recovery"].kind = "recovery"
    BY <1>t DEF TypeOK, Fences
  <2>2. \A r \in Reconcilers :
           ClaimCleanup(r) => UNCHANGED disc /\ fence'.kind = "cleanup"
    BY SMT DEF ClaimCleanup
  <2>3. \A r \in Reconcilers :
           CleanupRevoke(r) \/ CompleteCleanup(r) \/ FailCleanup(r) \/ DeferCleanup(r)
              \/ ReconcilerVanishes(r)
              => /\ UNCHANGED disc
                 /\ fence' \in {fence, NoFence, [fence EXCEPT !.kind = "recovery"]}
    BY DEF CleanupRevoke, CompleteCleanup, FailCleanup, DeferCleanup, ReconcilerVanishes
  <2> QED
    BY <1>0, <2>1, <2>2, <2>3
<1>5. \A d \in Requests :
         CompleteDisconnect(d) \/ FailDisconnect(d) \/ DisconnectVanishes(d)
            => Leave(d) /\ (fence' = fence \/ fence' = NoFence)
  BY DEF CompleteDisconnect, FailDisconnect, DisconnectVanishes
<1> QED
  BY <1>1, <1>2, <1>3, <1>4, <1>5 DEF Next

\* Every action keeps the revocations that are out within their rights.
LEMMA RevokeStep ==
    ASSUME CustodyInv, RevokeInv, [Next]_vars PROVE RevokeInv'
<1>i. FenceInv /\ OwnerInv /\ TypeOK /\ HandlerInv /\ OneRevocationAtATime
  BY DEF CustodyInv, FenceInv
<1>s. subject' = subject /\ GrantsOnlyEnd
  BY <1>i, SubjectStep, GrantStep
<1>tt. /\ Accounts = Tokens
       /\ \A a \in Accounts : Owned(a) \subseteq Tokens /\ account[a].token \in Tokens
       /\ \A d \in Requests : disc[d].account \in Accounts /\ disc[d].claim \in Nat
       /\ \A d \in Requests : disc'[d].account \in Accounts
  <2>1. TypeOK'
    BY <1>i, TypeStep
  <2> QED
    BY <1>i, <2>1, TokenTypes, BoundsAreNumbers, SMTT(30) DEF TypeOK, Handler
<1>1. ASSUME NEW s \in Sessions, Completes(s) PROVE RevokeInv'
  <2>1. Quiet /\ fence' = fence /\ fence.kind = "none" /\ UNCHANGED <<rec, disc>>
    BY <1>1, <1>i, UnfencedIsQuiet DEF Completes, CompleteStaged, Unfenced
  <2>2. \A u \in Sessions : task'[u].pc # "gRevoke"
    <3>1. task \in [Sessions -> Callback]
      BY <1>i DEF TypeOK
    <3> QED
      BY <1>1, <2>1, <3>1, GotoIs DEF Completes, Quiet, Moves, Pcs
  <2> QED
    BY SMT, <2>1, <2>2 DEF RevokeInv, Handles, Quiet, FenceIs
<1>2. ASSUME \A s \in Sessions : ~Completes(s) PROVE RevokeInv'
  <2>1. AccountsStay
    BY <1>2, <1>i, AccountStep
  <2>2. \A a \in Protected' : a \in Protected /\ account'[a].token = account[a].token
    BY <2>1 DEF AccountsStay, Protected
  <2>3. \A s \in Sessions : task'[s].pc = "gRevoke" => Protected' = {}
    BY <1>i, <2>2, GuardianCases DEF RevokeInv
  <2>4. \A r \in Reconcilers : rec'[r].pc = "revoke" =>
          \A a \in Protected' : subject[account'[a].token] # subject[rec'[r].token]
    BY SMT, <1>i, <2>2, PassCases DEF RevokeInv
  <2>5. ASSUME NEW a \in Accounts, NEW t \in Owned(a), grant[t] # "valid" PROVE grant'[t] # "valid"
    BY <1>i, <1>s, <1>tt, <2>5 DEF OwnerInv, GrantsOnlyEnd
  <2>6. \A a \in Accounts : /\ Owned(a)' \subseteq Owned(a)
                            /\ Owned(a) \subseteq Owned(a)' \/ Ends(a)
    BY <2>1 DEF AccountsStay, Owned
  <2>7. ASSUME NEW d \in Requests, disc[d].pc = "revoke" PROVE ~Ends(disc[d].account)
    <3> SUFFICES ASSUME NEW e \in Requests, disc[e].pc = "complete",
                        disc[e].account = disc[d].account, DisconnectClaimed(e)
                 PROVE  FALSE
      BY DEF Ends
    <3>1. disc[e].claim = disc[d].claim
      BY <1>i, <2>7 DEF DisconnectClaimed, OneRevocationAtATime, FenceIs
    <3> QED
      BY <1>i, <2>7, <3>1 DEF HandlerInv
  <2>8. ASSUME NEW d \in Requests, disc'[d] = disc[d],
               fence' = fence \/ fence' # [kind |-> "disconnect", owner |-> disc[d].account,
                                           claim |-> disc[d].claim]
        PROVE  Handles(d)'
    <3>0. PICK a \in Accounts : a = disc[d].account
      BY <1>tt
    <3>1. Handles(d)
      BY DEF RevokeInv
    <3>2. disc[d].pc = "revoke" => disc[d].todo \subseteq Owned(a)'
      BY <2>6, <2>7, <3>0, <3>1 DEF Handles
    <3>3. disc[d].pc = "complete" => disc[d].todo = {}
      BY <3>1 DEF Handles
    <3>4. ASSUME disc[d].pc \in {"revoke", "complete"},
                 fence' = [kind |-> "disconnect", owner |-> a, claim |-> disc[d].claim]
          PROVE  \A t \in Owned(a)' \ disc[d].todo : grant'[t] # "valid"
      <4>1. \A t \in Owned(a) \ disc[d].todo : grant[t] # "valid"
        BY <2>8, <3>0, <3>1, <3>4 DEF Handles, FenceIs
      <4> QED
        BY <2>5, <2>6, <4>1
    <3> QED
      BY <2>8, <3>0, <3>2, <3>3, <3>4 DEF Handles, FenceIs
  <2>9. CASE UNCHANGED disc /\ (fence' = fence \/ fence'.kind # "disconnect")
    BY <2>3, <2>4, <2>8, <2>9, <1>s, SMTT(30) DEF RevokeInv
  <2>10. ASSUME NEW d \in Requests, NEW a \in Accounts, ClaimDisconnect(d, a)
         PROVE  \A e \in Requests : Handles(e)'
    <3>1. /\ disc'[d].pc \in {"complete", "revoke"} /\ disc'[d].account = a
          /\ fence' = [kind |-> "disconnect", owner |-> a, claim |-> account[a].claim + 1]
          /\ account[a].claim \in Nat
          /\ \A e \in Requests \ {d} : disc'[e] = disc[e]
          /\ AccountMoves(a, "disconnecting", account[a].retired, account[a].claim + 1)
      BY <1>i, <2>10, ClaimDisconnectIs
    <3>2. ~\E b \in Protected \ {a} : subject[account[b].token] = subject[account[a].token]
      BY <1>i, <2>10 DEF ClaimDisconnect, MayDisconnect, OwnerInv
    <3>3. disc'[d].pc = "revoke" /\ disc'[d].todo = {account[a].token} \cup account[a].retired
      BY ZenonT(30), <1>i, <2>10, <3>2, ClaimDisconnectIs
    <3>4. Owned(a)' = {account[a].token} \cup account[a].retired
      BY <3>1 DEF Owned, AccountMoves
    <3>5. Handles(d)'
      BY <3>1, <3>3, <3>4 DEF Handles
    <3>6. ASSUME NEW e \in Requests \ {d} PROVE Handles(e)'
      <4>1. CASE disc[e].pc = "idle"
        BY <3>1, <4>1 DEF Handles
      <4>2. CASE disc[e].pc # "idle"
        <5>1. disc[e].account = a => disc[e].claim <= account[a].claim
          BY <1>i, <4>2 DEF HandlerInv
        <5>2. fence' # [kind |-> "disconnect", owner |-> disc[e].account, claim |-> disc[e].claim]
          BY SMT, <1>tt, <3>1, <5>1
        <5> QED
          BY <2>8, <3>1, <5>2
      <4> QED
        BY <4>1, <4>2
    <3> QED
      BY <3>5, <3>6
  <2>11. ASSUME NEW d \in Requests, DisconnectRevoke(d)
         PROVE  \A e \in Requests : Handles(e)'
    <3>1. UNCHANGED <<fence, account>> /\ disc[d].pc = "revoke"
      BY <2>11 DEF DisconnectRevoke, store
    <3>2. PICK t \in disc[d].todo :
            /\ disc'[d].account = disc[d].account /\ disc'[d].claim = disc[d].claim
            /\ \A e \in Requests \ {d} : disc'[e] = disc[e]
            /\ t \in Tokens
            /\ \/ /\ Revoke(t)
                  /\ disc'[d].todo = disc[d].todo \ {t}
                  /\ disc'[d].pc = IF disc[d].todo = {t} THEN "complete" ELSE "revoke"
               \/ disc'[d].pc = "fail"
      BY <1>i, <2>11, DisconnectRevokeIs
    <3>3. Handles(d)'
      <4>0. PICK a \in Accounts : a = disc[d].account
        BY <1>tt
      <4>1. /\ disc[d].todo \subseteq Owned(a)
            /\ FenceIs("disconnect", a, disc[d].claim) =>
                  \A u \in Owned(a) \ disc[d].todo : grant[u] # "valid"
        BY <3>1, <4>0 DEF RevokeInv, Handles
      <4>2. Owned(a)' = Owned(a)
        BY <3>1 DEF Owned
      <4>3. Revoke(t) => grant'[t] # "valid"
        BY <1>i, <3>2, RevokeIs DEF TypeOK
      <4>4. \A u \in Owned(a) : grant[u] # "valid" => grant'[u] # "valid"
        BY <2>5
      <4>5. ASSUME disc'[d].todo = disc[d].todo \ {t}, Revoke(t),
                   disc'[d].pc = IF disc[d].todo = {t} THEN "complete" ELSE "revoke"
            PROVE  /\ disc'[d].todo \subseteq Owned(a)'
                   /\ disc'[d].pc = "complete" => disc'[d].todo = {}
                   /\ FenceIs("disconnect", a, disc[d].claim) =>
                         \A u \in Owned(a)' \ disc'[d].todo : grant'[u] # "valid"
        BY <4>1, <4>2, <4>3, <4>4, <4>5
      <4>6. FenceIs("disconnect", a, disc[d].claim) <=>
              fence' = [kind |-> "disconnect", owner |-> disc'[d].account, claim |-> disc'[d].claim]
        BY <3>1, <3>2, <4>0 DEF FenceIs
      <4>7. CASE disc'[d].pc = "fail"
        BY <4>7 DEF Handles
      <4> QED
        BY <3>2, <4>0, <4>5, <4>6, <4>7 DEF Handles, FenceIs
    <3> QED
      BY <2>8, <3>1, <3>2, <3>3
  <2>12. ASSUME NEW d \in Requests, Leave(d), fence' = fence \/ fence' = NoFence
         PROVE  \A e \in Requests : Handles(e)'
    <3>1. disc'[d].pc = "idle" /\ \A e \in Requests \ {d} : disc'[e] = disc[e]
      BY <1>i, <2>12, LeaveIs
    <3>2. Handles(d)'
      BY <3>1 DEF Handles
    <3> QED
      BY SMT, <2>8, <2>12, <3>1, <3>2 DEF NoFence
  <2> QED
    <3>1. \A d \in Requests : Handles(d)'
      BY <1>i, <2>8, <2>9, <2>10, <2>11, <2>12, HandlerCases DEF RevokeInv
    <3> QED
      BY <1>s, <2>3, <2>4, <3>1 DEF RevokeInv
<1> QED
  BY <1>1, <1>2

(***************************************************************************)
(* Whose business a grant is                                               *)
(***************************************************************************)
\* The token is stored, by an account that is kept or in a row, or was dropped
\* because its grant was an account's.
Kept(s) ==
    \/ \E a \in Protected : s \in Owned(a)
    \/ cleanup[s].status # "none"
    \/ s \in discarded

\* The callback, or the guardian, relies on the token being kept.
Relies(s) == task[s].pc \in {"identity", "stage", "complete", "abandon", "gRelease"}

\* A token that works is kept, or its session is still exchanging; when its
\* callback or guardian relies on it, it is kept.  The revocation of a token
\* is completed only when it has ended.
KeptInv ==
    /\ \A s \in Sessions : grant[s] = "valid" =>
        /\ Kept(s) \/ session[s].status = "exchanging"
        /\ Relies(s) => Kept(s)
        /\ task[s].pc # "gComplete"
    /\ \A r \in Reconcilers : rec[r].pc = "complete" => grant[rec[r].token] # "valid"

\* The row of a token that works is dropped only because its grant is an
\* account's.
LEMMA CleanupCases ==
    ASSUME FenceInv, KeptInv, [Next]_vars, \A s \in Sessions : ~Completes(s),
           NEW u \in Sessions, cleanup[u].status # "none", grant[u] = "valid", grant'[u] = "valid"
    PROVE  cleanup'[u].status # "none" \/ u \in discarded'
<1> USE DEF store, google
<1>t. TypeOK /\ cleanup \in [Sessions -> CleanupRow] /\ u \in Tokens
  BY DEF FenceInv, TypeOK, Tokens
<1>1. CASE UNCHANGED cleanup
  BY <1>1
<1>2. ASSUME NEW s \in Sessions, HoldRow(s) PROVE cleanup'[u].status # "none"
  BY <1>2, <1>t, HoldRowIs
<1>3. ASSUME NEW s \in Sessions, Identify(s) PROVE cleanup'[u].status # "none"
  <2>1. cleanup' \in {cleanup, [cleanup EXCEPT ![s].known = TRUE]}
    BY <1>3 DEF Identify
  <2> QED
    BY SMT, <1>t, <2>1 DEF CleanupRow
<1>4. ASSUME NEW s \in Sessions, Abandon(s) PROVE cleanup'[u].status # "none"
  <2>1. cleanup' \in {cleanup, Promote(cleanup, s)}
    BY <1>4 DEF Abandon
  <2> QED
    BY SMT, <1>t, <2>1, PromoteIs
<1>5. ASSUME NEW s \in Sessions, GuardianComplete(s) PROVE cleanup'[u].status # "none"
  <2>1. cleanup' \in {cleanup, [cleanup EXCEPT ![s] = NoRow]} /\ task[s].pc = "gComplete"
    BY <1>5 DEF GuardianComplete
  <2>2. u # s
    BY <2>1 DEF KeptInv
  <2> QED
    BY <1>t, <2>1, <2>2
<1>6. CASE RecoverStartup
  BY <1>6, <1>t, RecoverStartupIs
<1>7. CASE OperatorRecovery
  BY <1>7, <1>t, OperatorRecoveryIs
<1>8. ASSUME NEW r \in Reconcilers, ClaimCleanup(r) PROVE cleanup'[u].status # "none"
  BY <1>8, <1>t, ClaimCleanupIs
<1>9. ASSUME NEW r \in Reconcilers, CompleteCleanup(r)
      PROVE  cleanup'[u].status # "none" \/ u \in discarded'
  <2>1. \/ cleanup' = cleanup
        \/ /\ cleanup' = [cleanup EXCEPT ![rec[r].token] = NoRow]
           /\ \/ rec[r].pc = "complete"
              \/ rec[r].token \in discarded'
    BY <1>9 DEF CompleteCleanup
  <2>2. rec[r].pc = "complete" => rec[r].token # u
    BY DEF KeptInv
  <2> QED
    BY <1>t, <2>1, <2>2
<1>10. ASSUME NEW r \in Reconcilers, FailCleanup(r) \/ DeferCleanup(r)
       PROVE  cleanup'[u].status # "none"
  <2>1. \/ cleanup' = cleanup
        \/ \E status \in {"pending", "operator"} :
              cleanup' = [cleanup EXCEPT ![rec[r].token].status = status]
    BY <1>10 DEF FailCleanup, DeferCleanup
  <2> QED
    BY <1>t, <2>1 DEF CleanupRow
<1> QED
  <2>1. \A s \in Sessions :
           /\ (\E a \in Accounts : CreateSession(s, a)) \/ ExpirePending(s) \/ ClaimCallback(s)
                \/ Vanish(s) \/ Preflight(s) \/ FailAuthorization(s) \/ Exchange(s) \/ Stage(s)
                \/ GuardianRelease(s) \/ GuardianClaim(s) \/ GuardianRevoke(s)
                => UNCHANGED cleanup
           /\ Hold(s) \/ GuardianHold(s) => UNCHANGED cleanup \/ HoldRow(s)
           /\ Complete(s) => UNCHANGED cleanup \/ Completes(s)
    BY ZenonT(30) DEF CreateSession, ExpirePending, ClaimCallback, Vanish, Preflight, FailAuthorization,
       Exchange, Hold, Stage, Complete, Completes, GuardianHold, GuardianRelease, GuardianClaim,
       GuardianRevoke
  <2>2. /\ UNCHANGED vars \/ BeginPass => UNCHANGED cleanup
        /\ ReconcileStaged => \E s \in Sessions : Completes(s)
    BY DEF BeginPass, ReconcileStaged, Completes, vars
  <2>3. \A d \in Requests :
           (\E a \in Accounts : ClaimDisconnect(d, a)) \/ DisconnectRevoke(d)
              \/ CompleteDisconnect(d) \/ FailDisconnect(d) \/ DisconnectVanishes(d)
              => UNCHANGED cleanup
    BY ZenonT(30) DEF ClaimDisconnect, DisconnectRevoke, CompleteDisconnect, FailDisconnect,
       DisconnectVanishes
  <2>4. \A r \in Reconcilers : CleanupRevoke(r) \/ ReconcilerVanishes(r) => UNCHANGED cleanup
    BY DEF CleanupRevoke, ReconcilerVanishes
  <2> QED
    BY <1>1, <1>2, <1>3, <1>4, <1>5, <1>6, <1>7, <1>8, <1>9, <1>10, <2>1, <2>2, <2>3, <2>4
       DEF Next, TaskStep

\* What was discarded stays discarded.
LEMMA DiscardStep == ASSUME [Next]_vars PROVE discarded \subseteq discarded'
<1> USE DEF google, store
<1>1. \A s \in Sessions :
         (\E a \in Accounts : CreateSession(s, a)) \/ ExpirePending(s) \/ ClaimCallback(s)
            \/ TaskStep(s) \/ Vanish(s) => UNCHANGED discarded
  BY ZenonT(30) DEF CreateSession, ExpirePending, ClaimCallback, TaskStep, Vanish, Preflight,
     FailAuthorization, Exchange, Hold, Identify, Stage, Complete, Abandon, GuardianHold,
     GuardianRelease, GuardianClaim, GuardianRevoke, GuardianComplete
<1>2. BeginPass \/ ReconcileStaged \/ RecoverStartup \/ OperatorRecovery \/ UNCHANGED vars
         => UNCHANGED discarded
  BY DEF BeginPass, ReconcileStaged, RecoverStartup, OperatorRecovery, vars
<1>3. \A r \in Reconcilers :
         ClaimCleanup(r) \/ CleanupRevoke(r) \/ CompleteCleanup(r) \/ FailCleanup(r)
            \/ DeferCleanup(r) \/ ReconcilerVanishes(r) => discarded \subseteq discarded'
  BY DEF ClaimCleanup, CleanupRevoke, CompleteCleanup, FailCleanup, DeferCleanup,
     ReconcilerVanishes
<1>4. \A d \in Requests :
         (\E a \in Accounts : ClaimDisconnect(d, a)) \/ DisconnectRevoke(d)
            \/ CompleteDisconnect(d) \/ FailDisconnect(d) \/ DisconnectVanishes(d)
            => UNCHANGED discarded
  BY DEF ClaimDisconnect, DisconnectRevoke, CompleteDisconnect, FailDisconnect, DisconnectVanishes
<1> QED
  BY <1>1, <1>2, <1>3, <1>4 DEF Next

\* A session whose token works leaves its exchange only when a row has the
\* token, or its callback or guardian relies on one.
LEMMA ExchangeCases ==
    ASSUME FenceInv, KeptInv, [Next]_vars, \A s \in Sessions : ~Completes(s),
           NEW u \in Sessions, grant[u] = "valid", grant'[u] = "valid",
           session[u].status = "exchanging", session'[u].status # "exchanging"
    PROVE  Relies(u) \/ cleanup[u].status # "none"
<1> USE DEF google, store
<1>t. TypeOK /\ LifeInv /\ session \in [Sessions -> SessionRow] /\ u \in Tokens
  BY DEF FenceInv, TypeOK, Tokens
<1>1. ASSUME NEW s \in Sessions, NEW a \in Accounts, CreateSession(s, a) PROVE FALSE
  BY <1>1, <1>t, CreateSessionIs DEF CreateSession, NoOpenExchange
<1>2. ASSUME NEW s \in Sessions, ExpirePending(s) PROVE FALSE
  BY <1>2, <1>t, FailIs DEF ExpirePending
<1>3. ASSUME NEW s \in Sessions, ClaimCallback(s) PROVE FALSE
  <2>1. session[s].status = "pending"
    BY <1>3 DEF ClaimCallback
  <2> QED
    BY <1>3, <1>t, <2>1, ClaimCallbackIs
<1>4. ASSUME NEW s \in Sessions, FailAuthorization(s) PROVE FALSE
  <2>1. u = s /\ task[s].pc = "denied"
    BY <1>4, <1>t, FailIs DEF FailAuthorization
  <2> QED
    BY <1>t, <2>1 DEF LifeInv
<1>5. ASSUME NEW s \in Sessions, Stage(s) PROVE Relies(u)
  <2>1. u = s
    BY ZenonT(30), <1>5, <1>t, StageIs
  <2> QED
    BY <1>5, <2>1 DEF Stage, Relies
<1>6. ASSUME NEW s \in Sessions, Abandon(s) PROVE Relies(u)
  <2>1. u = s
    BY <1>6, <1>t, FailIs DEF Abandon
  <2> QED
    BY <1>6, <2>1 DEF Abandon, Relies
<1>7. ASSUME NEW s \in Sessions, GuardianComplete(s) PROVE FALSE
  <2>1. u = s
    BY <1>7, <1>t, FailedSessionIs, SMTT(30) DEF GuardianComplete
  <2> QED
    BY <1>7, <2>1 DEF GuardianComplete, KeptInv
<1>8. CASE RecoverStartup
  BY <1>8, <1>t, RecoverStartupIs
<1>9. CASE OperatorRecovery
  BY <1>9, <1>t, OperatorRecoveryIs
<1>10. ASSUME NEW a \in Accounts, session' = Drift(session, {a}) PROVE FALSE
  BY SMT, <1>10, <1>t, DriftIs
<1> QED
  BY <1>1, <1>2, <1>3, <1>4, <1>5, <1>6, <1>7, <1>8, <1>9, <1>10, <1>t, SessionFrame

\* A callback or guardian comes to rely on a token by storing it, and to
\* complete a revocation by ending it.
LEMMA RelyCases ==
    ASSUME FenceInv, KeptInv, [Next]_vars, NEW u \in Sessions, grant'[u] = "valid"
    PROVE  /\ Relies(u)' => Relies(u) \/ cleanup'[u].status # "none"
           /\ task'[u].pc # "gComplete"
<1> USE DEF google, store
<1>t. TypeOK /\ task \in [Sessions -> Callback] /\ u \in Tokens
  BY DEF FenceInv, TypeOK, Tokens
<1>g. grant[u] = "valid" \/ Exchange(u)
  BY <1>t, GrantStep DEF GrantsOnlyEnd
<1>0. task[u].pc # "gComplete"
  BY <1>g DEF KeptInv, Exchange
<1>1. CASE task'[u] = task[u]
  BY <1>0, <1>1 DEF Relies
<1>2. ASSUME NEW s \in Sessions, NEW pc, Goto(s, pc), task'[u] # task[u]
      PROVE  u = s /\ task'[u].pc = pc
  BY <1>2, <1>t DEF Goto, Callback
<1>3. CASE task'[u] # task[u]
  <2> SUFFICES ASSUME Relies(u)' \/ task'[u].pc = "gComplete"
               PROVE  /\ Relies(u)' => Relies(u) \/ cleanup'[u].status # "none"
                      /\ task'[u].pc # "gComplete"
    OBVIOUS
  <2>1. ASSUME NEW s \in Sessions,
               ClaimCallback(s) \/ Preflight(s) \/ FailAuthorization(s) \/ Vanish(s)
        PROVE FALSE
    <3>1. UNCHANGED task \/ \E pc \in {"claimed", "exchange", "denied", "done"} : Goto(s, pc)
      BY <2>1 DEF ClaimCallback, Preflight, FailAuthorization, Vanish
    <3> QED
      BY <1>2, <1>3, <3>1 DEF Relies
  <2>2. ASSUME NEW s \in Sessions, Exchange(s) PROVE FALSE
    <3>1. PICK pc \in {"hold", "identity", "denied", "done"} :
             Goto(s, pc) /\ (pc = "identity" => grant'[s] # "valid")
      BY <1>t, <2>2 DEF Exchange, FenceInv, TypeOK, Tokens
    <3> QED
      BY <1>2, <1>3, <3>1 DEF Relies
  <2>3. ASSUME NEW s \in Sessions, Hold(s) \/ GuardianHold(s)
        PROVE  cleanup'[u].status # "none" /\ task'[u].pc # "gComplete"
    <3>1. \E pc \in {"identity", "hold", "guardian", "gRelease", "abandon"} :
             Goto(s, pc) /\ (pc \notin {"hold", "guardian"} => HoldRow(s))
      BY <2>3 DEF Hold, GuardianHold
    <3>2. HoldRow(s) => cleanup'[s].status # "none"
      BY <1>t, HoldRowIs DEF TypeOK
    <3> QED
      BY <1>2, <1>3, <3>1, <3>2 DEF Relies
  <2>4. ASSUME NEW s \in Sessions, Identify(s) \/ Stage(s) \/ GuardianRelease(s)
        PROVE  Relies(u) /\ task'[u].pc # "gComplete"
    <3>1. Relies(s) /\ \E pc \in {"stage", "abandon", "complete", "guardian"} : Goto(s, pc)
      BY <2>4 DEF Identify, Stage, GuardianRelease, Relies
    <3> QED
      BY <1>2, <1>3, <3>1
  <2>5. ASSUME NEW s \in Sessions, Complete(s) \/ Abandon(s) PROVE FALSE
    <3>1. Goto(s, "done")
      BY <2>5 DEF Complete, Abandon
    <3> QED
      BY SMT, <1>2, <1>3, <3>1 DEF Relies
  <2>6. ASSUME NEW s \in Sessions, GuardianClaim(s) PROVE FALSE
    BY <1>3, <1>t, <2>6 DEF GuardianClaim, Callback, Relies
  <2>7. ASSUME NEW s \in Sessions, GuardianRevoke(s) PROVE FALSE
    <3>1. \E pc \in {"gComplete", "guardian"} : Goto(s, pc) /\ (pc = "gComplete" => Revoke(s))
      BY <2>7 DEF GuardianRevoke
    <3>2. Revoke(s) => grant'[s] # "valid"
      <4>1. s \in Tokens
        BY DEF Tokens
      <4> QED
        BY <1>t, <4>1, RevokeIs DEF TypeOK
    <3> QED
      BY <1>2, <1>3, <3>1, <3>2 DEF Relies
  <2>8. ASSUME NEW s \in Sessions, GuardianComplete(s) PROVE FALSE
    <3>1. task[s].pc = "gComplete" /\ \E pc \in {"abandon", "gComplete"} : Goto(s, pc)
      BY <2>8 DEF GuardianComplete
    <3> QED
      BY <1>0, <1>2, <1>3, <3>1
  <2> QED
    BY <1>3, <2>1, <2>2, <2>3, <2>4, <2>5, <2>6, <2>7, <2>8, TaskFrame DEF TaskStep
<1> QED
  BY <1>1, <1>3

\* The inductive invariant of the grants.
GrantInv == CustodyInv /\ RevokeInv /\ KeptInv

\* Every action keeps a copy of every grant that works.
LEMMA KeptStep == ASSUME GrantInv, [Next]_vars PROVE KeptInv'
<1>i. /\ FenceInv /\ OwnerInv /\ RequestInv /\ StageInv /\ RevokeInv /\ KeptInv /\ TypeOK
      /\ LifeInv /\ PassInv
  BY DEF GrantInv, CustodyInv, FenceInv
<1>tt. /\ Sessions \subseteq Tokens /\ Accounts = Tokens
       /\ \A a \in Accounts : Owned(a) \subseteq Tokens
  BY <1>i, TokenTypes
<1>g. GrantsOnlyEnd
  BY <1>i, GrantStep
<1>p. \A a \in Protected : a \in Accounts
  BY DEF Protected
<1>1. ASSUME NEW s \in Sessions, Completes(s) PROVE KeptInv'
  <2>0. PICK a \in Accounts : a = session[s].account
    BY <1>i, TokenTypes
  <2>1. /\ account'[a].status = "active"
        /\ account'[a].token = session[s].token
        /\ account'[a].retired = session[s].retired
        /\ \A b \in Accounts \ {a} : account'[b] = account[b]
        /\ \A u \in Sessions \ {s} : cleanup'[u] = cleanup[u]
    BY <1>1, <1>i, <2>0, CompleteStagedIs DEF Completes
  <2>2. /\ session[s].status = "staged" /\ ExpectedAccount(s)
        /\ UNCHANGED <<rec, grant, discarded>>
    BY <1>1 DEF Completes, CompleteStaged, google
  <2>3. Owned(a)' = {session[s].token} \cup session[s].retired /\ a \in Protected'
    BY <2>1 DEF Owned, Protected
  <2>4. a \in Protected => Owned(a) \subseteq Owned(a)'
    <3>1. a \in Protected => session[s].reauth /\ session[s].current
      <4>1. CASE session[s].reauth
        BY <2>2, <4>1 DEF ExpectedAccount
      <4>2. CASE ~session[s].reauth
        <5>1. a = s /\ account[s] = NoAccount
          BY <1>i, <2>0, <2>2, <4>2 DEF RequestInv
        <5> QED
          BY <5>1, SMTT(30) DEF Protected, NoAccount
      <4> QED
        BY <4>1, <4>2
    <3> QED
      BY <1>i, <2>0, <2>2, <2>3, <3>1 DEF StageInv
  <2>5. \A b \in Protected \ {a} : b \in Protected' /\ Owned(b)' = Owned(b)
    BY <1>p, <2>1 DEF Owned, Protected
  <2>6. \A u \in Sessions : grant[u] = "valid" => Kept(u)
    BY <1>i, <2>2 DEF KeptInv, LifeInv, Open
  <2>7. grant[s] = "valid" => s \in Owned(a)'
    BY <1>i, <2>2, <2>3 DEF StageInv
  <2>8. ASSUME NEW u \in Sessions, grant[u] = "valid" PROVE Kept(u)'
    <3>1. CASE \E b \in Protected : u \in Owned(b)
      <4>1. \E b \in Protected' : u \in Owned(b)'
        BY <2>3, <2>4, <2>5, <3>1
      <4> QED
        BY <4>1 DEF Kept
    <3>2. CASE cleanup[u].status # "none"
      BY <2>1, <2>3, <2>7, <2>8, <3>2 DEF Kept
    <3>3. CASE u \in discarded
      BY <2>2, <3>3 DEF Kept
    <3> QED
      BY <2>6, <2>8, <3>1, <3>2, <3>3 DEF Kept
  <2>9. \A u \in Sessions : grant'[u] = "valid" => task'[u].pc # "gComplete"
    BY <1>i, RelyCases
  <2> QED
    BY <1>i, <2>2, <2>8, <2>9 DEF KeptInv
<1>2. ASSUME \A s \in Sessions : ~Completes(s) PROVE KeptInv'
  <2>1. AccountsStay
    BY <1>2, <1>i, AccountStep
  <2>2. ASSUME NEW u \in Sessions, Kept(u), grant[u] = "valid", grant'[u] = "valid"
        PROVE  Kept(u)'
    <3>1. ASSUME NEW a \in Protected, u \in Owned(a) PROVE Kept(u)'
      <4>1. ~Ends(a)
        <5> SUFFICES ASSUME NEW d \in Requests, disc[d].pc = "complete", disc[d].account = a,
                            DisconnectClaimed(d)
                     PROVE  FALSE
          BY DEF Ends
        <5>1. disc[d].todo = {} /\ \A t \in Owned(a) \ disc[d].todo : grant[t] # "valid"
          BY <1>i DEF RevokeInv, Handles, DisconnectClaimed
        <5> QED
          BY <2>2, <3>1, <5>1
      <4>2. a \in Protected' /\ Owned(a)' = Owned(a)
        BY <1>p, <2>1, <4>1 DEF AccountsStay, Owned
      <4> QED
        BY <3>1, <4>2 DEF Kept
    <3>2. CASE cleanup[u].status # "none"
      BY <1>2, <1>i, <2>2, <3>2, CleanupCases DEF Kept
    <3>3. CASE u \in discarded
      BY <3>3, DiscardStep DEF Kept
    <3> QED
      BY <2>2, <3>1, <3>2, <3>3 DEF Kept
  <2>3. ASSUME NEW u \in Sessions, grant'[u] = "valid"
        PROVE  Kept(u)' \/ session'[u].status = "exchanging"
    <3>1. CASE Exchange(u)
      <4>1. session[u].status = "exchanging" /\ session' = session
        BY <1>i, <3>1 DEF Exchange, LifeInv, store
      <4> QED
        BY <4>1
    <3>2. CASE grant[u] = "valid"
      <4>1. CASE Kept(u)
        BY <2>2, <2>3, <3>2, <4>1
      <4>2. CASE ~Kept(u)
        <5>1. session[u].status = "exchanging" /\ ~Relies(u) /\ cleanup[u].status = "none"
          BY <1>i, <3>2, <4>2 DEF KeptInv, Kept
        <5> QED
          BY <1>2, <1>i, <2>3, <3>2, <5>1, ExchangeCases
      <4> QED
        BY <4>1, <4>2
    <3> QED
      BY <1>g, <1>tt, <2>3, <3>1, <3>2 DEF GrantsOnlyEnd
  <2>4. ASSUME NEW u \in Sessions, grant'[u] = "valid", Relies(u)' PROVE Kept(u)'
    <3>1. CASE cleanup'[u].status # "none"
      BY <3>1 DEF Kept
    <3>2. CASE Relies(u)
      <4>1. ~Exchange(u)
        BY <3>2 DEF Exchange, Relies
      <4>2. grant[u] = "valid"
        BY <1>g, <1>tt, <2>4, <4>1 DEF GrantsOnlyEnd
      <4>3. Kept(u)
        BY <1>i, <3>2, <4>2 DEF KeptInv
      <4> QED
        BY <2>2, <2>4, <4>2, <4>3
    <3> QED
      BY <1>i, <2>4, <3>1, <3>2, RelyCases
  <2>5. \A u \in Sessions : grant'[u] = "valid" => task'[u].pc # "gComplete"
    BY <1>i, RelyCases
  <2>6. ASSUME NEW r \in Reconcilers, rec'[r].pc = "complete" PROVE grant'[rec'[r].token] # "valid"
    <3>1. CASE rec[r].pc = "complete" /\ rec'[r].token = rec[r].token
      <4>1. /\ rec[r].token \in Sessions /\ ~Exchange(rec[r].token)
            /\ grant[rec[r].token] # "valid"
        BY <1>i, <3>1 DEF PassInv, LifeInv, KeptInv, Exchange
      <4> QED
        BY <1>g, <1>tt, <3>1, <4>1 DEF GrantsOnlyEnd
    <3> QED
      BY <1>i, <2>6, <3>1, PassCases
  <2> QED
    BY <2>3, <2>4, <2>5, <2>6 DEF KeptInv
<1> QED
  BY <1>1, <1>2

(***************************************************************************)
(* The theorems                                                            *)
(***************************************************************************)
\* The initial states satisfy the invariant of the grants.
LEMMA InitGrants == ASSUME Init PROVE GrantInv
<1>1. FenceInv /\ TypeOK
  BY InitFence DEF FenceInv
<1> USE DEF Init, NoSession, NoAccount
<1>2. 0 \notin Sessions /\ Accounts = Tokens /\ 0 \in Tokens
  BY SessionsAreNumbered DEF Tokens, Accounts
<1>3. \A a \in Accounts :
         /\ account[a].token = 0 /\ account[a].retired = {} /\ (a \in Protected => a = 0)
         /\ a # 0 => account[a] = NoAccount
  BY SMT, <1>2 DEF Protected
<1>4. OwnerInv
  <2>1. \A a \in Accounts : Owned(a) = {0}
    BY <1>3 DEF Owned
  <2>2. \A a \in Protected : a = 0
    BY <1>3 DEF Protected
  <2>3. Issued(0)
    BY <1>2 DEF Issued
  <2> HIDE DEF Init
  <2> QED
    BY SMT, <1>3, <2>1, <2>2, <2>3 DEF OwnerInv
<1>5. RequestInv
  <2>1. \A s \in Sessions :
           /\ session[s].token = 0 /\ session[s].retired = {} /\ ~session[s].reuse
           /\ session[s].status = "none" /\ s \in Accounts /\ s # 0
    BY <1>2 DEF Tokens
  <2>2. Issued(0)
    BY <1>2 DEF Issued
  <2> HIDE DEF Init
  <2> QED
    BY <1>3, <2>1, <2>2, SMTT(30) DEF RequestInv
<1>6. StageInv
  BY DEF StageInv
<1>7. RevokeInv
  BY DEF RevokeInv, Handles
<1>8. KeptInv
  BY <1>2 DEF KeptInv, Tokens
<1> QED
  BY <1>1, <1>4, <1>5, <1>6, <1>7, <1>8 DEF GrantInv, CustodyInv

\* The invariant of the grants holds in every reachable state.
THEOREM GrantsAlways == Spec => []GrantInv
<1>1. Init => GrantInv
  BY InitGrants
<1>2. ASSUME GrantInv, [Next]_vars PROVE GrantInv'
  <2>1. FenceInv'
    BY <1>2, FenceInductive DEF GrantInv, CustodyInv
  <2> QED
    BY <1>2, <2>1, OwnerStep, RequestStep, StageStep, RevokeStep, KeptStep DEF GrantInv, CustodyInv
<1> QED
  BY <1>1, <1>2, PTL DEF Spec

\* No refresh token that works is forgotten, whichever callbacks, guardians,
\* reconcilers, disconnects and operators hand it on, and wherever they stop:
\* the database has a copy of it, or its session as exchanging.
THEOREM GrantsAreKept == Spec => []NoGrantForgotten
<1>1. GrantInv => NoGrantForgotten
  BY DEF GrantInv, KeptInv, Kept, Owned, NoGrantForgotten
<1> QED
  BY <1>1, GrantsAlways, PTL

\* No step ends the grant of an account that is active before and after it.
LEMMA WorksStep ==
    ASSUME GrantInv, [Next]_vars, NEW a \in Accounts, Works(a), account'[a].status = "active"
    PROVE  Works(a)'
<1>i. /\ FenceInv /\ OwnerInv /\ RequestInv /\ StageInv /\ RevokeInv /\ TypeOK /\ HandlerInv
      /\ OneRevocationAtATime /\ grant \in [Tokens -> {"none", "valid", "revoked"}]
  BY DEF GrantInv, CustodyInv, FenceInv, TypeOK
<1>tt. Accounts = Tokens /\ Sessions \subseteq Tokens /\ account[a].token \in Tokens
  BY <1>i, TokenTypes
<1>p. /\ account[a].status = "active" /\ grant[account[a].token] = "valid"
      /\ a \in Protected /\ Issued(account[a].token)
  BY <1>i, <1>tt DEF Works, Protected, OwnerInv, Owned
<1>1. ASSUME NEW s \in Sessions, Completes(s) PROVE Works(a)'
  <2>0. PICK b \in Accounts : b = session[s].account
    BY <1>i, TokenTypes
  <2>1. /\ account'[b].token = session[s].token
        /\ \A c \in Accounts \ {b} : account'[c] = account[c]
    BY <1>1, <1>i, <2>0, CompleteStagedIs DEF Completes
  <2>2. session[s].status = "staged" /\ ExpectedAccount(s) /\ UNCHANGED grant
    BY <1>1 DEF Completes, CompleteStaged, google
  <2>3. CASE a # b
    BY <1>p, <2>1, <2>2, <2>3 DEF Works
  <2>4. CASE a = b
    <3>1. session[s].reauth /\ session[s].current
      BY <1>i, <1>p, <2>0, <2>2, <2>4, SMTT(30) DEF RequestInv, NoAccount, ExpectedAccount
    <3>2. /\ grant[s] # "none" => session[s].token = s
          /\ grant[s] = "none" => session[s].token = account[a].token
          /\ subject[account[a].token] = subject[s]
          /\ grant[s] # "revoked"
      BY <1>i, <1>p, <2>0, <2>2, <2>4, <3>1 DEF StageInv
    <3>3. grant[session[s].token] = "valid"
      BY <1>i, <1>p, <1>tt, <3>2
    <3> QED
      BY <2>1, <2>2, <2>4, <3>3 DEF Works
  <2> QED
    BY <2>3, <2>4
<1>2. ASSUME \A s \in Sessions : ~Completes(s) PROVE Works(a)'
  <2>1. account'[a].token = account[a].token
    BY <1>2, <1>i, AccountStep DEF AccountsStay
  <2>2. CASE UNCHANGED grant
    BY <1>p, <2>1, <2>2 DEF Works
  <2>3. ASSUME NEW t \in Tokens, Revoke(t), subject[account[a].token] # subject[t]
        PROVE  Works(a)'
    BY <1>i, <1>p, <1>tt, <2>1, <2>3, RevokeIs DEF Works
  <2>4. ASSUME NEW s \in Sessions, Exchange(s) PROVE Works(a)'
    <3>1. account[a].token # s
      BY <1>p, <2>4 DEF Exchange, Issued, Unissued
    <3>2. grant'[account[a].token] = grant[account[a].token]
      BY <1>i, <1>tt, <2>4, <3>1 DEF Exchange
    <3> QED
      BY <1>p, <2>1, <3>2 DEF Works
  <2>5. ASSUME NEW s \in Sessions, GuardianRevoke(s) PROVE FALSE
    BY <1>i, <1>p, <2>5 DEF GuardianRevoke, RevokeInv
  <2>6. ASSUME NEW r \in Reconcilers, CleanupRevoke(r) PROVE Works(a)'
    <3>1. subject[account[a].token] # subject[rec[r].token]
      BY <1>i, <1>p, <2>6 DEF CleanupRevoke, RevokeInv
    <3> QED
      BY <1>i, <2>2, <2>3, <2>6, <3>1, CleanupRevokeIs
  <2>7. ASSUME NEW d \in Requests, DisconnectRevoke(d) PROVE Works(a)'
    <3>0. PICK b \in Accounts : b = disc[d].account
      BY <1>i DEF TypeOK, Handler
    <3>1. /\ disc[d].todo \subseteq Owned(b)
          /\ account[b].status = "disconnecting"
      BY <1>i, <2>7, <3>0 DEF DisconnectRevoke, RevokeInv, Handles, HandlerInv
    <3>2. b # a /\ b \in Protected
      BY <1>p, <3>1 DEF Protected
    <3>3. PICK t \in disc[d].todo : t \in Tokens /\ (Revoke(t) \/ UNCHANGED grant)
      BY <1>i, <2>7, DisconnectRevokeIs
    <3>4. subject[account[a].token] # subject[t]
      BY SMT, <1>i, <1>p, <3>1, <3>2, <3>3 DEF OwnerInv
    <3> QED
      BY <2>2, <2>3, <3>3, <3>4
  <2>8. CASE OperatorRecovery
    BY <1>i, <1>p, <2>8, OperatorRecoveryIs
  <2> QED
    <3>1. \A s \in Sessions :
             \/ UNCHANGED grant \/ Exchange(s) \/ GuardianRevoke(s)
             \/ ~((\E b \in Accounts : CreateSession(s, b)) \/ ExpirePending(s) \/ ClaimCallback(s)
                     \/ TaskStep(s) \/ Vanish(s))
      BY ZenonT(30) DEF CreateSession, ExpirePending, ClaimCallback, TaskStep, Vanish, Preflight,
         FailAuthorization, Hold, Identify, Stage, Complete, Abandon, GuardianHold,
         GuardianRelease, GuardianClaim, GuardianComplete, google
    <3>2. BeginPass \/ ReconcileStaged \/ RecoverStartup \/ UNCHANGED vars => UNCHANGED grant
      BY DEF BeginPass, ReconcileStaged, RecoverStartup, vars, google
    <3>3. \A r \in Reconcilers :
             ClaimCleanup(r) \/ CompleteCleanup(r) \/ FailCleanup(r) \/ DeferCleanup(r)
                \/ ReconcilerVanishes(r) => UNCHANGED grant
      BY DEF ClaimCleanup, CompleteCleanup, FailCleanup, DeferCleanup, ReconcilerVanishes, google
    <3>4. \A d \in Requests :
             (\E b \in Accounts : ClaimDisconnect(d, b)) \/ CompleteDisconnect(d)
                \/ FailDisconnect(d) \/ DisconnectVanishes(d) => UNCHANGED grant
      BY DEF ClaimDisconnect, CompleteDisconnect, FailDisconnect, DisconnectVanishes, google
    <3> QED
      BY <2>2, <2>4, <2>5, <2>6, <2>7, <2>8, <3>1, <3>2, <3>3, <3>4 DEF Next
<1> QED
  BY <1>1, <1>2

\* No revocation by a guardian, a reconciler or another account's disconnect,
\* and no completed request, leaves an active account with a dead token.
THEOREM CleanupSparesAccounts == Spec => GrantOutlivesCleanup
<1>1. GrantInv /\ [Next]_vars =>
        [\A a \in Accounts : Works(a) /\ account'[a].status = "active" => Works(a)']_vars
  BY WorksStep
<1> QED
  BY <1>1, GrantsAlways, PTL DEF Spec, GrantOutlivesCleanup
=============================================================================

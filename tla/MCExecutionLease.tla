-------------------------- MODULE MCExecutionLease --------------------------
(***************************************************************************)
(* Bounds for model checking ExecutionLease.                               *)
(***************************************************************************)
EXTENDS ExecutionLease, TLC

ClientSymmetry == Permutations(Clients)
KeySymmetry == Permutations(Keys)
SessionSymmetry == Permutations(SessionIds)
LeaseSymmetry == ClientSymmetry \cup KeySymmetry \cup SessionSymmetry

\* What decides the future of a lone client's session and of the clock: the
\* messages already sent and the contents of answers decide nothing, and a
\* request under an old revision ends without effect.
ClockView ==
    <<wall, revision, active, updatedAt, sessions, item, forward, startForward,
      [k \in Keys |-> IF idempotency[k] = None THEN None
                      ELSE idempotency[k].expiresAt],
      [c \in Clients |-> IF request[c] = None THEN <<>>
                         ELSE IF request[c].print.expected = revision
                              THEN <<request[c]>> ELSE <<None>>]>>
=============================================================================

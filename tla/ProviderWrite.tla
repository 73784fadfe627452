--------------------------- MODULE ProviderWrite ---------------------------
(***************************************************************************)
(* What a user who approves a write to Google is promised, whatever the    *)
(* processes, leases and connections in between do: an approved intent     *)
(* takes effect at the provider at most once, nothing takes effect that    *)
(* was not approved, and an intent is reported as published only when the  *)
(* provider has it.  An intent that was given up may still take effect     *)
(* (its request is under way) and may then still be reported, never the    *)
(* other way round.                                                        *)
(***************************************************************************)
EXTENDS Naturals

CONSTANT Intents

VARIABLES
    report,   \* what the user sees of each intent
    applied   \* how often the provider has carried it out

vars == <<report, applied>>

TypeOK ==
    /\ report \in [Intents -> {"none", "open", "closed", "published"}]
    /\ applied \in [Intents -> 0..1]

Init ==
    /\ report = [k \in Intents |-> "none"]
    /\ applied = [k \in Intents |-> 0]

\* The user hands an approved intent over; it replaces older open ones.
Submit(k, ks) ==
    /\ report[k] = "none"
    /\ \A j \in ks : report[j] = "open"
    /\ report' = [j \in Intents |-> IF j = k THEN "open"
                                    ELSE IF j \in ks THEN "closed" ELSE report[j]]
    /\ UNCHANGED applied

\* The provider carries the write out.
Apply(k) ==
    /\ report[k] # "none"
    /\ applied[k] = 0
    /\ applied' = [applied EXCEPT ![k] = 1]
    /\ UNCHANGED report

\* Outcomes are recorded: some intents are published, others given up
\* (superseded, in conflict, or failed).
Settle(ps, ks) ==
    /\ \A k \in ps : report[k] \in {"open", "closed"} /\ applied[k] = 1
    /\ \A k \in ks : report[k] = "open"
    /\ report' = [k \in Intents |-> IF k \in ps THEN "published"
                                    ELSE IF k \in ks THEN "closed" ELSE report[k]]
    /\ UNCHANGED applied

Next ==
    \/ \E k \in Intents, ks \in SUBSET Intents : Submit(k, ks)
    \/ \E k \in Intents : Apply(k)
    \/ \E ps, ks \in SUBSET Intents : Settle(ps, ks)

Spec == Init /\ [][Next]_vars
=============================================================================

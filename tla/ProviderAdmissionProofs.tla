---------------------- MODULE ProviderAdmissionProofs ----------------------
(***************************************************************************)
(* The safety of provider admission, for any number of runtimes,           *)
(* operations, contexts and deletions, durable or not.                     *)
(***************************************************************************)
EXTENDS ProviderAdmission, TLAPS

\* A running operation has a context, and an idle one has contexts to give.
ContextInv ==
    \A o \in Operations :
        /\ phase[o] = "running" => contexts[o] > 0
        /\ phase[o] = "idle" => spare[o] > 0

\* What is about to be settled was never cut off.
SettlingInv == \A o \in Operations : phase[o] = "settling" => ~interrupted[o]

\* A drain runs under the local closure it made, and after it has counted no
\* owner none appears.
DrainInv ==
    \A r \in Runtimes :
        /\ drain[r] # "none" => drainFor[r] \in Deletions /\ closing[r] = drainFor[r]
        /\ drain[r] \in {"checking", "proof"} =>
              \A o \in Operations : home[o] = r => phase[o] \notin Owned

\* What a proof and the fence say of the registry; both keep it closed.
RegistryInv ==
    /\ \A r \in Runtimes :
          drain[r] = "proof" /\ durable => closedFor = drainFor[r] /\ rows = {}
    /\ fence # None => durable /\ closedFor = fence /\ rows = {}

IInv ==
    /\ TypeOK
    /\ ContextInv
    /\ UncertainWorkIsRegistered
    /\ SettlingInv
    /\ DrainInv
    /\ RegistryInv

\* The initial state satisfies the inductive invariant.
LEMMA InitIInv == Init => IInv
BY AdmissionAssumption
   DEF Init, IInv, TypeOK, ContextInv, UncertainWorkIsRegistered, SettlingInv,
       DrainInv, RegistryInv, Phases, Draining

\* Every step keeps the types: what is subtracted from is positive.
LEMMA TypeStep == IInv /\ [Next]_<<deployment, vars>> => TypeOK'
<1> SUFFICES ASSUME IInv, [Next]_<<deployment, vars>> PROVE TypeOK'
  OBVIOUS
<1> durable' = durable /\ home' = home
  BY DEF Next, deployment
<1> USE AdmissionAssumption DEF IInv, TypeOK, Phases, Draining
<1>1. ASSUME NEW o \in Operations, OperationStep(o) PROVE TypeOK'
  <2>1. CASE EnterLocal(o)
    BY <2>1 DEF EnterLocal, ContextInv, drainVars, registryVars
  <2>2. CASE Register(o) \/ Begin(o) \/ LateRegister(o) \/ SettleUnanswered(o)
    BY <2>2 DEF Register, Begin, LateRegister, SettleUnanswered, operationVars,
       drainVars, registryVars
  <2>3. CASE Refused(o) \/ Abandon(o) \/ Settle(o)
    BY <2>3, Zenon DEF Refused, Abandon, Settle, DropOwner, Notified, registryVars
  <2>4. CASE Spawn(o)
    BY <2>4 DEF Spawn, drainVars, registryVars
  <2>5. ASSUME NEW cut \in BOOLEAN, EndContext(o, cut) PROVE TypeOK'
    <3>1. contexts[o] - 1 \in Nat
      BY <2>5 DEF EndContext, ContextInv
    <3>2. contexts' \in [Operations -> Nat]
      BY <2>5, <3>1 DEF EndContext
    <3>3. interrupted' \in [Operations -> BOOLEAN]
      BY <2>5, Zenon DEF EndContext
    <3>4. phase' \in [Operations -> Phases] /\ woken' \in [Runtimes -> BOOLEAN]
      BY <2>5, Zenon DEF EndContext, DropOwner, Notified, AfterLastContext
    <3> QED
      BY <2>5, <3>2, <3>3, <3>4 DEF EndContext, registryVars
  <2>6. CASE Finish(o) \/ Interrupt(o)
    BY <2>5, <2>6, Zenon DEF Finish, Interrupt
  <2> QED
    BY <1>1, <2>1, <2>2, <2>3, <2>4, <2>6 DEF OperationStep
<1>2. ASSUME NEW r \in Runtimes, RuntimeStep(r) PROVE TypeOK'
  <2>1. ASSUME NEW d \in Deletions, StartDrain(r, d) \/ Fence(r, d) PROVE TypeOK'
    BY <2>1 DEF StartDrain, Fence, Step, operationVars, drainVars, registryVars
  <2>2. CASE CloseScope(r)
    BY <2>2 DEF CloseScope, Step, operationVars, DrainInv
  <2>3. CASE Arm(r) \/ CountOwners(r) \/ CheckRegistry(r) \/ Park(r) \/ Wake(r)
    BY <2>3, Zenon DEF Arm, CountOwners, CheckRegistry, Park, Wake, Step, operationVars,
       registryVars
  <2>4. CASE Conflict(r) \/ GiveUp(r)
    BY <2>4 DEF Conflict, GiveUp, operationVars, registryVars
  <2>5. CASE Crash(r)
    BY <2>5 DEF Crash, AfterCrash, registryVars
  <2> QED
    BY <1>2, <2>1, <2>2, <2>3, <2>4, <2>5 DEF RuntimeStep
<1>3. ASSUME NEW d \in Deletions, DeletionStep(d) PROVE TypeOK'
  BY <1>3 DEF DeletionStep, Prepare, Cancel, CloseIfReady, operationVars, drainVars
<1>4. CASE UNCHANGED <<deployment, vars>>
  BY <1>4 DEF vars, deployment, operationVars, drainVars, registryVars
<1> QED
  BY <1>1, <1>2, <1>3, <1>4 DEF Next

\* Contexts are handed out and ended one at a time, and the last one ends the
\* running phase.
LEMMA ContextStep == IInv /\ [Next]_<<deployment, vars>> => ContextInv'
<1> SUFFICES ASSUME IInv, [Next]_<<deployment, vars>> PROVE ContextInv'
  OBVIOUS
<1> durable' = durable /\ home' = home
  BY DEF Next, deployment
<1> USE AdmissionAssumption DEF IInv, TypeOK, ContextInv
<1>1. ASSUME NEW o \in Operations, OperationStep(o) PROVE ContextInv'
  <2>1. CASE EnterLocal(o)
    BY <2>1 DEF EnterLocal
  <2>2. CASE Register(o) \/ Begin(o) \/ LateRegister(o) \/ SettleUnanswered(o)
    BY <2>2 DEF Register, Begin, LateRegister, SettleUnanswered, operationVars
  <2>3. CASE Refused(o) \/ Abandon(o) \/ Settle(o)
    BY <2>3 DEF Refused, Abandon, Settle, DropOwner
  <2>4. CASE Spawn(o)
    BY <2>4 DEF Spawn
  <2>5. ASSUME NEW cut \in BOOLEAN, EndContext(o, cut) PROVE ContextInv'
    BY <2>5 DEF EndContext, DropOwner, AfterLastContext
  <2>6. CASE Finish(o) \/ Interrupt(o)
    BY <2>5, <2>6, Zenon DEF Finish, Interrupt
  <2> QED
    BY <1>1, <2>1, <2>2, <2>3, <2>4, <2>6 DEF OperationStep
<1>2. ASSUME NEW r \in Runtimes, RuntimeStep(r) PROVE ContextInv'
  <2>1. CASE Crash(r)
    BY <2>1 DEF Crash, AfterCrash
  <2>2. CASE ~Crash(r)
    <3> UNCHANGED operationVars
      BY <1>2, <2>2 DEF RuntimeStep, StartDrain, Fence, CloseScope, Arm, CountOwners,
         CheckRegistry, Conflict, Park, Wake, GiveUp
    <3> QED
      BY DEF operationVars
  <2> QED
    BY <2>1, <2>2
<1>3. ASSUME NEW d \in Deletions, DeletionStep(d) PROVE ContextInv'
  BY <1>3 DEF DeletionStep, Prepare, Cancel, CloseIfReady, operationVars
<1>4. CASE UNCHANGED <<deployment, vars>>
  BY <1>4 DEF vars, deployment, operationVars
<1> QED
  BY <1>1, <1>2, <1>3, <1>4 DEF Next

\* The row of uncertain work stays: the only rows removed are those of
\* operations whose every context returned.
LEMMA RegisteredStep ==
    IInv /\ [Next]_<<deployment, vars>> => (UncertainWorkIsRegistered /\ SettlingInv)'
<1> SUFFICES ASSUME IInv, [Next]_<<deployment, vars>> PROVE (UncertainWorkIsRegistered /\ SettlingInv)'
  OBVIOUS
<1> durable' = durable /\ home' = home
  BY DEF Next, deployment
<1> USE AdmissionAssumption DEF IInv, TypeOK, UncertainWorkIsRegistered, SettlingInv
<1>1. ASSUME NEW o \in Operations, OperationStep(o)
      PROVE  (UncertainWorkIsRegistered /\ SettlingInv)'
  <2>1. CASE EnterLocal(o)
    BY <2>1 DEF EnterLocal, registryVars
  <2>2. CASE Register(o) \/ Begin(o) \/ LateRegister(o)
    BY <2>2 DEF Register, Begin, LateRegister, registryVars
  <2>3. CASE SettleUnanswered(o) \/ Settle(o)
    BY <2>3 DEF SettleUnanswered, Settle, operationVars
  <2>4. CASE Refused(o) \/ Abandon(o)
    BY <2>4 DEF Refused, Abandon, DropOwner, registryVars
  <2>5. CASE Spawn(o)
    BY <2>5 DEF Spawn, registryVars
  <2>6. CASE Finish(o)
    BY <2>6 DEF Finish, EndContext, DropOwner, AfterLastContext, registryVars
  <2>7. CASE Interrupt(o)
    BY <2>7 DEF Interrupt, EndContext, DropOwner, AfterLastContext, registryVars
  <2> QED
    BY <1>1, <2>1, <2>2, <2>3, <2>4, <2>5, <2>6, <2>7 DEF OperationStep
<1>2. ASSUME NEW r \in Runtimes, RuntimeStep(r)
      PROVE  (UncertainWorkIsRegistered /\ SettlingInv)'
  <2>1. CASE Crash(r)
    BY <2>1 DEF Crash, AfterCrash, registryVars
  <2>2. CASE ~Crash(r)
    <3> UNCHANGED operationVars /\ rows' = rows
      BY <1>2, <2>2 DEF RuntimeStep, StartDrain, Fence, CloseScope, Arm, CountOwners,
         CheckRegistry, Conflict, Park, Wake, GiveUp, registryVars
    <3> QED
      BY DEF operationVars
  <2> QED
    BY <2>1, <2>2
<1>3. ASSUME NEW d \in Deletions, DeletionStep(d)
      PROVE  (UncertainWorkIsRegistered /\ SettlingInv)'
  BY <1>3 DEF DeletionStep, Prepare, Cancel, CloseIfReady, operationVars
<1>4. CASE UNCHANGED <<deployment, vars>>
  BY <1>4 DEF vars, deployment, operationVars, registryVars
<1> QED
  BY <1>1, <1>2, <1>3, <1>4 DEF Next

\* The local closure is never lifted, so an owner count of zero stays zero.
LEMMA DrainStep == IInv /\ [Next]_<<deployment, vars>> => DrainInv'
<1> SUFFICES ASSUME IInv, [Next]_<<deployment, vars>> PROVE DrainInv'
  OBVIOUS
<1> durable' = durable /\ home' = home
  BY DEF Next, deployment
<1> USE AdmissionAssumption DEF IInv, TypeOK, DrainInv
<1>1. ASSUME NEW o \in Operations, OperationStep(o) PROVE DrainInv'
  <2>1. drain' = drain /\ drainFor' = drainFor /\ closing' = closing
    BY <1>1 DEF OperationStep, EnterLocal, Register, Begin, Refused, Abandon,
       LateRegister, Spawn, Finish, Interrupt, EndContext, Settle,
       SettleUnanswered, drainVars
  <2>2. ASSUME NEW q \in Operations, phase'[q] \in Owned, phase[q] \notin Owned
        PROVE  closing[home[q]] = None
    BY <1>1, <2>2 DEF OperationStep, EnterLocal, Register, Begin, Refused, Abandon,
       LateRegister, Spawn, Finish, Interrupt, EndContext, Settle,
       SettleUnanswered, DropOwner, AfterLastContext, operationVars, Owned
  <2> QED
    BY <2>1, <2>2
<1>2. ASSUME NEW r \in Runtimes, RuntimeStep(r) PROVE DrainInv'
  <2>1. CASE Crash(r)
    BY <2>1 DEF Crash, AfterCrash, Owned
  <2>2. ASSUME NEW d \in Deletions, StartDrain(r, d) PROVE DrainInv'
    BY <2>2 DEF StartDrain, Step, operationVars
  <2>3. ASSUME NEW d \in Deletions, Fence(r, d) PROVE DrainInv'
    BY <2>3 DEF Fence, operationVars, drainVars
  <2>4. CASE CountOwners(r)
    BY <2>4 DEF CountOwners, Step, operationVars, Active
  <2>5. CASE CloseScope(r) \/ Arm(r) \/ CheckRegistry(r) \/ Park(r) \/ Wake(r)
    BY <2>5 DEF CloseScope, Arm, CheckRegistry, Park, Wake, Step, operationVars
  <2>6. CASE Conflict(r) \/ GiveUp(r)
    BY <2>6 DEF Conflict, GiveUp, operationVars
  <2> QED
    BY <1>2, <2>1, <2>2, <2>3, <2>4, <2>5, <2>6 DEF RuntimeStep
<1>3. ASSUME NEW d \in Deletions, DeletionStep(d) PROVE DrainInv'
  BY <1>3 DEF DeletionStep, Prepare, Cancel, CloseIfReady, operationVars, drainVars
<1>4. CASE UNCHANGED <<deployment, vars>>
  BY <1>4 DEF vars, deployment, operationVars, drainVars
<1> QED
  BY <1>1, <1>2, <1>3, <1>4 DEF Next

\* A closed registry takes no row, late commits included, and its closure
\* changes hands to no other deletion.
LEMMA RegistryStep == IInv /\ [Next]_<<deployment, vars>> => RegistryInv'
<1> SUFFICES ASSUME IInv, [Next]_<<deployment, vars>> PROVE RegistryInv'
  OBVIOUS
<1> durable' = durable /\ home' = home
  BY DEF Next, deployment
<1> USE AdmissionAssumption DEF IInv, TypeOK, RegistryInv
<1>1. ASSUME NEW o \in Operations, OperationStep(o) PROVE RegistryInv'
  <2>1. /\ drain' = drain /\ drainFor' = drainFor
        /\ closedFor' = closedFor /\ fence' = fence
        /\ rows' \subseteq rows \/ closedFor = None
    BY <1>1 DEF OperationStep, EnterLocal, Register, Begin, Refused, Abandon,
       LateRegister, Spawn, Finish, Interrupt, EndContext, Settle,
       SettleUnanswered, Open, drainVars, registryVars
  <2> QED
    BY <2>1 DEF DrainInv
<1>2. ASSUME NEW r \in Runtimes, RuntimeStep(r) PROVE RegistryInv'
  <2>1. CASE Crash(r)
    BY <2>1 DEF Crash, registryVars
  <2>2. ASSUME NEW d \in Deletions, StartDrain(r, d) PROVE RegistryInv'
    BY <2>2 DEF StartDrain, Step, registryVars
  <2>3. ASSUME NEW d \in Deletions, Fence(r, d) PROVE RegistryInv'
    BY <2>3 DEF Fence, drainVars
  <2>4. CASE CountOwners(r)
    BY <2>4 DEF CountOwners, Step, registryVars
  <2>5. CASE CloseScope(r)
    BY <2>5 DEF CloseScope, Step, DrainInv
  <2>6. CASE Arm(r) \/ CheckRegistry(r) \/ Park(r) \/ Wake(r)
    BY <2>6 DEF Arm, CheckRegistry, Park, Wake, Step, registryVars
  <2>7. CASE Conflict(r) \/ GiveUp(r)
    BY <2>7 DEF Conflict, GiveUp, registryVars
  <2> QED
    BY <1>2, <2>1, <2>2, <2>3, <2>4, <2>5, <2>6, <2>7, Zenon DEF RuntimeStep
<1>3. ASSUME NEW d \in Deletions, DeletionStep(d) PROVE RegistryInv'
  BY <1>3 DEF DeletionStep, Prepare, Cancel, CloseIfReady, drainVars, DrainInv
<1>4. CASE UNCHANGED <<deployment, vars>>
  BY <1>4 DEF vars, deployment, drainVars, registryVars
<1> QED
  BY <1>1, <1>2, <1>3, <1>4 DEF Next

\* The conjuncts together are inductive.
THEOREM Inductive == Spec => []IInv
<1>1. IInv /\ [Next]_<<deployment, vars>> => IInv'
  BY TypeStep, ContextStep, RegisteredStep, DrainStep, RegistryStep DEF IInv
<1> QED
  BY InitIInv, <1>1, PTL DEF Spec

\* Every variable of the controllers and of the registry keeps its type.
THEOREM AdmissionTyped == Spec => []TypeOK
<1>1. IInv => TypeOK
  BY DEF IInv
<1> QED
  BY Inductive, <1>1, PTL

\* No crash, cancellation or lost answer leaves uncertain provider work
\* without its row.
THEOREM UncertainWorkStaysRegistered == Spec => []UncertainWorkIsRegistered
<1>1. IInv => UncertainWorkIsRegistered
  BY DEF IInv
<1> QED
  BY Inductive, <1>1, PTL

\* The proof close_and_drain returns does not expire.
THEOREM ProofsAreLasting == Spec => []ProofStaysTrue
<1>1. IInv => ProofStaysTrue
  BY DEF IInv, DrainInv, RegistryInv, ProofStaysTrue, Active
<1> QED
  BY Inductive, <1>1, PTL

\* A committed fence finds and leaves the provider quiet.
THEOREM FenceIsQuiet == Spec => []FencedIsQuiet
<1>1. IInv => FencedIsQuiet
  BY DEF IInv, UncertainWorkIsRegistered, RegistryInv, FencedIsQuiet
<1> QED
  BY Inductive, <1>1, PTL
=============================================================================

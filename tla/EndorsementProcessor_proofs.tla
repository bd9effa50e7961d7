---------------------- MODULE EndorsementProcessor_proofs -----------------------
(***************************************************************************)
(* Proofs about EndorsementProcessor, for every number of replicas, events *)
(* and transactions, every choice of faults and every bound.               *)
(***************************************************************************)
EXTENDS EndorsementProcessor, FiniteSetTheorems, TLAPS

\* A replica holds an event exactly at the labels of its processing, and the
\* event names a transaction at the labels that decide about one.
HoldInv ==
    /\ \A p \in Processors : current[p] # NoEvent <=> pc[p] \in Holding
    /\ \A p \in Processors : pc[p] \in Deciding => HasTxn(p)

TypeInv == TypeOK /\ HoldInv

\* The initial states are well typed.
LEMMA TypeInvInit == Init => TypeInv
  BY EndorserAssumption
     DEF Init, TypeInv, TypeOK, HoldInv, Payloads, Kinds, Unconditional, Facts,
         Labels, Holding, Finally, Deciding

\* The stream and the registry keep the types.
LEMMA TypeInvEnvironment ==
  ASSUME TypeInv,
         \/ \E e \in Events : Publish(e) \/ AckWaitExpires(e)
         \/ \E t \in Txns : RegistryChange(t)
  PROVE  TypeInv'
<1>1. ASSUME NEW e \in Events, Publish(e) \/ AckWaitExpires(e) PROVE TypeInv'
  BY <1>1 DEF TypeInv, TypeOK, HoldInv, Publish, AckWaitExpires, Fault, NoFault,
              HasTxn, vars, consumerVars, agentVars, registryVars, taskVars,
              resultVars
<1>2. ASSUME NEW t \in Txns, RegistryChange(t) PROVE TypeInv'
  BY <1>2 DEF TypeInv, TypeOK, HoldInv, RegistryChange, HasTxn, TxnOf,
              consumerVars, agentVars, resultVars
<1> QED BY <1>1, <1>2

\* The task's own life: it starts, subscribes, dies, is stopped or killed.
LEMMA TypeInvLife ==
  ASSUME TypeInv, NEW p \in Processors,
         \/ Start(p) \/ Subscribe(p) \/ FetchTimesOut(p)
         \/ LivenessProbe(p) \/ Stop(p) \/ Crash(p)
  PROVE  TypeInv'
<1> USE EndorserAssumption
    DEF TypeInv, TypeOK, HoldInv, HasTxn, TxnOf, Goto, Forget, Fault, NoFault,
        Labels, Hold, Holding, Finally, Recover, Deciding, consumerVars,
        agentVars, registryVars, resultVars
<1>1. CASE Start(p) BY <1>1 DEF Start
<1>2. CASE Subscribe(p) BY <1>2 DEF Subscribe
<1>3. CASE FetchTimesOut(p) BY <1>3 DEF FetchTimesOut
<1>4. CASE LivenessProbe(p) BY <1>4 DEF LivenessProbe, AreTasksRunning
<1>5. CASE Stop(p) BY <1>5 DEF Stop
<1>6. CASE Crash(p) BY <1>6 DEF Crash
<1> QED BY <1>1, <1>2, <1>3, <1>4, <1>5, <1>6

\* Processing an event.
LEMMA TypeInvProcessing ==
  ASSUME TypeInv, NEW p \in Processors,
         \/ \E e \in Events : Fetch(p, e)
         \/ ReadEvent(p) \/ GetTransaction(p) \/ ResolveSchema(p)
         \/ LookupActor(p) \/ LookupSchema(p) \/ Endorse(p)
         \/ RecordUnprocessable(p) \/ Ack(p)
  PROVE  TypeInv'
<1> USE EndorserAssumption
    DEF TypeInv, TypeOK, HoldInv, HasTxn, TxnOf, Goto, Forget, Fault, NoFault,
        Return, Raise, RetryOrGiveUp, Labels, Hold, Holding, Finally, Recover,
        Deciding, consumerVars, agentVars, registryVars, resultVars
<1>1. CASE \E e \in Events : Fetch(p, e) BY <1>1 DEF Fetch
<1>2. CASE ReadEvent(p) BY <1>2 DEF ReadEvent
<1>3. CASE GetTransaction(p) BY <1>3 DEF GetTransaction
<1>4. CASE ResolveSchema(p) BY <1>4 DEF ResolveSchema
<1>5. CASE LookupActor(p) BY <1>5 DEF LookupActor
<1>6. CASE LookupSchema(p) BY <1>6 DEF LookupSchema
<1>7. CASE Endorse(p) BY <1>7 DEF Endorse
<1>8. CASE RecordUnprocessable(p) BY <1>8 DEF RecordUnprocessable
<1>9. CASE Ack(p) BY <1>9 DEF Ack
<1> QED BY <1>1, <1>2, <1>3, <1>4, <1>5, <1>6, <1>7, <1>8, <1>9

\* Every reachable state is well typed, and a replica holds an event exactly
\* while it processes one.
LEMMA TypeInvAlways == Spec => []TypeInv
<1>1. Init => TypeInv BY TypeInvInit
<1>2. TypeInv /\ [Next]_vars => TypeInv'
  <2> SUFFICES ASSUME TypeInv, [Next]_vars PROVE TypeInv' OBVIOUS
  <2>1. CASE UNCHANGED vars
    BY <2>1 DEF TypeInv, TypeOK, HoldInv, HasTxn, vars, consumerVars, agentVars,
                registryVars, taskVars, resultVars
  <2>2. CASE Next
    BY <2>2, TypeInvEnvironment, TypeInvLife, TypeInvProcessing DEF Next, Task
  <2> QED BY <2>1, <2>2
<1> QED BY <1>1, <1>2, PTL DEF Spec

\* The type invariant holds throughout.
THEOREM TypeCorrect == Spec => []TypeOK
<1>1. TypeInv => TypeOK BY DEF TypeInv
<1> QED BY <1>1, TypeInvAlways, PTL

-----------------------------------------------------------------------------
(* Only registered issuers' definitions are endorsed.                      *)

\* Why EndorsesOnlyForIssuers holds: what the registry holds while a replica
\* has an event is in granted, a replica reaches lookup_schema only past a
\* registered issuer, and it reaches endorse past lookup_schema or for a
\* transaction that needs no lookup.
IssuerInv ==
    \A p \in Processors :
        /\ pc[p] \in Holding /\ HasTxn(p) => registry[TxnOf(p)] \subseteq granted[p]
        /\ pc[p] \in {"resolve_schema", "lookup_actor", "lookup_schema"} =>
            kind[TxnOf(p)] = "cred_def"
        /\ pc[p] = "lookup_schema" => "issuer" \in granted[p]
        /\ pc[p] = "endorse" =>
            \/ kind[TxnOf(p)] \in Unconditional
            \/ kind[TxnOf(p)] = "cred_def" /\ "issuer" \in granted[p]

\* No step lets a replica reach the endorse call without the facts it needs.
LEMMA IssuerInvStep ==
  ASSUME TypeInv, IssuerInv, [Next]_vars
  PROVE  IssuerInv'
<1> USE DEF TypeInv, TypeOK, HoldInv, IssuerInv, HasTxn, TxnOf, Goto, Forget,
            Return, Raise, Labels, Hold, Holding, Finally, Recover, Deciding,
            vars, consumerVars, agentVars, registryVars, taskVars, resultVars
<1>1. CASE UNCHANGED vars BY <1>1
<1>2. ASSUME NEW e \in Events, Publish(e) \/ AckWaitExpires(e) PROVE IssuerInv'
  BY <1>2 DEF Publish, AckWaitExpires
<1>3. ASSUME NEW t \in Txns, RegistryChange(t) PROVE IssuerInv'
  BY <1>3 DEF RegistryChange
<1>4. ASSUME NEW p \in Processors, NEW e \in Events, Fetch(p, e) PROVE IssuerInv'
  BY <1>4 DEF Fetch
<1>5. ASSUME NEW p \in Processors,
             \/ Start(p) \/ Subscribe(p) \/ FetchTimesOut(p) \/ LivenessProbe(p)
             \/ Stop(p) \/ Crash(p)
      PROVE  IssuerInv'
  BY <1>5 DEF Start, Subscribe, FetchTimesOut, LivenessProbe, Stop, Crash
<1>6. ASSUME NEW p \in Processors,
             ReadEvent(p) \/ GetTransaction(p) \/ ResolveSchema(p)
      PROVE  IssuerInv'
  BY <1>6 DEF ReadEvent, GetTransaction, ResolveSchema
<1>7. ASSUME NEW p \in Processors, LookupActor(p) \/ LookupSchema(p)
      PROVE  IssuerInv'
  BY <1>7 DEF LookupActor, LookupSchema, RetryOrGiveUp
<1>8. ASSUME NEW p \in Processors,
             Endorse(p) \/ RecordUnprocessable(p) \/ Ack(p)
      PROVE  IssuerInv'
  BY <1>8 DEF Endorse, RecordUnprocessable, Ack
<1> QED
  BY <1>1, <1>2, <1>3, <1>4, <1>5, <1>6, <1>7, <1>8 DEF Next, Task

\* Only Endorse changes the state of a transaction.
LEMMA EndorseStep ==
  ASSUME TypeInv, IssuerInv, [Next]_vars
  PROVE  EndorsesOn("issuer")
<1> USE DEF EndorsesOn, vars, consumerVars, agentVars, registryVars, taskVars,
            resultVars
<1>1. CASE UNCHANGED vars BY <1>1
<1>2. ASSUME NEW p \in Processors, Endorse(p) PROVE EndorsesOn("issuer")
  BY <1>2 DEF Endorse, EndorsedOn, IssuerInv, TypeInv, TypeOK, HoldInv, HasTxn,
              TxnOf, Deciding
<1>3. CASE UNCHANGED txnState BY <1>3
<1>4. ASSUME Next, ~ \E p \in Processors : Endorse(p) PROVE UNCHANGED txnState
  BY <1>4 DEF Next, Task, Publish, AckWaitExpires, RegistryChange, Start,
              Subscribe, Fetch, FetchTimesOut, LivenessProbe, Stop, Crash,
              ReadEvent, GetTransaction, ResolveSchema, LookupActor,
              LookupSchema, RecordUnprocessable, Ack
<1> QED BY <1>1, <1>2, <1>3, <1>4

\* A credential definition is endorsed only for a DID that was registered as
\* issuer while the replica had the event.
THEOREM OnlyIssuersEndorsed == Spec => EndorsesOnlyForIssuers
<1>1. Init => IssuerInv BY DEF Init, IssuerInv, Holding, Finally, Deciding
<1>2. TypeInv /\ IssuerInv /\ [Next]_vars => IssuerInv' BY IssuerInvStep
<1>3. TypeInv /\ IssuerInv /\ [Next]_vars => [EndorsesOn("issuer")]_vars
  BY EndorseStep
<1> QED
  BY <1>1, <1>2, <1>3, TypeInvAlways, PTL DEF Spec, EndorsesOnlyForIssuers

-----------------------------------------------------------------------------
(* Redelivery does not multiply endorsements.                              *)

\* The replicas that have read the record of t and not called endorse yet.
Stale(t) == {p \in Processors : pc[p] \in Deciding /\ TxnOf(p) = t}

\* Before t is endorsed no call is late; afterwards every late call uses up one
\* of the replicas that had read the record before, and no replica joins them.
LateInv ==
    \A t \in Txns :
        /\ txnState[t] = "request_received" => lateCalls[t] = 0
        /\ txnState[t] = "endorsed" =>
            lateCalls[t] + Cardinality(Stale(t)) < Cardinality(Processors)

\* Sets of replicas are finite, and one of fewer replicas is smaller.
LEMMA SmallerSet ==
  ASSUME NEW A \in SUBSET Processors, NEW B \in SUBSET A
  PROVE  /\ Cardinality(A) \in Nat /\ Cardinality(B) \in Nat
         /\ Cardinality(B) <= Cardinality(A)
         /\ A # B => Cardinality(B) < Cardinality(A)
  BY EndorserAssumption, FS_Subset, FS_CardinalityType, SMT

\* Only replicas can be stale.
LEMMA StaleType == ASSUME NEW t PROVE Stale(t) \in SUBSET Processors
  BY DEF Stale

\* A step that endorses nothing, makes no late call and lets no replica start
\* deciding about an endorsed transaction preserves LateInv.
LEMMA LateInvKept ==
  ASSUME TypeInv, LateInv, UNCHANGED <<txnState, lateCalls>>,
         \A t \in Txns : txnState[t] = "endorsed" => Stale(t)' \subseteq Stale(t)
  PROVE  LateInv'
<1> SUFFICES ASSUME NEW t \in Txns
             PROVE  /\ txnState'[t] = "request_received" => lateCalls'[t] = 0
                    /\ txnState'[t] = "endorsed" =>
                        lateCalls'[t] + Cardinality(Stale(t)') < Cardinality(Processors)
  BY DEF LateInv
<1>1. CASE txnState[t] = "request_received" BY <1>1 DEF LateInv
<1>2. CASE txnState[t] = "endorsed"
  <2>1. Cardinality(Stale(t)') <= Cardinality(Stale(t))
    BY <1>2, StaleType, SmallerSet
  <2>2. /\ Cardinality(Stale(t)) \in Nat /\ Cardinality(Stale(t)') \in Nat
        /\ Cardinality(Processors) \in Nat
    BY <1>2, StaleType, SmallerSet
  <2>3. lateCalls[t] \in Nat BY DEF TypeInv, TypeOK
  <2> QED BY <1>2, <2>1, <2>2, <2>3 DEF LateInv
<1> QED BY <1>1, <1>2 DEF TypeInv, TypeOK

\* A late call uses up the stale replica that makes it.
LEMMA LateInvEndorse ==
  ASSUME TypeInv, LateInv, NEW p \in Processors, Endorse(p)
  PROVE  LateInv'
<1>1. PICK t \in Txns : t = TxnOf(p) /\ p \in Stale(t)
  BY DEF Endorse, TypeInv, TypeOK, HoldInv, HasTxn, TxnOf, Stale, Deciding
<1>2. \A u \in Txns : Stale(u)' \subseteq Stale(u)
  BY DEF Stale, Endorse, Goto, Return, Raise, TxnOf, TypeInv, TypeOK, Deciding,
         consumerVars
<1>3. p \notin Stale(t)'
  BY DEF Stale, Endorse, Goto, Return, Raise, TypeInv, TypeOK, Deciding
<1>4. ASSUME NEW u \in Txns
      PROVE  /\ Cardinality(Stale(u)) \in Nat /\ Cardinality(Stale(u)') \in Nat
             /\ Cardinality(Processors) \in Nat
             /\ Cardinality(Stale(u)') <= Cardinality(Stale(u))
             /\ u = t => Cardinality(Stale(u)') < Cardinality(Stale(u))
             /\ Cardinality(Stale(u)) <= Cardinality(Processors)
             /\ lateCalls[u] \in Nat
  <2>1. Stale(u)' \in SUBSET Stale(u) BY <1>2
  <2>2. Stale(u) \in SUBSET Processors BY StaleType
  <2>3. u = t => Stale(u) # Stale(u)' BY <1>1, <1>3
  <2> QED BY <2>1, <2>2, <2>3, SmallerSet DEF TypeInv, TypeOK
<1>5. CASE UNCHANGED <<txnState, lateCalls>>
  BY <1>2, <1>5, LateInvKept
<1>6. CASE /\ txnState[t] = "request_received"
           /\ txnState' = [txnState EXCEPT ![t] = "endorsed"]
           /\ UNCHANGED lateCalls
  BY <1>1, <1>4, <1>6 DEF LateInv, TypeInv, TypeOK
<1>7. CASE /\ txnState[t] = "endorsed"
           /\ lateCalls' = [lateCalls EXCEPT ![t] = @ + 1]
           /\ UNCHANGED txnState
  BY <1>1, <1>4, <1>7 DEF LateInv, TypeInv, TypeOK
<1> QED BY <1>1, <1>5, <1>6, <1>7 DEF Endorse

\* No step breaks the count of stale replicas and late calls.
LEMMA LateInvStep ==
  ASSUME TypeInv, LateInv, [Next]_vars
  PROVE  LateInv'
<1> USE DEF TypeInv, TypeOK, HoldInv, HasTxn, TxnOf, Stale, Goto, Forget, Return,
            Raise, Hold, Holding, Finally, Recover, Deciding, vars, consumerVars,
            agentVars, registryVars, taskVars, resultVars
<1>1. CASE UNCHANGED vars BY <1>1, LateInvKept
<1>2. ASSUME NEW e \in Events, Publish(e) \/ AckWaitExpires(e) PROVE LateInv'
  BY <1>2, LateInvKept DEF Publish, AckWaitExpires
<1>3. ASSUME NEW t \in Txns, RegistryChange(t) PROVE LateInv'
  BY <1>3, LateInvKept DEF RegistryChange
<1>4. ASSUME NEW p \in Processors, NEW e \in Events, Fetch(p, e) PROVE LateInv'
  BY <1>4, LateInvKept DEF Fetch
<1>5. ASSUME NEW p \in Processors,
             \/ Start(p) \/ Subscribe(p) \/ FetchTimesOut(p) \/ LivenessProbe(p)
             \/ Stop(p) \/ Crash(p)
      PROVE  LateInv'
  BY <1>5, LateInvKept
     DEF Start, Subscribe, FetchTimesOut, LivenessProbe, Stop, Crash
<1>6. ASSUME NEW p \in Processors,
             ReadEvent(p) \/ GetTransaction(p) \/ ResolveSchema(p)
      PROVE  LateInv'
  BY <1>6, LateInvKept DEF ReadEvent, GetTransaction, ResolveSchema
<1>7. ASSUME NEW p \in Processors, LookupActor(p) \/ LookupSchema(p)
      PROVE  LateInv'
  BY <1>7, LateInvKept DEF LookupActor, LookupSchema, RetryOrGiveUp
<1>8. ASSUME NEW p \in Processors, RecordUnprocessable(p) \/ Ack(p)
      PROVE  LateInv'
  BY <1>8, LateInvKept DEF RecordUnprocessable, Ack
<1>9. ASSUME NEW p \in Processors, Endorse(p) PROVE LateInv'
  BY <1>9, LateInvEndorse
<1> QED
  BY <1>1, <1>2, <1>3, <1>4, <1>5, <1>6, <1>7, <1>8, <1>9 DEF Next, Task

\* Once a transaction is endorsed, endorse is called for it fewer times than
\* there are replicas, however often its events are redelivered.
THEOREM LateCallsAreBounded == Spec => []LateCallsBounded
<1>1. Init => LateInv BY DEF Init, LateInv
<1>2. TypeInv /\ LateInv /\ [Next]_vars => LateInv' BY LateInvStep
<1>3. TypeInv /\ LateInv => LateCallsBounded
  <2> SUFFICES ASSUME TypeInv, LateInv, NEW t \in Txns
               PROVE  lateCalls[t] < Cardinality(Processors)
    BY DEF LateCallsBounded
  <2>1. Cardinality(Stale(t)) \in Nat /\ Cardinality(Processors) \in Nat
    BY StaleType, SmallerSet
  <2>2. Cardinality(Processors) # 0
    BY EndorserAssumption, FS_EmptySet
  <2> QED BY <2>1, <2>2 DEF LateInv, TypeInv, TypeOK
<1> QED BY <1>1, <1>2, <1>3, TypeInvAlways, PTL DEF Spec

-----------------------------------------------------------------------------
(* The service implements the at-least-once consumer.                      *)

\* Without cancellation a replica acknowledges only what it dealt with.
ConsumerInv ==
    /\ \A p \in Processors :
        /\ shutdown[p] = "no"
        /\ pc[p] # "unrecorded"
        /\ pc[p] = "ack" => current[p] \in handled \cup unprocessable
        /\ current[p] # NoEvent => delivery[current[p]] # "unpublished"
    /\ AckedImpliesHandled

\* Tasks are not cancelled and the unprocessable subject can be written.
NoLossyFault == "stop" \notin Faults /\ "publish" \notin Faults

\* No step acknowledges an event before it is handled.
LEMMA ConsumerInvStep ==
  ASSUME NoLossyFault, TypeInv, ConsumerInv, [Next]_vars
  PROVE  ConsumerInv'
<1> USE DEF NoLossyFault, TypeInv, TypeOK, HoldInv, ConsumerInv,
            AckedImpliesHandled, Goto, Forget, Return, Raise, Fault, Hold,
            Holding, Finally, Recover, Deciding, vars, consumerVars, agentVars,
            registryVars, taskVars, resultVars
<1>1. CASE UNCHANGED vars BY <1>1
<1>2. ASSUME NEW e \in Events, Publish(e) \/ AckWaitExpires(e) PROVE ConsumerInv'
  BY <1>2 DEF Publish, AckWaitExpires
<1>3. ASSUME NEW t \in Txns, RegistryChange(t) PROVE ConsumerInv'
  BY <1>3 DEF RegistryChange
<1>4. ASSUME NEW p \in Processors, NEW e \in Events, Fetch(p, e) PROVE ConsumerInv'
  BY <1>4 DEF Fetch
<1>5. ASSUME NEW p \in Processors,
             \/ Start(p) \/ Subscribe(p) \/ FetchTimesOut(p) \/ LivenessProbe(p)
             \/ Stop(p) \/ Crash(p)
      PROVE  ConsumerInv'
  BY <1>5 DEF Start, Subscribe, FetchTimesOut, LivenessProbe, Stop, Crash
<1>6. ASSUME NEW p \in Processors,
             ReadEvent(p) \/ GetTransaction(p) \/ ResolveSchema(p)
      PROVE  ConsumerInv'
  BY <1>6 DEF ReadEvent, GetTransaction, ResolveSchema
<1>7. ASSUME NEW p \in Processors, LookupActor(p) \/ LookupSchema(p)
      PROVE  ConsumerInv'
  BY <1>7 DEF LookupActor, LookupSchema, RetryOrGiveUp
<1>8. ASSUME NEW p \in Processors,
             Endorse(p) \/ RecordUnprocessable(p) \/ Ack(p)
      PROVE  ConsumerInv'
  BY <1>8 DEF Endorse, RecordUnprocessable, Ack
<1> QED
  BY <1>1, <1>2, <1>3, <1>4, <1>5, <1>6, <1>7, <1>8 DEF Next, Task

\* Every step is a step of the abstract consumer, or a stutter.
LEMMA ConsumerStep ==
  ASSUME NoLossyFault, TypeInv, ConsumerInv, [Next]_vars
  PROVE  [Consumer!Next]_(Consumer!vars)
<1> USE DEF NoLossyFault, TypeInv, TypeOK, HoldInv, ConsumerInv, Goto, Forget,
            Return, Raise, Fault, Hold, Holding, Finally, Recover, Deciding,
            Consumer!vars, Consumer!Next, Consumer!Publish, Consumer!Process,
            Consumer!Acknowledge, vars, consumerVars, agentVars, registryVars,
            taskVars, resultVars
<1>1. CASE UNCHANGED vars BY <1>1
<1>2. ASSUME NEW e \in Events, Publish(e) PROVE Consumer!Publish(e)
  BY <1>2 DEF Publish
<1>3. ASSUME UNCHANGED resultVars,
             {e \in Events : delivery'[e] # "unpublished"}
                = {e \in Events : delivery[e] # "unpublished"},
             {e \in Events : delivery'[e] = "acked"}
                = {e \in Events : delivery[e] = "acked"}
      PROVE  UNCHANGED Consumer!vars
  BY <1>3
<1>4. ASSUME NEW e \in Events, AckWaitExpires(e) PROVE UNCHANGED Consumer!vars
  BY <1>3, <1>4 DEF AckWaitExpires
<1>5. ASSUME NEW p \in Processors, NEW e \in Events, Fetch(p, e)
      PROVE  UNCHANGED Consumer!vars
  BY <1>3, <1>5 DEF Fetch
<1>6. ASSUME NEW p \in Processors,
             \/ Start(p) \/ Subscribe(p) \/ FetchTimesOut(p) \/ LivenessProbe(p)
             \/ Stop(p) \/ Crash(p)
      PROVE  UNCHANGED Consumer!vars
  BY <1>3, <1>6 DEF Start, Subscribe, FetchTimesOut, LivenessProbe, Stop, Crash
<1>7. ASSUME NEW t \in Txns, RegistryChange(t) PROVE UNCHANGED Consumer!vars
  BY <1>3, <1>7 DEF RegistryChange
<1>8. ASSUME NEW p \in Processors, UNCHANGED delivery, pc[p] \in Holding,
             \/ UNCHANGED resultVars
             \/ handled' = handled \cup {current[p]} /\ UNCHANGED unprocessable
             \/ unprocessable' = unprocessable \cup {current[p]} /\ UNCHANGED handled
      PROVE  UNCHANGED Consumer!vars \/ Consumer!Process(current[p])
  BY <1>8
<1>9. ASSUME NEW p \in Processors,
             \/ ReadEvent(p) \/ GetTransaction(p) \/ ResolveSchema(p)
             \/ LookupActor(p) \/ LookupSchema(p) \/ Endorse(p)
             \/ RecordUnprocessable(p)
      PROVE  UNCHANGED Consumer!vars \/ Consumer!Process(current[p])
  BY <1>8, <1>9 DEF ReadEvent, GetTransaction, ResolveSchema, LookupActor,
              LookupSchema, RetryOrGiveUp, Endorse, RecordUnprocessable
<1>10. ASSUME NEW p \in Processors, Ack(p)
       PROVE  UNCHANGED Consumer!vars \/ Consumer!Acknowledge(current[p])
  <2>1. current[p] \in Events BY <1>10 DEF Ack
  <2>2. CASE UNCHANGED delivery BY <1>3, <1>10, <2>2 DEF Ack
  <2>3. CASE delivery' = [delivery EXCEPT ![current[p]] = "acked"]
    BY <1>10, <2>1, <2>3 DEF Ack
  <2> QED BY <1>10, <2>2, <2>3 DEF Ack
<1>11. \A p \in Processors : pc[p] \in Holding => current[p] \in Events OBVIOUS
<1> QED
  BY <1>1, <1>2, <1>4, <1>5, <1>6, <1>7, <1>9, <1>10, <1>11
     DEF Next, Task, ReadEvent, GetTransaction, ResolveSchema, LookupActor,
         LookupSchema, Endorse, RecordUnprocessable, Ack

\* If tasks are not cancelled and the unprocessable subject can be written, no
\* event leaves the stream before it is dealt with.
THEOREM AtLeastOnce ==
  ASSUME NoLossyFault PROVE Spec => ImplementsAtLeastOnce
<1>1. Init => ConsumerInv /\ Consumer!Init
  BY DEF Init, ConsumerInv, AckedImpliesHandled, Consumer!Init
<1>2. TypeInv /\ ConsumerInv /\ [Next]_vars => ConsumerInv' BY ConsumerInvStep
<1>3. TypeInv /\ ConsumerInv /\ [Next]_vars => [Consumer!Next]_(Consumer!vars)
  BY ConsumerStep
<1> QED
  BY <1>1, <1>2, <1>3, TypeInvAlways, PTL
     DEF Spec, ImplementsAtLeastOnce, Consumer!Spec

-----------------------------------------------------------------------------
(* Only definitions over registered schemas are endorsed.                  *)

\* The other half of is_valid_issuer: a credential definition is endorsed only
\* when its schema was in the trust registry at some moment while the replica
\* had the event.
EndorsesOnlyRegisteredSchemas == [][EndorsesOn("schema")]_vars

\* Past lookup_schema the schema was seen in the registry.
SchemaInv ==
    \A p \in Processors :
        pc[p] = "endorse" =>
            \/ kind[TxnOf(p)] \in Unconditional
            \/ kind[TxnOf(p)] = "cred_def" /\ "schema" \in granted[p]

\* When every lookup is answered, no step lets a replica reach the endorse call
\* of a credential definition without its schema.
LEMMA SchemaInvStep ==
  ASSUME "connect_timeout" \notin Faults,
         TypeInv, IssuerInv, SchemaInv, [Next]_vars
  PROVE  SchemaInv'
<1> USE DEF TypeInv, TypeOK, HoldInv, IssuerInv, SchemaInv, HasTxn, TxnOf, Goto,
            Forget, Return, Raise, Fault, Labels, Hold, Holding, Finally,
            Recover, Deciding, vars, consumerVars, agentVars, registryVars,
            taskVars, resultVars
<1>1. CASE UNCHANGED vars BY <1>1
<1>2. ASSUME NEW e \in Events, Publish(e) \/ AckWaitExpires(e) PROVE SchemaInv'
  BY <1>2 DEF Publish, AckWaitExpires
<1>3. ASSUME NEW t \in Txns, RegistryChange(t) PROVE SchemaInv'
  BY <1>3 DEF RegistryChange
<1>4. ASSUME NEW p \in Processors, NEW e \in Events, Fetch(p, e) PROVE SchemaInv'
  BY <1>4 DEF Fetch
<1>5. ASSUME NEW p \in Processors,
             \/ Start(p) \/ Subscribe(p) \/ FetchTimesOut(p) \/ LivenessProbe(p)
             \/ Stop(p) \/ Crash(p)
      PROVE  SchemaInv'
  BY <1>5 DEF Start, Subscribe, FetchTimesOut, LivenessProbe, Stop, Crash
<1>6. ASSUME NEW p \in Processors,
             ReadEvent(p) \/ GetTransaction(p) \/ ResolveSchema(p)
      PROVE  SchemaInv'
  BY <1>6 DEF ReadEvent, GetTransaction, ResolveSchema
<1>7. ASSUME NEW p \in Processors, LookupActor(p) \/ LookupSchema(p)
      PROVE  SchemaInv'
  BY <1>7 DEF LookupActor, LookupSchema, RetryOrGiveUp
<1>8. ASSUME NEW p \in Processors,
             Endorse(p) \/ RecordUnprocessable(p) \/ Ack(p)
      PROVE  SchemaInv'
  BY <1>8 DEF Endorse, RecordUnprocessable, Ack
<1> QED
  BY <1>1, <1>2, <1>3, <1>4, <1>5, <1>6, <1>7, <1>8 DEF Next, Task

\* Only Endorse changes the state of a transaction, past lookup_schema.
LEMMA EndorseSchemaStep ==
  ASSUME TypeInv, SchemaInv, [Next]_vars
  PROVE  EndorsesOn("schema")
<1> USE DEF EndorsesOn, vars, consumerVars, agentVars, registryVars, taskVars,
            resultVars
<1>1. CASE UNCHANGED vars BY <1>1
<1>2. ASSUME NEW p \in Processors, Endorse(p) PROVE EndorsesOn("schema")
  BY <1>2 DEF Endorse, EndorsedOn, SchemaInv, TypeInv, TypeOK, HoldInv, HasTxn,
              TxnOf, Deciding
<1>3. CASE UNCHANGED txnState BY <1>3
<1>4. ASSUME Next, ~ \E p \in Processors : Endorse(p) PROVE UNCHANGED txnState
  BY <1>4 DEF Next, Task, Publish, AckWaitExpires, RegistryChange, Start,
              Subscribe, Fetch, FetchTimesOut, LivenessProbe, Stop, Crash,
              ReadEvent, GetTransaction, ResolveSchema, LookupActor,
              LookupSchema, RecordUnprocessable, Ack
<1> QED BY <1>1, <1>2, <1>3, <1>4

\* If the trust registry answers within the three attempts of RichAsyncClient,
\* a credential definition is endorsed only over a schema that was registered
\* while the replica had the event.  Without the hypothesis it is false: three
\* ConnectTimeouts make the client return None, and get_schema_from_registry
\* does not look at what it was given.
THEOREM OnlyRegisteredSchemasEndorsed ==
  ASSUME "connect_timeout" \notin Faults
  PROVE  Spec => EndorsesOnlyRegisteredSchemas
<1>1. Init => IssuerInv /\ SchemaInv
  BY DEF Init, IssuerInv, SchemaInv, Holding, Finally, Deciding
<1>2. TypeInv /\ IssuerInv /\ [Next]_vars => IssuerInv' BY IssuerInvStep
<1>3. TypeInv /\ IssuerInv /\ SchemaInv /\ [Next]_vars => SchemaInv'
  BY SchemaInvStep
<1>4. TypeInv /\ SchemaInv /\ [Next]_vars => [EndorsesOn("schema")]_vars
  BY EndorseSchemaStep
<1> QED
  BY <1>1, <1>2, <1>3, <1>4, TypeInvAlways, PTL
     DEF Spec, EndorsesOnlyRegisteredSchemas

-----------------------------------------------------------------------------
(* The processing of one event is bounded.                                 *)

\* How far into one attempt a label is.
Progress == [l \in Holding |->
    CASE l = "event" -> 0          [] l = "resolve_schema" -> 1
      [] l = "lookup_actor" -> 2   [] l = "lookup_schema" -> 3
      [] l = "endorse" -> 4        [] l = "record" -> 5
      [] l \in Finally -> 6]

\* The most steps that p can still take with the event it holds: each retry of
\* retry_is_valid_issuer starts an attempt over, and there are fewer than
\* MaxRetries of them.
StepsLeft(p) == 7 * (MaxRetries - 1 - attempt[p]) + 7 - Progress[pc[p]]

\* A step lets go of the event that p holds, or leaves fewer steps to go, or is
\* no step of p.
Advances(p) ==
    pc[p] \in Holding =>
        /\ StepsLeft(p) \in 1..(7 * MaxRetries)
        /\ \/ pc'[p] \notin Holding
           \/ current'[p] = current[p] /\ StepsLeft(p)' < StepsLeft(p)
           \/ UNCHANGED <<pc[p], current[p], attempt[p]>>

\* A replica is never stuck with an event: each of its steps while it holds one
\* either lets go of it or leaves it fewer steps to go, from at most
\* 7 * MaxRetries; what the registry, the agent, the stream and the other
\* replicas do in between does not put it back.
ProcessingBounded == [][\A p \in Processors : Advances(p)]_vars

\* The number of steps left is positive and bounded.
LEMMA StepsLeftType ==
  ASSUME TypeInv, NEW p \in Processors, pc[p] \in Holding
  PROVE  StepsLeft(p) \in 1..(7 * MaxRetries)
<1>1. Progress[pc[p]] \in 0..6 BY DEF Progress, Holding, Finally, Deciding
<1>2. attempt[p] \in 0..(MaxRetries - 1) BY DEF TypeInv, TypeOK
<1>3. attempt[p] \in Int /\ 0 <= attempt[p] /\ attempt[p] <= MaxRetries - 1
  BY <1>2, EndorserAssumption
<1> QED BY <1>1, <1>3, EndorserAssumption DEF StepsLeft

\* A later label of the same attempt, and any label of a later attempt, leave
\* fewer steps.
LEMMA StepsLeftLess ==
  ASSUME TypeInv, TypeInv', NEW p \in Processors,
         pc[p] \in Holding, pc'[p] \in Holding,
         \/ attempt'[p] = attempt[p] /\ Progress[pc[p]] < Progress[pc'[p]]
         \/ attempt'[p] = attempt[p] + 1 /\ pc'[p] = "lookup_actor"
  PROVE  StepsLeft(p)' < StepsLeft(p)
<1>1. Progress[pc[p]] \in 0..6 /\ Progress[pc'[p]] \in 0..6
      /\ Progress["lookup_actor"] = 2
  BY DEF Progress, Holding, Finally, Deciding
<1>2. attempt[p] \in 0..(MaxRetries - 1) /\ attempt'[p] \in 0..(MaxRetries - 1)
  BY DEF TypeInv, TypeOK
<1>3. attempt[p] \in Int /\ attempt'[p] \in Int BY <1>2, EndorserAssumption
<1>4. StepsLeft(p)' = 7 * (MaxRetries - 1 - attempt'[p]) + 7 - Progress[pc'[p]]
  BY DEF StepsLeft
<1> QED BY <1>1, <1>3, <1>4, EndorserAssumption DEF StepsLeft

\* The steps of p's own task.
LEMMA AdvancesOwn ==
  ASSUME TypeInv, TypeInv', NEW p \in Processors, pc[p] \in Holding,
         Task(p) \/ Stop(p) \/ Crash(p) \/ Start(p) \/ LivenessProbe(p)
  PROVE  Advances(p)
<1> SUFFICES ASSUME pc'[p] \in Holding
             PROVE  current'[p] = current[p] /\ StepsLeft(p)' < StepsLeft(p)
  BY StepsLeftType DEF Advances
<1> USE DEF TypeInv, TypeOK, Hold, Holding, Finally, Recover, Deciding, Labels,
            Goto, Return, Raise
<1>1. ASSUME current'[p] = current[p], attempt'[p] = attempt[p],
             Progress[pc[p]] < Progress[pc'[p]]
      PROVE  current'[p] = current[p] /\ StepsLeft(p)' < StepsLeft(p)
  BY <1>1, StepsLeftLess
<1>2. ASSUME current'[p] = current[p], attempt'[p] = attempt[p] + 1,
             pc'[p] = "lookup_actor"
      PROVE  current'[p] = current[p] /\ StepsLeft(p)' < StepsLeft(p)
  BY <1>2, StepsLeftLess
<1>3. CASE ReadEvent(p) BY <1>1, <1>3 DEF ReadEvent, Progress
<1>4. CASE GetTransaction(p) BY <1>1, <1>4 DEF GetTransaction, Progress
<1>5. CASE ResolveSchema(p) BY <1>1, <1>5 DEF ResolveSchema, Progress
<1>6. CASE LookupActor(p)
  BY <1>1, <1>2, <1>6 DEF LookupActor, RetryOrGiveUp, Progress
<1>7. CASE LookupSchema(p)
  BY <1>1, <1>2, <1>7 DEF LookupSchema, RetryOrGiveUp, Progress
<1>8. CASE Endorse(p) BY <1>1, <1>8 DEF Endorse, Progress
<1>9. CASE RecordUnprocessable(p) BY <1>1, <1>9 DEF RecordUnprocessable, Progress
<1>10. CASE Stop(p) BY <1>1, <1>10 DEF Stop, Progress
<1>11. CASE \/ Subscribe(p) \/ FetchTimesOut(p) \/ Ack(p) \/ Crash(p)
            \/ Start(p) \/ LivenessProbe(p) \/ \E e \in Events : Fetch(p, e)
  BY <1>11 DEF Subscribe, FetchTimesOut, Ack, Crash, Start, LivenessProbe, Fetch,
               AreTasksRunning
<1> QED
  BY <1>3, <1>4, <1>5, <1>6, <1>7, <1>8, <1>9, <1>10, <1>11 DEF Task

\* The steps of everything else leave p's event, label and attempt alone.
LEMMA AdvancesOther ==
  ASSUME TypeInv, NEW p \in Processors, pc[p] \in Holding,
         \/ \E e \in Events : Publish(e) \/ AckWaitExpires(e)
         \/ \E t \in Txns : RegistryChange(t)
         \/ \E q \in Processors \ {p} :
              Task(q) \/ Start(q) \/ LivenessProbe(q) \/ Stop(q) \/ Crash(q)
         \/ UNCHANGED vars
  PROVE  Advances(p)
<1> SUFFICES UNCHANGED <<pc[p], current[p], attempt[p]>>
  BY StepsLeftType DEF Advances
<1> USE DEF TypeInv, TypeOK, Goto, Forget, Hold, Recover, Return, Raise, vars,
            taskVars
<1>1. CASE \E e \in Events : Publish(e) \/ AckWaitExpires(e)
  BY <1>1 DEF Publish, AckWaitExpires
<1>2. CASE \E t \in Txns : RegistryChange(t) BY <1>2 DEF RegistryChange
<1>3. CASE UNCHANGED vars BY <1>3
<1>4. ASSUME NEW q \in Processors \ {p},
             \/ Start(q) \/ Subscribe(q) \/ FetchTimesOut(q) \/ LivenessProbe(q)
             \/ Stop(q) \/ Crash(q) \/ \E e \in Events : Fetch(q, e)
      PROVE  UNCHANGED <<pc[p], current[p], attempt[p]>>
  BY <1>4 DEF Start, Subscribe, FetchTimesOut, LivenessProbe, Stop, Crash, Fetch
<1>5. ASSUME NEW q \in Processors \ {p},
             \/ ReadEvent(q) \/ GetTransaction(q) \/ ResolveSchema(q)
             \/ LookupActor(q) \/ LookupSchema(q) \/ Endorse(q)
             \/ RecordUnprocessable(q) \/ Ack(q)
      PROVE  UNCHANGED <<pc[p], current[p], attempt[p]>>
  BY <1>5 DEF ReadEvent, GetTransaction, ResolveSchema, LookupActor, LookupSchema,
              RetryOrGiveUp, Endorse, RecordUnprocessable, Ack
<1> QED BY <1>1, <1>2, <1>3, <1>4, <1>5 DEF Task

\* A replica takes at most 7 * MaxRetries steps with one event, whatever fails.
\* This is the part of EveryEventConsumed that needs no fairness.
THEOREM ProcessingIsBounded == Spec => ProcessingBounded
<1>1. TypeInv /\ TypeInv' /\ [Next]_vars =>
        [\A p \in Processors : Advances(p)]_vars
  <2> SUFFICES ASSUME TypeInv, TypeInv', [Next]_vars, NEW p \in Processors
               PROVE  Advances(p)
    OBVIOUS
  <2>0. CASE pc[p] \notin Holding BY <2>0 DEF Advances
  <2>1. ASSUME pc[p] \in Holding, UNCHANGED vars PROVE Advances(p)
    BY <2>1, AdvancesOther
  <2>2. ASSUME pc[p] \in Holding, Next PROVE Advances(p)
    <3>1. \/ Task(p) \/ Stop(p) \/ Crash(p) \/ Start(p) \/ LivenessProbe(p)
          \/ \E e \in Events : Publish(e) \/ AckWaitExpires(e)
          \/ \E t \in Txns : RegistryChange(t)
          \/ \E q \in Processors \ {p} :
               Task(q) \/ Start(q) \/ LivenessProbe(q) \/ Stop(q) \/ Crash(q)
      BY <2>2, Zenon DEF Next
    <3> QED BY <2>2, <3>1, AdvancesOwn, AdvancesOther
  <2> QED BY <2>0, <2>1, <2>2
<1> QED
  BY <1>1, TypeInvAlways, PTL DEF ProcessingBounded, Spec

=============================================================================

------------------------ MODULE EndorsementProcessor ------------------------
(***************************************************************************)
(* The endorser service (src/endorser): replicas that share one durable    *)
(* JetStream pull consumer, read endorsement events from it one at a time, *)
(* decide whether the transaction each event names may be endorsed by the  *)
(* governance agent, endorse it, and acknowledge the event.                *)
(*                                                                         *)
(* Every await of the processing loop is a step of its own, so the         *)
(* registry may change, another replica may act, the task may be cancelled *)
(* and the process may die between any two of them.                        *)
(***************************************************************************)
EXTENDS Naturals, FiniteSets

CONSTANTS
    Processors,         \* replicas of the endorser service
    Events,             \* endorsement events of the stream
    Txns,               \* transaction records of the governance agent
    MaxRetries,         \* max_retries of retry_is_valid_issuer (5 in the code)
    Faults,             \* the kinds of fault that may happen
    MaxFaults,          \* bound: faults in a behaviour
    MaxRegistryChanges, \* bound: changes of the trust registry in a behaviour
    NoEvent             \* what a replica holds between two events

(***************************************************************************)
(* http_error: an HTTPException out of a registry lookup.  connect_timeout:*)
(* three ConnectTimeouts in a row, after which RichAsyncClient returns     *)
(* None.  transport: any other exception of httpx.  agent: the governance  *)
(* agent's answer is an error.  lost_response: it endorsed but its answer  *)
(* is lost.                                                                *)
(***************************************************************************)
FaultKinds == {"http_error", "connect_timeout", "transport", "agent",
               "lost_response", "publish", "ack", "slow", "subscribe",
               "crash", "stop"}

ASSUME EndorserAssumption ==
    /\ IsFiniteSet(Processors) /\ Processors # {}
    /\ MaxRetries \in Nat \ {0}
    /\ Faults \subseteq FaultKinds
    /\ MaxFaults \in Nat
    /\ MaxRegistryChanges \in Nat
    /\ NoEvent \notin Events
    /\ Txns \cap {"undecodable", "malformed", "foreign"} = {}

VARIABLES
    delivery,        \* where the consumer has each event
    payload,         \* what each event says: a transaction, or nothing usable
    kind,            \* what each transaction writes to the ledger
    txnState,        \* state of each transaction record at the agent
    registry,        \* facts about each transaction's DID and schema
    registryChanges,
    pc, current, attempt, shutdown,  \* of each replica's task
    granted,         \* ghost: facts the registry held since the event was fetched
    handled,         \* ghost: events whose processing returned
    unprocessable,   \* events published under the unprocessable subject
    lateCalls,       \* ghost: endorse calls made for an endorsed transaction
    faults

consumerVars == <<delivery, payload>>
agentVars    == <<kind, txnState, lateCalls>>
registryVars == <<registry, registryChanges>>
taskVars     == <<pc, current, attempt, shutdown, granted>>
resultVars   == <<handled, unprocessable>>
vars == <<consumerVars, agentVars, registryVars, taskVars, resultVars, faults>>

\* undecodable: bytes that are not UTF-8.  malformed: text that is no event.
Payloads == Txns \cup {"undecodable", "malformed", "foreign"}
Facts    == {"issuer", "schema"}

\* REVOC_REG_DEF and REVOC_REG_ENTRY; ATTRIB; a signature request whose goal
\* is register_public_did: endorsed without a look at the trust registry.
Unconditional == {"revocation", "attrib", "register_did"}
\* "other" also stands for an attachment that cannot be read.
Kinds == Unconditional \cup {"cred_def", "other"}

\* The labels at which a replica has read that its transaction is still open.
Deciding == {"resolve_schema", "lookup_actor", "lookup_schema", "endorse"}
\* At "unrecorded" the finally runs while an exception is on its way.
Finally  == {"ack", "unrecorded"}
Holding  == Deciding \cup {"event", "record"} \cup Finally
Labels   == Holding \cup {"down", "subscribing", "fetching", "dead"}

TypeOK ==
    /\ delivery \in [Events -> {"unpublished", "pending", "inflight", "acked"}]
    /\ payload \in [Events -> Payloads]
    /\ kind \in [Txns -> Kinds]
    /\ txnState \in [Txns -> {"request_received", "endorsed"}]
    /\ registry \in [Txns -> SUBSET Facts]
    /\ registryChanges \in Nat
    /\ pc \in [Processors -> Labels]
    /\ current \in [Processors -> Events \cup {NoEvent}]
    /\ attempt \in [Processors -> 0..(MaxRetries - 1)]
    /\ shutdown \in [Processors -> {"no", "cancelling", "swallowed"}]
    /\ granted \in [Processors -> SUBSET Facts]
    /\ handled \subseteq Events
    /\ unprocessable \subseteq Events
    /\ lateCalls \in [Txns -> Nat]
    /\ faults \in Nat

Init ==
    /\ delivery = [e \in Events |-> "unpublished"]
    /\ payload \in [Events -> Payloads]
    /\ kind \in [Txns -> Kinds]
    /\ txnState = [t \in Txns |-> "request_received"]
    /\ registry \in [Txns -> SUBSET Facts]
    /\ registryChanges = 0
    /\ pc = [p \in Processors |-> "down"]
    /\ current = [p \in Processors |-> NoEvent]
    /\ attempt = [p \in Processors |-> 0]
    /\ shutdown = [p \in Processors |-> "no"]
    /\ granted = [p \in Processors |-> {}]
    /\ handled = {}
    /\ unprocessable = {}
    /\ lateCalls = [t \in Txns |-> 0]
    /\ faults = 0

Fault(f) == f \in Faults /\ faults < MaxFaults /\ faults' = faults + 1
NoFault  == UNCHANGED faults

Goto(p, label) == pc' = [pc EXCEPT ![p] = label]

\* The transaction of the event p is processing.
TxnOf(p)   == payload[current[p]]
HasTxn(p)  == payload[current[p]] \in Txns

-----------------------------------------------------------------------------
(* The environment: the agents' event stream and the trust registry.       *)

Publish(e) ==
    /\ delivery[e] = "unpublished"
    /\ delivery' = [delivery EXCEPT ![e] = "pending"]
    /\ UNCHANGED <<payload, agentVars, registryVars, taskVars, resultVars, faults>>

\* The ack wait of a delivered event is over: JetStream delivers it again.
\* Its replica lost it, or ("slow") is still at work on it.
AckWaitExpires(e) ==
    /\ delivery[e] = "inflight"
    /\ \/ (\A p \in Processors : current[p] # e) /\ NoFault
       \/ (\E p \in Processors : current[p] = e) /\ Fault("slow")
    /\ delivery' = [delivery EXCEPT ![e] = "pending"]
    /\ UNCHANGED <<payload, agentVars, registryVars, taskVars, resultVars>>

\* An actor or a schema is added to or removed from the trust registry.
RegistryChange(t) ==
    /\ registryChanges < MaxRegistryChanges
    /\ registryChanges' = registryChanges + 1
    /\ \E facts \in SUBSET Facts :
        /\ Cardinality(facts \ registry[t]) + Cardinality(registry[t] \ facts) = 1
        /\ registry' = [registry EXCEPT ![t] = facts]
    /\ granted' = [p \in Processors |->
                    IF pc[p] \in Holding /\ TxnOf(p) = t
                    THEN granted[p] \cup registry'[t] ELSE granted[p]]
    /\ UNCHANGED <<consumerVars, agentVars, pc, current, attempt, shutdown,
                   resultVars, faults>>

-----------------------------------------------------------------------------
(* The life of the task.                                                   *)

\* The service starts: lifespan calls start(), which creates the task.
Start(p) ==
    /\ pc[p] = "down"
    /\ Goto(p, "subscribing")
    /\ UNCHANGED <<consumerVars, agentVars, registryVars, current, attempt,
                   shutdown, granted, resultVars, faults>>

\* A TimeoutError is retried for ever; any other error ends the task.
Subscribe(p) ==
    /\ pc[p] = "subscribing"
    /\ \/ Goto(p, "fetching") /\ NoFault
       \/ Goto(p, "dead") /\ Fault("subscribe")
    /\ UNCHANGED <<consumerVars, agentVars, registryVars, current, attempt,
                   shutdown, granted, resultVars>>

\* The event is the replica's, and so are the facts that hold from now on.
Hold(p, e) ==
    /\ current' = [current EXCEPT ![p] = e]
    /\ attempt' = [attempt EXCEPT ![p] = 0]
    /\ granted' = [granted EXCEPT ![p] =
                    IF payload[e] \in Txns THEN registry[payload[e]] ELSE {}]
    /\ Goto(p, "event")

\* Mutant of Fetch: a consumer that acknowledges on delivery.
FetchAcknowledging(p, e) ==
    /\ pc[p] = "fetching"
    /\ delivery[e] = "pending"
    /\ delivery' = [delivery EXCEPT ![e] = "acked"]
    /\ Hold(p, e)
    /\ UNCHANGED <<payload, agentVars, registryVars, shutdown, resultVars, faults>>

\* fetch returns one event.  One that cannot be decoded raises before the try that
\* records and acknowledges: the loop goes on, and JetStream delivers it again.
Fetch(p, e) ==
    /\ pc[p] = "fetching"
    /\ delivery[e] = "pending"
    /\ delivery' = [delivery EXCEPT ![e] = "inflight"]
    /\ \/ payload[e] # "undecodable" /\ Hold(p, e)
       \/ payload[e] = "undecodable" /\ UNCHANGED <<pc, current, attempt, granted>>
    /\ UNCHANGED <<payload, agentVars, registryVars, shutdown, resultVars, faults>>

\* fetch raises TimeoutError: unsubscribe, then subscribe again; an error of
\* unsubscribe is raised inside the handler and ends the task.
FetchTimesOut(p) ==
    /\ pc[p] = "fetching"
    /\ Fault("subscribe")
    /\ \/ Goto(p, "subscribing")
       \/ Goto(p, "dead")
    /\ UNCHANGED <<consumerVars, agentVars, registryVars, current, attempt,
                   shutdown, granted, resultVars>>

Forget(p) ==
    /\ current' = [current EXCEPT ![p] = NoEvent]
    /\ attempt' = [attempt EXCEPT ![p] = 0]
    /\ granted' = [granted EXCEPT ![p] = {}]

\* Mutant of AreTasksRunning: a dead task goes unnoticed.
NeverUnhealthy(p) == pc[p] \in Labels

AreTasksRunning(p) == pc[p] # "dead"

\* /health/live answers 503 and the orchestrator restarts the service.
LivenessProbe(p) ==
    /\ ~ AreTasksRunning(p)
    /\ Goto(p, "down")
    /\ shutdown' = [shutdown EXCEPT ![p] = "no"]
    /\ UNCHANGED <<consumerVars, agentVars, registryVars, current, attempt,
                   granted, resultVars, faults>>

\* stop() cancels the task and waits for it.  CancelledError leaves the try of
\* the event at hand through its finally, which acknowledges the event.
Stop(p) ==
    /\ pc[p] \notin {"down", "dead"}
    /\ shutdown[p] = "no"
    /\ Fault("stop")
    /\ \/ /\ pc[p] \in Holding \ Finally
          /\ Goto(p, "ack")
          /\ shutdown' = [shutdown EXCEPT ![p] = "cancelling"]
          /\ UNCHANGED <<consumerVars, current, attempt, granted>>
       \/ /\ pc[p] \notin Holding \ Finally
          /\ Goto(p, "down")
          /\ Forget(p)
          /\ UNCHANGED <<consumerVars, shutdown>>
    /\ UNCHANGED <<agentVars, registryVars, resultVars>>

\* The process is killed: what the task held is lost.
Crash(p) ==
    /\ pc[p] # "down"
    /\ Fault("crash")
    /\ Goto(p, "down")
    /\ shutdown' = [shutdown EXCEPT ![p] = "no"]
    /\ Forget(p)
    /\ UNCHANGED <<consumerVars, agentVars, registryVars, resultVars>>

-----------------------------------------------------------------------------
(* Processing one event.                                                   *)

\* _process_endorsement_event returns: the finally acknowledges the event.
Return(p) ==
    /\ handled' = handled \cup {current[p]}
    /\ Goto(p, "ack")
    /\ UNCHANGED unprocessable

\* It raises: the event is to be recorded as unprocessable.
Raise(p) == Goto(p, "record") /\ UNCHANGED resultVars

\* The event is parsed; one that is not the governance agent's is dropped.
ReadEvent(p) ==
    /\ pc[p] = "event"
    /\ \/ TxnOf(p) = "malformed" /\ Raise(p)
       \/ TxnOf(p) = "foreign" /\ Return(p)
    /\ UNCHANGED <<consumerVars, agentVars, registryVars, current, attempt,
                   shutdown, granted, faults>>

\* Mutant of GetTransaction: the state of the record is not looked at.
GetTransactionOfAnyState(p) ==
    /\ pc[p] = "event" /\ HasTxn(p)
    /\ \/ kind[TxnOf(p)] \in Unconditional /\ Goto(p, "endorse") /\ UNCHANGED resultVars
       \/ kind[TxnOf(p)] = "cred_def" /\ Goto(p, "resolve_schema") /\ UNCHANGED resultVars
       \/ kind[TxnOf(p)] = "other" /\ Return(p)
    /\ UNCHANGED <<consumerVars, agentVars, registryVars, current, attempt,
                   shutdown, granted, faults>>

\* should_accept_endorsement up to the trust registry: the record's state, then
\* what its attachment (or its signature request) writes.
GetTransaction(p) ==
    /\ pc[p] = "event" /\ HasTxn(p)
    /\ \/ /\ txnState[TxnOf(p)] = "request_received"
          /\ kind[TxnOf(p)] \in Unconditional
          /\ Goto(p, "endorse") /\ UNCHANGED resultVars /\ NoFault
       \/ /\ txnState[TxnOf(p)] = "request_received"
          /\ kind[TxnOf(p)] = "cred_def"
          /\ Goto(p, "resolve_schema") /\ UNCHANGED resultVars /\ NoFault
       \/ /\ \/ txnState[TxnOf(p)] # "request_received"
             \/ kind[TxnOf(p)] = "other"
          /\ Return(p) /\ NoFault
       \/ Raise(p) /\ Fault("agent")
    /\ UNCHANGED <<consumerVars, agentVars, registryVars, current, attempt,
                   shutdown, granted>>

\* The definition names its schema by sequence number; the agent resolves it.
ResolveSchema(p) ==
    /\ pc[p] = "resolve_schema"
    /\ \/ Goto(p, "lookup_actor") /\ UNCHANGED resultVars /\ NoFault
       \/ Raise(p) /\ Fault("agent")
    /\ UNCHANGED <<consumerVars, agentVars, registryVars, current, attempt,
                   shutdown, granted>>

\* Mutants of RetryOrGiveUp: one attempt too many; none after the first.
RetryOnceMore(p) ==
    \/ /\ attempt[p] <= MaxRetries - 1
       /\ attempt' = [attempt EXCEPT ![p] = @ + 1]
       /\ Goto(p, "lookup_actor")
       /\ UNCHANGED resultVars
    \/ attempt[p] > MaxRetries - 1 /\ Return(p) /\ UNCHANGED attempt

GiveUpAtOnce(p) == Return(p) /\ UNCHANGED attempt

\* An HTTPException: the next attempt starts over, the last one gives up.
RetryOrGiveUp(p) ==
    \/ /\ attempt[p] < MaxRetries - 1
       /\ attempt' = [attempt EXCEPT ![p] = @ + 1]
       /\ Goto(p, "lookup_actor")
       /\ UNCHANGED resultVars
    \/ /\ attempt[p] >= MaxRetries - 1
       /\ Return(p)
       /\ UNCHANGED attempt

\* Mutant of LookupActor: None is taken for an actor.
LookupActorTrustingNone(p) ==
    /\ pc[p] = "lookup_actor"
    /\ \/ "issuer" \in registry[TxnOf(p)] /\ Goto(p, "lookup_schema") /\ NoFault
       \/ Fault("connect_timeout") /\ Goto(p, "lookup_schema")
    /\ UNCHANGED <<consumerVars, agentVars, registryVars, current, shutdown,
                   attempt, granted, resultVars>>

\* First half of is_valid_issuer.  An actor of another role is no issuer.  A
\* response of None has no json(): AttributeError, which is not retried.
LookupActor(p) ==
    /\ pc[p] = "lookup_actor"
    /\ \/ /\ "issuer" \in registry[TxnOf(p)]
          /\ Goto(p, "lookup_schema")
          /\ NoFault /\ UNCHANGED <<attempt, resultVars>>
       \/ /\ "issuer" \notin registry[TxnOf(p)]
          /\ Return(p)
          /\ NoFault /\ UNCHANGED attempt
       \/ Fault("http_error") /\ RetryOrGiveUp(p)
       \/ /\ \E f \in {"connect_timeout", "transport"} : Fault(f)
          /\ Raise(p) /\ UNCHANGED attempt
    /\ UNCHANGED <<consumerVars, agentVars, registryVars, current, shutdown,
                   granted>>

\* Second half.  Nothing looks at the response, so None counts as a schema.
LookupSchema(p) ==
    /\ pc[p] = "lookup_schema"
    /\ \/ /\ "schema" \in registry[TxnOf(p)]
          /\ Goto(p, "endorse")
          /\ NoFault /\ UNCHANGED <<attempt, resultVars>>
       \/ /\ "schema" \notin registry[TxnOf(p)]
          /\ Return(p)
          /\ NoFault /\ UNCHANGED attempt
       \/ Fault("http_error") /\ RetryOrGiveUp(p)
       \/ /\ Fault("connect_timeout")
          /\ Goto(p, "endorse") /\ UNCHANGED <<attempt, resultVars>>
       \/ Fault("transport") /\ Raise(p) /\ UNCHANGED attempt
    /\ UNCHANGED <<consumerVars, agentVars, registryVars, current, shutdown,
                   granted>>

\* accept_endorsement.  The agent endorses a record it has not endorsed yet.
Endorse(p) ==
    /\ pc[p] = "endorse"
    /\ \/ /\ txnState[TxnOf(p)] = "request_received"
          /\ txnState' = [txnState EXCEPT ![TxnOf(p)] = "endorsed"]
          /\ \/ Return(p) /\ NoFault
             \/ Raise(p) /\ Fault("lost_response")
          /\ UNCHANGED lateCalls
       \/ /\ txnState[TxnOf(p)] = "request_received"
          /\ Raise(p) /\ Fault("agent")
          /\ UNCHANGED <<txnState, lateCalls>>
       \/ /\ txnState[TxnOf(p)] = "endorsed"
          /\ lateCalls' = [lateCalls EXCEPT ![TxnOf(p)] = @ + 1]
          /\ Raise(p) /\ NoFault
          /\ UNCHANGED txnState
    /\ UNCHANGED <<consumerVars, kind, registryVars, current, attempt, shutdown,
                   granted>>

\* _handle_unprocessable_endorse_event; the finally runs if it raises, too.
RecordUnprocessable(p) ==
    /\ pc[p] = "record"
    /\ \/ /\ unprocessable' = unprocessable \cup {current[p]}
          /\ Goto(p, "ack") /\ NoFault
       \/ /\ Fault("publish")
          /\ Goto(p, "unrecorded") /\ UNCHANGED unprocessable
    /\ UNCHANGED <<consumerVars, agentVars, registryVars, current, attempt,
                   shutdown, granted, handled>>

\* Mutant of Ack: the loop catches CancelledError with everything else.
AckCatchingCancellation(p) ==
    /\ pc[p] \in Finally
    /\ Forget(p)
    /\ delivery' = [delivery EXCEPT ![current[p]] = "acked"]
    /\ Goto(p, "fetching")
    /\ UNCHANGED <<payload, agentVars, registryVars, shutdown, resultVars, faults>>

\* The handlers of the loop.  A TimeoutError has it subscribe again, and an error
\* of unsubscribe ends the task; any other exception has it fetch again.
Recover(p) == \E label \in {"fetching", "subscribing", "dead"} : Goto(p, label)

\* message.ack(), then the next fetch, the handlers of the loop if the record could
\* not be made or, when the task is being cancelled, its end.  An exception of ack()
\* replaces the CancelledError in flight: the handlers swallow it and the task goes
\* on while stop() waits for it.
Ack(p) ==
    /\ pc[p] \in Finally
    /\ Forget(p)
    /\ \/ /\ delivery' = [delivery EXCEPT ![current[p]] = "acked"]
          /\ \/ pc[p] = "ack" /\ shutdown[p] = "cancelling" /\ Goto(p, "down")
             \/ pc[p] = "ack" /\ shutdown[p] # "cancelling" /\ Goto(p, "fetching")
             \/ pc[p] = "unrecorded" /\ Recover(p)
          /\ shutdown' = [shutdown EXCEPT ![p] =
                            IF @ = "cancelling" THEN "no" ELSE @]
          /\ NoFault
       \/ /\ Fault("ack")
          /\ Recover(p)
          /\ shutdown' = [shutdown EXCEPT ![p] =
                            IF @ = "cancelling" THEN "swallowed" ELSE @]
          /\ UNCHANGED delivery
    /\ UNCHANGED <<payload, agentVars, registryVars, resultVars>>

-----------------------------------------------------------------------------
\* What the event loop of a replica runs.
Task(p) ==
    \/ Subscribe(p)
    \/ \E e \in Events : Fetch(p, e)
    \/ FetchTimesOut(p)
    \/ ReadEvent(p)
    \/ GetTransaction(p)
    \/ ResolveSchema(p)
    \/ LookupActor(p)
    \/ LookupSchema(p)
    \/ Endorse(p)
    \/ RecordUnprocessable(p)
    \/ Ack(p)

Next ==
    \/ \E e \in Events : Publish(e) \/ AckWaitExpires(e)
    \/ \E t \in Txns : RegistryChange(t)
    \/ \E p \in Processors :
        Task(p) \/ Start(p) \/ LivenessProbe(p) \/ Stop(p) \/ Crash(p)

Spec == Init /\ [][Next]_vars

\* The event loop runs a ready task, the orchestrator restarts a stopped or an
\* unhealthy replica, and JetStream redelivers what is not acknowledged.  It hands
\* out pending events in order, so none is passed over for ever for another that
\* comes back again and again.
Fairness ==
    /\ \A p \in Processors :
        WF_vars(Task(p)) /\ WF_vars(Start(p)) /\ WF_vars(LivenessProbe(p))
    /\ \A e \in Events :
        WF_vars(AckWaitExpires(e)) /\ WF_vars(\E p \in Processors : Fetch(p, e))

FairSpec == Spec /\ Fairness

-----------------------------------------------------------------------------
\* What the service promises to the stream: at-least-once processing.
Consumer == INSTANCE AtLeastOnceConsumer WITH
    published <- {e \in Events : delivery[e] # "unpublished"},
    processed <- handled \cup unprocessable,
    acknowledged <- {e \in Events : delivery[e] = "acked"}

\* The service implements the at-least-once consumer: no event is processed
\* that was not published, and none leaves the stream before its processing
\* returned or it was recorded under the unprocessable subject, whatever
\* crashes, redeliveries and lost acknowledgements there are.  It holds when
\* tasks are not cancelled and the record can be published (Faults without
\* "stop" and "publish"): in these two cases the finally acknowledges an
\* event nobody dealt with.
ImplementsAtLeastOnce == Consumer!Spec

-----------------------------------------------------------------------------
(* Properties.                                                             *)

\* The invariant behind ImplementsAtLeastOnce.
AckedImpliesHandled ==
    \A e \in Events :
        delivery[e] = "acked" => e \in handled \cup unprocessable

\* Redelivery does not multiply endorsements: once a transaction is endorsed,
\* only replicas that had read its record before can still call endorse for
\* it, each once, so there are fewer such calls than replicas however often
\* its events are redelivered (the state check of should_accept_endorsement).
LateCallsBounded ==
    \A t \in Txns : lateCalls[t] < Cardinality(Processors)

\* p endorses t, and kind t = cred_def only on a registry fact that held at
\* some moment since p fetched the event.
EndorsedOn(p, t, f) ==
    /\ pc[p] = "endorse" /\ TxnOf(p) = t
    /\ kind[t] \in Unconditional \/ (kind[t] = "cred_def" /\ f \in granted[p])

EndorsesOn(f) ==
    \A t \in Txns :
        txnState'[t] # txnState[t] => \E p \in Processors : EndorsedOn(p, t, f)

\* A credential definition is endorsed only for a DID that was registered as
\* an issuer while the replica had the event: neither an answer of an earlier
\* delivery nor a failed lookup is taken for a registration.
EndorsesOnlyForIssuers == [][EndorsesOn("issuer")]_vars

\* stop() (endorsement_processor.py:59, "Stops all background tasks
\* gracefully"): the last step of a cancelled task does not take from the
\* stream an event that nobody dealt with.  CancelledError leaving the try
\* through the finally that acknowledges the event breaks it.
StopKeepsEvents ==
    [][\A p \in Processors :
        /\ shutdown[p] = "cancelling" /\ current[p] # NoEvent
        /\ delivery'[current[p]] = "acked"
        => delivery[current[p]] = "acked"
           \/ current[p] \in handled \cup unprocessable]_vars

\* Every event that can be decoded is acknowledged in the end: a crashed, stopped or
\* dead replica does not keep it, nor does an event that cannot be decoded, which
\* comes back for ever, keep the others waiting.
EveryEventConsumed ==
    \A e \in Events :
        delivery[e] = "pending" /\ payload[e] # "undecodable" ~> delivery[e] = "acked"

\* stop() returns: the cancelled task ends (when ack() does not fail; if it
\* does, the cancellation is swallowed and stop() waits for ever).
StopTerminates ==
    \A p \in Processors : shutdown[p] = "cancelling" ~> pc[p] = "down"

\* A transaction that meets the criteria is endorsed: while its DID and schema
\* are registered and no task is cancelled, crashes, redeliveries, restarts and
\* fewer HTTP errors than attempts only delay the endorsement.
Applicable(t) ==
    \/ kind[t] \in Unconditional
    \/ kind[t] = "cred_def" /\ registry[t] = Facts

NothingStops == \A p \in Processors : shutdown[p] = "no"

ApplicableEventuallyEndorsed ==
    \A t \in Txns :
        [](Applicable(t) /\ NothingStops) =>
            ((\E e \in Events : delivery[e] = "pending" /\ payload[e] = t)
                ~> txnState[t] = "endorsed")

=============================================================================

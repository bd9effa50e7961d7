# Verification of aries-cloudapi-python

This directory holds TLA+ models of the services in this repository, TLC
configurations that check them on small instances, and TLAPS proofs of their
main safety properties for instances of any size.

- [The system](#the-system)
- [Modules](#modules)
- [EndorsementProcessor](#endorsementprocessor)
- [TenantLifecycle](#tenantlifecycle)
- [DefinitionPublication](#definitionpublication)
- [IssuerOnboarding](#issueronboarding)
- [EventStream](#eventstream)
- [Revocation](#revocation)
- [Issuance](#issuance)
- [Presentation](#presentation)
- [What is proved](#what-is-proved)
- [What the checks found](#what-the-checks-found)
- [What is not modelled](#what-is-not-modelled)
- [Plan](#plan)

## The system

The repository is a cloud API in front of Hyperledger Aries agents (ACA-Py).
Its services keep little state of their own; what matters is in the agents'
wallets, on the ledger, in the trust registry's database and in a JetStream
stream. The hard part is everywhere the same: one request is a sequence of
calls to systems that share no transaction, any call may fail or have its
answer lost, and other requests and replicas act in between.

| Component | State | Operations | Interacts with | What makes it correct |
|---|---|---|---|---|
| Endorser service (`endorser/`) | the background task and the event it holds; a durable JetStream consumer | subscribe, fetch, decide, endorse, acknowledge, stop, health check | JetStream, governance agent, trust registry | no event is lost; definitions are endorsed for registered issuers and schemas only; redelivery endorses nothing twice; the service recovers and stops |
| Tenant administration (`app/routes/admin/tenants.py`, `app/services/onboarding/tenants.py`) | none; the wallets of the agent and the actors of the registry | create, update, delete, rotate the access token | multitenant agent, trust registry | wallet and actor agree; names are unique; nothing survives a failed create or a delete |
| Issuer and verifier onboarding (`app/services/onboarding`) | the endorser connection, the public DID | connect to the endorser, register a DID, make it public, invite | agents, endorser, ledger | an issuer is registered only with an endorsed public DID |
| Trust registry service (`trustregistry/`) | the tables `actors` and `schemas` | create, read, update, delete | PostgreSQL | unique keys; an update changes what exists |
| Trust registry client (`app/services/trust_registry`) | none | calls of the above | `RichAsyncClient` | every error of the registry is an error of the caller |
| `RichAsyncClient` (`shared/util`) | none | an HTTP call, retried on 502, 503 and connect timeouts | httpx | an answer or an exception |
| Schema and credential definition publication (`app/services/definitions`) | the ledger, the registry's schemas | publish, retry after an endorser error, register | agents, ledger, trust registry | what is on the ledger and what is registered agree |
| Revocation (`app/services/revocation_registry.py`, `app/routes/revocation.py`) | none; the pending revocations and the records of the agent, the registry entries on the ledger | revoke, publish, clear, read, repair | agents, endorser | a revocation said to be published is on the ledger; a mark is lost only by a request that names it |
| Credential issuance (`app/routes/issuer.py`, `app/services/issuer`) | none; the agents' exchange records | send and create an offer, accept one, store, delete | agents, trust registry | only registered issuers offer, and only theirs is accepted; records end as their side asked |
| Proof presentation (`app/routes/verifier.py`, `app/services/verifier`) | none; the agents' exchange records | send and create a proof request, accept, reject, delete | agents, trust registry | only registered verifiers ask and are shown; a rejection ends what it saw |
| Waypoint and SSE (`waypoint/`, `app/routes/sse.py`) | a pull subscription for each stream | subscribe, fetch, filter, unsubscribe | JetStream | a waiting client gets its event; a subscription does not outlive its client |
| Authentication, thin agent proxies, models, logging, deployment | none | | | |

Behaviours that are hard to test: redelivery of events and replicas that race
for them; checks whose answer is stale when it is used; updates that write back
what they read; calls whose answer is lost; retry loops that give up; the
cancellation of a task in the middle of an event; a replica that dies between
two calls. `PROJECT.json` lists them line by line under "hazards", with the
property that covers each.

## Modules

| Module | What it is |
|---|---|
| `EndorsementProcessor` | the endorser service |
| `AtLeastOnceConsumer` | what a consumer of a durable stream promises; `EndorsementProcessor` implements it |
| `MCEndorser` | the instances of it for TLC |
| `EndorsementProcessor_proofs` | its theorems |
| `TenantLifecycle` | tenant administration, with onboarding and the registry's actors |
| `MCTenants` | the instances of it for TLC |
| `TenantLifecycle_proofs` | its theorems |
| `DefinitionPublication` | schemas and credential definitions, with the registry's schemas |
| `MCDefinitions` | the instances of it for TLC |
| `DefinitionPublication_proofs` | its theorems |
| `IssuerOnboarding` | the interior of onboarding an issuer, which `TenantLifecycle` has as `GetPublicDid` and `PublishDid` |
| `DidPublication` | what onboarding promises to tenant administration; `IssuerOnboarding` implements it |
| `MCOnboarding` | the instances of it for TLC |
| `IssuerOnboarding_proofs` | its theorems |
| `EventStream` | a stream of server-sent events, from NATS over waypoint and the app to the client |
| `EventWait` | what waiting for an event promises a client; `EventStream` implements it |
| `MCEventStream` | the instances of it for TLC |
| `EventStream_proofs` | its theorems |
| `Revocation` | the revocation endpoints of an issuer, with the agent's state and the endorser |
| `CredentialStatus` | what revocation promises for a credential; `Revocation` implements it |
| `MCRevocation` | the instances of it for TLC |
| `Revocation_proofs` | its theorems |
| `Issuance` | offering and accepting credentials, with both agents' records |
| `MCIssuance` | the instances of it for TLC |
| `Issuance_proofs` | its theorems |
| `Presentation` | requesting, presenting and refusing proofs, with both agents' records |
| `MCPresentation` | the instances of it for TLC |
| `Presentation_proofs` | its theorems |

In every module a fault is a named kind. `Faults` says which kinds may happen
and `MaxFaults` how many in one behaviour; `Fault(f)` is the conjunct of a step
in which fault `f` happens, `NoFault` of one in which none does. Definitions
whose comment begins with "Mutant of" or "As if" are plausible bugs of one
action: putting one in the place of its action must break the property that
`PROJECT.json` names for it, which shows that the property can see such a bug.

## EndorsementProcessor

`src/endorser` runs replicas of one task, `_process_endorsement_requests`, on a
durable pull consumer they share. The task fetches one event at a time,
processes it in a `try` whose `finally` acknowledges it, and starts over.

**State.** `delivery` and `payload` are the stream: where each event is
(unpublished, pending, in flight, acknowledged) and what it says, which may be
bytes that cannot be decoded, text that is no event, or an event of another
wallet. `kind` and `txnState` are the governance agent's transaction records.
`registry` holds for each transaction the facts the registry can state about its
DID and its schema. For each replica `pc` is the await at which its task stands,
`current` the event it holds, `attempt` the local of `retry_is_valid_issuer`,
and `shutdown` whether `stop()` has cancelled it. `granted`, `handled` and
`lateCalls` are history for the properties.

**Actions.** Each await of the loop is a step.

| Action | Code |
|---|---|
| `Start`, `Stop`, `LivenessProbe` | `app_lifespan`, `stop`, `health_check` with `are_tasks_running`; the orchestrator that restarts an unhealthy replica |
| `Subscribe`, `Fetch`, `FetchTimesOut` | `_subscribe`, the fetch and its `except` branches |
| `ReadEvent` | the parsing and the filter of `_process_endorsement_event` |
| `GetTransaction`, `ResolveSchema` | `should_accept_endorsement` up to the trust registry, for each type of operation |
| `LookupActor`, `LookupSchema`, `RetryOrGiveUp` | `is_valid_issuer` inside `retry_is_valid_issuer` |
| `Endorse`, `RecordUnprocessable`, `Ack`, `Recover` | the rest of the processing, the `finally`, and the `except` branches an exception out of it reaches |
| `Publish`, `AckWaitExpires`, `RegistryChange`, `Crash` | the environment |

Three details decide most of the behaviour. `RichAsyncClient` returns `None`
after its attempts ended in connect timeouts; `LookupActor` then fails with an
`AttributeError`, and `LookupSchema` takes it for a schema, so no property says
that the schema of an endorsed definition is registered. A `CancelledError`
leaves the `try` through its `finally`, so a cancelled task acknowledges the
event at hand; if that `ack()` raises, the new exception takes the place of the
cancellation and the loop goes on (`shutdown = "swallowed"`). And
`message.data.decode()` (line 103) is outside the inner `try`: an event that is
not UTF-8 reaches the outer `except`, so it is neither recorded nor
acknowledged, and JetStream delivers it again for ever (the second branch of
`Fetch`).

**Runs.**

| Run | Instance | What it shows |
|---|---|---|
| `endorser_safety` | 2 replicas, 2 events of 1 transaction, 2 attempts, 2 faults of all kinds but "stop" and "publish", 2 registry changes | `ImplementsAtLeastOnce`, `EndorsesOnlyForIssuers`, `LateCallsBounded` |
| `endorser_liveness` | 1 replica, 2 events of 1 transaction or of none, 4 attempts, 3 faults, no registry change, fairness | `EveryEventConsumed`, `StopTerminates`, `ApplicableEventuallyEndorsed` |
| `endorser_stop` | 1 event, "stop" | violates `StopKeepsEvents` |

Two replicas are what it takes for one to act between two steps of the other;
two events of one transaction give both redelivery and duplicate webhooks; two
faults allow one to hit the recovery from another; two attempts are the smallest
number for which the retry, the last attempt and their order differ (the
liveness run has four, so that three errors in a row leave one). The liveness
run has one replica, which is the harder case: nobody else takes over what a
dead task holds, so that a health check that misses it shows. It has two events,
so that one which cannot be decoded comes back again and again before the other.
Its registry does not change, since `ApplicableEventuallyEndorsed` is about a
transaction that stays applicable: the initial states are all registries.
Symmetry is used in the safety run only. `CHECK_DEADLOCK FALSE`: the service
rests when every event is acknowledged and the bounds of the environment are
used up.

**Fairness.** `Task(p)` is weakly fair, since the event loop runs a task that is
ready; `Start` and `LivenessProbe`, since the orchestrator restarts a stopped
replica and one whose probe fails; `AckWaitExpires`, since JetStream redelivers
what is not acknowledged. `Fetch` is weakly fair for each event: JetStream hands
out pending events in order, so an event is not passed over for ever for one
that comes back again and again. Publishing, faults and registry changes have no
fairness. `EveryEventConsumed` is claimed of the events that can be decoded,
since the code never acknowledges the others. `ApplicableEventuallyEndorsed`
holds while the transaction stays applicable and no replica is being stopped:
five attempts tolerate fewer than five HTTP errors, and the instance keeps that
proportion. The liveness run leaves out "ack" (a swallowed cancellation makes
`stop()` wait for ever), "connect_timeout", "transport", "agent" and
"lost_response" (they end in the unprocessable subject, where nothing retries
the event).

## TenantLifecycle

`create_tenant`, `update_tenant` and `delete_tenant_by_id` of
`src/app/routes/admin/tenants.py`, with the helpers they call down to the rows
of the registry's table.

**State.** `wallets` and `dids` are the agent: each wallet's label ("unused"
before it exists, "deleted" after) and how many DIDs it has made public.
`actors` is the registry's table, by wallet id, since the id of an actor is that
of its wallet. `task` holds for each request where its handler stands, its body
(`label`, `roles`) and the handler's locals: `seen`, the actor it fetched,
`granting`, the roles it onboards for, and `did`, what onboarding returned.

**Actions.** One for each call that leaves the handler, the handler's own
decisions before and after it included.

| Action | Code |
|---|---|
| `Receive` | the three endpoints, for every body |
| `AssertActorName`, `CreateWallet`, `Register`, `CleanUp` | `create_tenant` in its order; `CleanUp` is both `except` branches |
| `GetPublicDid`, `PublishDid`, `CreateInvitation` | `onboard_tenant`: `onboard_issuer`, `onboard_issuer_no_public_did`, `onboard_verifier` |
| `GetWallet` | `get_wallet_and_assert_valid_group` |
| `FetchActorToDelete`, `RemoveActor`, `DeleteWallet` | `delete_tenant_by_id` |
| `FetchActorToUpdate`, `PutActor`, `UpdateWallet` | `handle_tenant_update`; `UpdatedActor` is `actor.model_copy(update=...)` |
| `Crash` | the replica that serves the request dies |

Every call can be refused, can find its wallet gone, and, if it changes
something, can take effect and have its answer lost. The trust registry's
unique keys are conditions of `Register` and `PutActor`. An actor's `did` is a
number, `n` for the n-th public DID of its wallet and 0 for the key of an
invitation: enough to tell whether a row names a public DID.

**Runs.**

| Run | Instance | What it shows |
|---|---|---|
| `tenants_safety` | 2 requests, 2 wallets, 2 labels, 2 faults of any kind | `ActorNamesUnique`, `IssuersOnboarded`, `DeletedIsGone`, `FailedCreateLeavesNoWallet` |
| `tenants_roles` | 2 updates of 1 tenant, no fault | violates `RolesNeverRevoked` |

The initial states are every population of tenants that earlier requests can
have left: any wallet may exist as a holder, an issuer, a verifier or both. Two
requests are every pair of operations in every interleaving; a request is of
one operation, so a third adds no new kind of race between the tables, and the
theorems below hold for any number. Two wallets and two labels allow a clash of
names between tenants. No fairness is assumed: the properties are safety.

The properties are limited to what the code promises: `DeletedIsGone` is about a
delete that found an actor, because one that runs while the create of the same
tenant is still onboarding finds none; `FailedCreateLeavesNoWallet` excepts a
cleanup the agent refuses ("stray") and a crash, and is not about a wallet whose
creation was not answered, since the request never learned its name.

## DefinitionPublication

`POST /v1/definitions/schemas` and `POST /v1/definitions/credentials`
(`src/app/routes/definitions.py`) with the publishers under
`src/app/services/definitions`, the registry's table of schemas, and as much of
the ledger and of the agents as the handlers look at.

**State.** `publicDid` is the governance agent's public DID, `created` the
schemas its wallet has a record of, `schemas` the ledger: the attributes of each
schema id, or none. An id is the pair of a DID and a name; version and tag
add nothing a property tells apart. `rows` is the registry's table and `issuer`
whether the issuer's actor is in it. `credDefs`, `revocable` and `registries`
are the issuer's credential definitions: requested of the endorser or written,
with revocation or without, and how many of the two revocation registries are
active. `task` is the handler of each request. `removed` is history: what
operators took out of the registry.

**Actions.**

| Action | Code |
|---|---|
| `Receive` | both endpoints, for every body |
| `PublishSchema`, `RegisterSchema` | `SchemaPublisher.publish_schema`, `register_schema` down to the row (`CreateRow`) |
| `GetOwnDid`, `GetExistingSchema`, `GetCreatedSchemas`, `Return` | `_handle_existing_schema`: by the present DID, else by the wallet's records, then the attributes |
| `AssertPublicDid`, `LookupIssuer`, `LookupSchema`, `CheckConnection` | the checks of `create_credential_definition` in its order |
| `PublishCredDef`, `AwaitAck`, `AwaitRegistries`, `FetchCredDef` | publication, `wait_for_transaction_ack`, `wait_for_revocation_registry`, the retried `get_credential_definition_by_id` |
| `Endorse`, `ActivateRegistry`, `ChangePublicDid`, `ChangeRegistry`, `Crash` | the endorser and the agents, operators, the replica |

Assumed of ACA-Py: it refuses a schema whose name and version its wallet has a
record of, and an id that the ledger has with other attributes; a publication
whose answer is lost may have left a record or not; two publications that
overlap may both go through (the fault "race"). It refuses a credential
definition it has.

**Runs.**

| Run | Instance | What it shows |
|---|---|---|
| `definitions_safety` | 2 requests, 1 name, 2 sets of attributes, 3 DIDs, 2 polls, 2 faults of any kind, 1 change by an operator | `RegisteredAreOnLedger`, `AnswersMatchLedger`, `CredDefsOfRegisteredSchemas`, `AnsweredAreUsable`, `CreatedAreRegisteredUnlessFailed` |

The initial states are every subset of the DIDs under which the one name may
have been published and registered before, which gives the fallback none, one
or several schemas to find. Three DIDs are the present one and two former ones;
names do not interact, so one is enough. Requests, attributes and DIDs are
symmetric. Two polls are the fewest for which "once more" and "give up" differ.
No fairness is assumed; `CHECK_DEADLOCK FALSE` since requests end.

The limits of the properties are the code's. `CredDefsOfRegisteredSchemas`
says nothing after a connect timeout, which `registry_has_schema` takes for a
yes, and counts a schema that is removed after the check as registered.
`CreatedAreRegistered` is what the endpoint's documentation says, and a failed
registration breaks it; `CreatedAreRegisteredUnlessFailed` is what is left of
it: however creates race, a schema that one of them found on the ledger is
registered by the one that published it.

## IssuerOnboarding

`onboard_issuer` (`src/app/services/onboarding/issuer.py`) and
`register_issuer_did.py`, for the attempts made to onboard one wallet: two
updates of its tenant at once, or one that is tried again.

**State.** `connection` is the connection with the endorser that each attempt
creates: received, completed, with the endorser's role, with the author's role
too, and "configured" (with the endorser's DID as well); `via`
the connection by which each of its two transactions was sent, `acked` the
transactions that are endorsed and written, `public` the DIDs made public in
their order, `task` the handler of each attempt with the number of its polls.

**Actions.**

| Action | Code |
|---|---|
| `Begin`, `GetPublicDid`, `CreateInvitation` | `onboard_issuer` |
| `Connect`, `AwaitConnection` | `create_connection_with_endorser` up to the completed connection |
| `Configure`, `SetMetadata` | `set_endorser_roles` and `configure_endorsement`: three calls of `set_endorser_metadata.py`, each of which may fail and leave the connection as it is |
| `RegisterNym`, `AwaitNym`, `SetPublicDid`, `AwaitAttrib` | `register_issuer_did`; both waits are `wait_transactions_endorsed` (`AwaitEndorsed`, `AllAcked`) |
| `Retry` | an unsuccessful poll of either wait, its exception included |
| `CompleteConnection`, `Endorse`, `Send`, `Refused`, `Crash` | the agents, the endorser, the replica |

Assumed of ACA-Py: it sends a transaction for the endorser by any of the
wallet's connections with the endorser, since the code names none, and refuses
if it picks one that is not set up for it (`Refused`). So an attempt that failed
halfway through `Configure` may make the next one fail, and the one after it:
nothing removes the connection, and the properties say only that each attempt
ends and that no DID becomes public on the strength of such a connection. ACA-Py
refuses to make a DID public that the ledger does not have; it makes the DID
public at once and sends the ATTRIB transaction with the wallet's endpoint then.

**Runs.**

| Run | Instance | What it shows |
|---|---|---|
| `onboarding_safety` | 2 attempts, 2 polls, all 3 kinds of fault in one behaviour | `WaitsAreExact`, `ImplementsDidPublication` |

Two attempts are a retry and a race; a third has nobody new to race with. Two
polls as above. The kinds of fault are a refused call, a lost answer and a
crash, each as often as it likes.

`ImplementsDidPublication` is a refinement with liveness: an attempt that began
ends. It assumes weak fairness of `Handle(a)` only: the event loop runs a
handler that is ready, and every call it awaits returns or times out. Nothing
is assumed of the agents and of the endorser, for the polls are bounded.

## EventStream

`GET /v1/sse/...` of the app relays `GET /sse/...` of waypoint, whose
`nats_event_stream_generator` reads the events of one wallet, topic and state
by a pull subscription, until one of them has the field the client waits for.

**State.** `log` is the subject in JetStream: the kind of each event, in order
("match", "other", or "bad", which cannot be parsed); `start` is the position
to which `start_time` reaches. `subs` are the subscriptions open at NATS,
`current` the one that is read (the n-th made has the number n), `outstanding`
and `acked` the positions its consumer has delivered and has acknowledgements
of. `pc`, `failed`, `batch` and `sent` are the generators in waypoint: where
they stand, whether an exception is on its way out, the messages of the last
fetch still to be handled, and the event yielded. `relay` is the connection
between the app and waypoint, `client` and `received` the other end. `timeUp`
is the clock against `end_time`.

**Actions.**

| Action | Code |
|---|---|
| `Open` | both endpoints, up to `process_events` |
| `Subscribe`, `SubscribeFails` | `_subscribe` with its endless retry |
| `CheckTime`, `Fetch`, `FetchFails`, `Unsubscribe` | the loop of `event_generator` with its `except` branches |
| `SendMatch`, `AckOther`, `RejectBad` | the next message of the batch, in `event_generator` and in `nats_event_stream_generator` |
| `Disconnected`, `Close` | `request.is_disconnected()` and the cancellation of the generator; the `finally` of `process_events` |
| `RelayLine`, `RelayEnd`, `RelayBreaks` | `sse_subscribe_event_with_field_and_state` |
| `Publish`, `TimePasses`, `AckWaitExpires`, `Crash`, `ClientLeaves` | the environment |

`check_disconnect` is a background task of the response and runs when the
response has ended, with `stop_event` set; it never ends a stream. Whoever sets
`stop_event` leaves the loop in the same step, so the loop's own test of it has
no action. The rebinding of `subscription` is the detail that matters: `Close`
knows subscription 1 only. An error of its `unsubscribe` other than
`BadSubscriptionError` leaves that one open too and breaks the stream.

**Runs.**

| Run | Instance | What it shows |
|---|---|---|
| `stream_wait` | 3 events, batches of 2, 2 faults of any kind, fairness | `OneSubscription`, `ImplementsEventWait`, `MatchReachesClient`, `StreamEnds` |
| `stream_leak` | 1 event, "timeout" | violates `NothingLeftSubscribed` |

Three events and batches of two give a batch that is full, one that is not, a
match behind something else in the same batch and in a later one, and events
older than `start`. Two faults lose a connection while another loss is being
repaired. A stream shares nothing with other streams but the log, so one stream
is enough. `CHECK_DEADLOCK FALSE`: everything rests when the stream has ended.

**Fairness.** `Generator` and `Relay` are weakly fair: the event loops run a
generator that is ready, and every fetch has a timeout. So is `AckWaitExpires`:
JetStream delivers again what is not acknowledged. Events, the clock, the
cancellation of a stream and clients are not: `MatchReachesClient` and
`StreamEnds` hold whatever they do. Faults are finitely many, and have to be:
`_subscribe` retries a `TimeoutError` for ever without a look at the time, and
a stream whose every subscription times out never ends.

## Revocation

The six endpoints of `src/app/routes/revocation.py` with the helpers of
`src/app/services/revocation_registry.py`, for one issuer.

**State.** The agent is `pending`, the credentials marked for revocation,
`revoked`, those whose record in the wallet says so, and `sent`, what the
transaction of each request and registry carries. `acked` are the transactions
that are endorsed and written, `ledger` the credentials revoked there. `call` is
what each request asks for, a map of registries to credentials in which an
empty list means the whole registry and an empty map everything; `req` is its
handler: the label, the registries still to do (`todo`), the polls, and what
the answer names (`told`).

**Actions.**

| Action | Code |
|---|---|
| `Begin` | the routes, up to the first call |
| `Validate` | `validate_rev_reg_ids`, a registry at a time |
| `PublishRevocations`, `AwaitTransaction` | `publish_pending_revocations` and the route's wait for each transaction, `extract_revoked_info` |
| `ClearPendingRevocations` | `clear_pending_revocations` and the outstanding revocations it answers |
| `RevokeCredential`, `AwaitRecord` | `revoke_credential` and its wait for the record |
| `ReadRecord`, `ReadPending`, `FixRegistry` | the two readers and the repair of a registry |
| `UpdateRecords`, `Endorse`, `Crash` | the agent's records, the endorser, the replica |

Assumed of ACA-Py: a publication takes what is pending at that moment, in one
transaction per registry; a record can say "revoked" before the endorsement, as
the code's comment has it (`revocation_registry.py:134`); revoking what is
revoked changes nothing; a revocation with `auto_publish_on_ledger`
(`publish=True`) takes along what else is pending in the registry of its
credential (`TakenAlong`); and it answers with the transaction it made, since every
issuer is the author of an endorsed connection. An answer without a
transaction, which the code turns into an empty 200
(`revocation_registry.py:154-163`), is therefore left out.

**Run.**

| Run | Instance | What it shows |
|---|---|---|
| `revocation_safety` | 2 requests of any kind, 3 credentials in 2 registries, 2 polls, 2 tries, 2 kinds of fault in one behaviour, fairness | `PublishAnswersAreOnLedger`, `AnswersAreTrue`, `PendingLeavesOnRequest`, `ImplementsCredentialStatus`, `RequestsEnd` |

Two registries give a publication two transactions to wait for, the first of
which may be written alone; a registry of two credentials is what it takes to
name one of two. The maps are the empty one, a whole registry, one credential,
and one credential with a whole registry. Two requests validate, publish and clear in every
interleaving.

**Fairness.** `Handle(r)` is weakly fair: every call of a handler returns or
times out, and its task runs. `RequestsEnd` needs nothing of the endorser,
whose answer the bounded polls do not wait for. `CHECK_DEADLOCK FALSE`:
requests end.

A revocation with `auto_publish_on_ledger` waits for the record only, so
its answer may name a credential before the ledger has it, and it may name
credentials that the client did not ask for, the other marks of the registry;
`PublishAnswersAreOnLedger` is about `publish-revocations`, whose route waits for
the transactions. What is validated may be gone by the time of the publication:
that is why the property of the answer is about what the transactions carry, and
not about what the request named.

## Issuance

`POST /v1/issuer/credentials`, `.../create-offer`, `.../{id}/request`,
`.../{id}/store` and `DELETE .../{id}` of `src/app/routes/issuer.py`, with the checks
of `src/app/services/trust_registry/util/issuer.py` and both agents' records of an exchange.

**State.** The registry is `issuers` and `schemas`; `publicDid` is the public
DID of the issuer's wallet. For each exchange `cred` is what it offers, `record` the
state of the record on each side, `mail` the messages under way; `held` are
those whose credential is in the holder's wallet, and `autoRemove` the records
the agent removes at their end. `req` is the handler of each request. `seen`
(in `req`), `vouched` and `asked` are history: what was true at some time
during a request, the records moved by a request during which the registry had
nothing against it, and what that request gave for `save_exchange_record`.

**Actions.**

| Action | Code |
|---|---|
| `Receive` | the three endpoints that ask the registry |
| `AssertPublicDid`, `GetSchemaId`, `LookupIssuer`, `LookupSchema` | the checks before an offer, in their order |
| `GetRecord` | `request_credential` up to the registry, which then goes the same way |
| `SendCredential`, `CreateOffer`, `RequestCredential` | the agent's call |
| `Fails` | every error path of the above, which have no effect |
| `StoreCredential`, `DeleteRecord` | the two endpoints of one call |
| `ForeignOffer`, `AcceptInvitation`, `ReceiveOffer`, `IssueCredential`, `ReceiveCredential`, `ReceiveAck` | issuers that are no tenants, the agents |
| `Operate` | an operator changes the registry or the public DID |

**Run.**

| Run | Instance | What it shows |
|---|---|---|
| `issuance_safety` | 1 request at a time, 1 exchange, 2 DIDs, 1 schema, 2 changes by an operator | `OffersVouched`, `HeldVouched`, `RecordsEndAsAsked` |

A request that has ended may be followed by another, so a behaviour has any
number of them, one after the other. One at a time is enough for a look:
requests share nothing but the records, which they move by single calls, and
between any two calls of a request the instance lets agents, foreign issuers,
deletions and operators move them too; that requests which overlap do no more is
what the theorems say. Exchanges share the registry only; the one of the
instance passes through every pair of states of its two records, or comes from
elsewhere. Two DIDs are what it takes for the public one to change to the other,
for the registry to know one and not the other, and for an offer to name one
that is not looked up; two changes move the public DID and the registry within
one request. `CHECK_DEADLOCK FALSE`: all records may be at their end and nobody
asks. No fairness is assumed.

The properties speak of what was true at some time during the request: the
checks are calls of their own, and no code repeats them. The holder's check is
the only one that stops an issuer from elsewhere, which is why `HeldVouched` says more
than `OffersVouched`.

## Presentation

`POST /v1/verifier/send-request`, `/create-request`, `/accept-request`,
`/reject-request` and `DELETE /v1/verifier/proofs/{id}` of
`src/app/routes/verifier.py`, with `src/app/util/acapy_verifier_utils.py`, for one
connection between a prover and a verifier.

**State.** `role` is what the registry says of the verifier under each of the
three ids it may be known by: its public DID, the did:key of its invitation, its
label. `via` is how the prover's connection names it; `schemas` are those of the
registry. `record`, `mail` and `req` are as in `Issuance`; `bound` are the
records with a connection and `indy` the exchanges of indy proofs. `presented`,
`reported`, `vouched` and `seen` are history.

**Actions.**

| Action | Code |
|---|---|
| `Receive` | the endpoints that make several calls |
| `AssertPublicDid`, `GetConnection`, `GetActor`, `GetActorByName` | `assert_valid_verifier`; from `GetConnection` on, `assert_valid_prover` |
| `GetRecord` | what `accept_proof_request` and `reject_proof_request` read first |
| `CheckSchemas` | `get_schema_ids` and `are_valid_schemas` |
| `SendProofRequest`, `SendPresentation` | the agent's call |
| `ReportProblem`, `DeleteRejected` | the two calls of a rejection |
| `Fails` | every error path of the above |
| `CreateProofRequest`, `DeleteProof` | the endpoints of one call, and verifiers that are no tenants |
| `ReceiveRequest`, `ReceivePresentation`, `ReceiveAck`, `ReceiveProblem`, `Operate` | the agents; an operator |

**Run.**

| Run | Instance | What it shows |
|---|---|---|
| `presentation_safety` | 2 requests at a time, 1 exchange, 1 schema, 3 registers, 1 change by an operator | `PresentedOnlyToVerifiers`, `RequestedOnlyByVerifiers`, `RejectionsAreTold` |

The three registers are an actor without the role under the DID, a verifier
under the key only, and a verifier under DID and label. So a lookup by the DID
or by the key meets a verifier, another actor, nobody with a label that helps, and
nobody. The rest is as for `Issuance`, symmetry and `CHECK_DEADLOCK FALSE`
included.

`PresentedOnlyToVerifiers` is limited to a record with a connection: for others
the code checks nothing (`verifier.py:225`). The agent takes the report of a
problem in any state, so a rejection may abandon a presentation that was sent after
the rejection read the record; `RejectionsAreTold` says "open at some time during
the request", which is what holds.

## What is proved

TLAPS proves the theorems in the `_proofs` modules for every value of the
constants that satisfies `EndorserAssumption` (a finite, non-empty set of
replicas, a positive number of attempts), `TenantAssumption` (the distinguished
values are not members of the sets they are added to), `DefinitionAssumption`
(the same, a positive number of polls, finitely many DIDs and names),
`OnboardingAssumption` (likewise), `StreamAssumption` (a positive size of
batches), `RevocationAssumption` (every credential has a registry, a request names
credentials with their registries, and one that is about a single credential
names one; positive numbers of polls and tries), `IssuanceAssumption` or
`PresentationAssumption` (distinguished values as above; what the registry may
say is a set of functions). The proofs are of the form Init => Inv,
Inv /\ [Next]_vars => Inv', and Inv => property for an invariant, or
Inv /\ [Next]_vars => [A]_vars for an action property.

| Theorem | Property | Argument |
|---|---|---|
| `EndorsementProcessor_proofs!TypeCorrect` | `TypeOK` | with `HoldInv`: a replica holds an event exactly at the labels of its processing. Without it the lookups of `payload[current[p]]` have no type. |
| `OnlyIssuersEndorsed` | `EndorsesOnlyForIssuers` | `IssuerInv`: past `LookupActor` the issuer fact is among those that held since the fetch. `granted` only grows while the event is held, so registry changes do not disturb it. |
| `LateCallsAreBounded` | `LateCallsBounded` | `LateInv`: for an endorsed transaction, the late calls made and the replicas that still can make one are together fewer than all replicas. The replica that endorsed is not among them, and a stale replica makes one call and is no longer stale. |
| `AtLeastOnce` | `ImplementsAtLeastOnce` | refinement: without "stop" and "publish" every label at which the event is acknowledged is reached through its processing (`ConsumerInv`), so each step maps to a step of `AtLeastOnceConsumer` or a stutter. |
| `OnlyRegisteredSchemasEndorsed` | `EndorsesOnlyRegisteredSchemas`, without "connect_timeout" | `SchemaInv`: past `LookupSchema` the schema fact is among those seen since the fetch. `LookupSchema` adds it only if the client got an answer. |
| `ProcessingIsBounded` | `ProcessingBounded` | a measure: `StepsLeft` counts the labels left in this attempt and seven for each attempt left. A retry starts an attempt over and costs one attempt. |
| `TenantLifecycle_proofs!TypeCorrect` | `TypeOK` | with `ShapeInv`: what a handler knows at each label, for instance that an update past its fetch has seen an actor. |
| `NamesUnique` | `ActorNamesUnique` | inductive with the type invariant; the two writers of rows check the name against the table in the step that writes. |
| `IssuersAreOnboarded` | `IssuersOnboarded` | `IssuerInv`: every row a handler has fetched, and every role it has finished onboarding for, is justified by a public DID; public DIDs are never taken back. |
| `DeletedStaysGone`, `FailedCreateIsClean` | `DeletedIsGone`, `FailedCreateLeavesNoWallet` | `WalletInv`: an unused wallet has no actor and no handler; a create that has not registered yet is the only one of its wallet, and nobody has seen an actor of it. So only the creating request can add the actor, once, before any delete that found it. |
| `IssuersRowsHavePublicDids` | `IssuersHavePublicDid`, without "public_did" | `DidInv`: a handler that will write an issuer's row carries a DID it was told of or has published, or the DID of the issuer's row it has seen. |
| `RolesKeptWithoutOverlap` | `RolesNeverRevoked`, given `[]OneUpdateAtATime` | `SeenInv`: between its fetch and its write an update has seen the row as it is, since creates and deletes do not change an existing row and no other update may. |
| `TenantsAgreeBetweenRequests` | `TenantsAgree`, given `[]OneRequestAtATime` and none of "agent", "lost", "crash" | `AgreeInv`: label and name agree, or one handler has renamed the actor and is about to relabel the wallet; `Relies`: a create that has not registered yet has the label it will register, a deletion of a wallet comes after that of its actor. Each hypothesis is needed: TLC finds a counterexample without it. |
| `DefinitionPublication_proofs!TypeCorrect` | `TypeOK` | with `KnowsInv`: what a handler knows at each label, for instance the id of the schema it is about to register. |
| `RegistryTellsTheLedger` | `RegisteredAreOnLedger` | a handler that is about to register knows its schema to be on the ledger, and the ledger only grows. |
| `AnswersAreRight` | `AnswersMatchLedger` | `KnowsInv` at "done": the attributes were compared with the ledger, whose entries never change. |
| `DefinitionsAreOfRegistered` | `CredDefsOfRegisteredSchemas` | past `LookupSchema` the schema is among those that are or were registered, which only grow. |
| `AnsweredDefinitionsUsable` | `AnsweredAreUsable` | written definitions stay written, and the number of active registries does not fall. |
| `CreatedEndUpRegistered` | `CreatedAreRegisteredUnlessFailed` | `RegistrationInv`: a schema on the ledger is registered, was removed, or some handler is about to register it; when all have ended, the last case is void. |
| `SchemasStay` | `LedgerIsKept` | step by step: only `PublishSchema` writes the ledger, where there was nothing. |
| `OneRequestDefines` | `DefinedByOne` | with `Submitted`: whoever waits for a definition or answers with it has submitted it, and the agent takes a definition once. |
| `DefinitionPublication_proofs!RequestsComeNearerTheirEnd` | `EachStepIsNearer` | `Stage` orders the labels as the code does; a wait that stays where it is counts a poll, which `TypeOK` bounds. |
| `IssuerOnboarding_proofs!TypeCorrect`, `WaitsExact` | `TypeOK`, `WaitsAreExact` | `Knows`: what an attempt relies on at each label is about its own transactions and its own DID, and acknowledged transactions and public DIDs only grow, so no step of another attempt takes it away. |
| `OnboardingPublishes` | the safety part of `ImplementsDidPublication` | step by step: `SetPublicDid` maps to `Publish`, or to `PublishAndFail` if its answer is lost, `CreateInvitation` to `Answer`, failures and crashes to `Fail`, the rest to stutters. An attempt that answers with a DID it found has published none of its own, since it asked before anything else. |
| `AttemptsComeNearerTheirEnd` | `EachStepIsNearer` | as above, with twelve stages. |
| `AttemptsAreConnected` | `HandlersAreConnected` | a connection changes only by its own attempt once it is completed, so each call of `Configure` finds it as the one before left it, and `Send` finds at least the attempt's own. |
| `EventStream_proofs!TypeCorrect`, `HoldsOneSubscription` | `TypeOK`, `OneSubscription` | with `SentIsMatch`: nothing is sent before the loop is left, so that what the client has is what was sent, once. |
| `StreamImplementsEventWait` | `ImplementsEventWait` | `EndsForReason`: a generator that ends without an exception has sent its event, run out of time, or lost the app; `OpenForClient`: the relay is open as long as the client waits. So `RelayEnd` maps to `End`, `RelayLine` to `Deliver`, and the steps of waypoint to stutters. |
| `FirstSubscriptionIsClosed`, `NothingIsLeftSubscribed` | `OnlyReplacementsLeak`, without "error"; `NothingLeftSubscribed`, without "timeout" and "error" | `ClosedInv`: the end gives up the subscription the generator was given first; `FirstInv`: only a lost connection makes it subscribe again. |
| `MatchesKept` | `MatchesAreKept` | `AckedInv`: only what does not match is acknowledged, and what is fetched and not acknowledged is outstanding until it is redelivered. |
| `StreamMovesToItsEnd` | `EndsAfterTime` | `Towards` orders the labels so that only `Fetch` and a new turn of the loop go back, and neither happens after the time is over. |
| `Revocation_proofs!TypeCorrect`, `AnswersTrue` | `TypeOK`, `AnswersAreTrue` | `Sound`: what a handler's label says of the transactions it has sent, which are nobody else's. A clear names what was left at that moment, so it cannot name what it purged. |
| `PublishAnswers` | `PublishAnswersAreOnLedger` | at "await_txn" every transaction of the request is acknowledged or still in `todo`, and what is acknowledged is on the ledger and stays there. |
| `PendingLeaves` | `PendingLeavesOnRequest` | step by step: the calls that take marks away take them from `Covers` of the request's own map, or from the registry of the credential that it revokes and publishes. |
| `RevocationImplementsStatus` | `ImplementsCredentialStatus` | `Coherent`: what is sent is not pending any more, and only what was sent is in the records and on the ledger. Calls that mark, purge and publish map to `Mark`, `Unmark` and `Send`, also when their answer is lost; `Endorse` and `FixRegistry` to `Write`, since a record says "revoked" only of what was sent; the end of the wait to `Tell`. |
| `Revocation_proofs!RequestsComeNearerTheirEnd` | `EachStepIsNearer` | a later stage, or a smaller `todo`, or one more poll. At "await_txn" there is something left to wait for (`Awaits`), so the answer always goes to a later stage or drops a registry. |
| `Issuance_proofs!TypeCorrect` | `TypeOK` | with the facts on an exchange that somebody has offered: it has a credential, which never changes. |
| `OffersAreVouched`, `HeldAreVouched` | `OffersVouched`, `HeldVouched` | `Remembers`: what holds now is in `seen` of every request at work, so each passed check leaves its fact there for good, whatever operators do later. A credential reaches a wallet only from a record that a request has moved. |
| `RecordsEnd` | `RecordsEndAsAsked` | a record is in `autoRemove` exactly if what was asked for it says so; only the side's own request changes either; a record that has ended stays, unless its side deletes it. |
| `EachExchangeRunsOnce` | `ExchangesRunOnce` | each step takes at most one record to a later `Stage`; requests, credentials and storing each go with one such move, and an offer's credential is written where there was no offer. |
| `Presentation_proofs!TypeCorrect` | `TypeOK` | with what each label says of its exchange: an answer is to an exchange that was requested, whose type and connection no longer change. |
| `PresentsOnlyToVerifiers`, `RequestsOnlyByVerifiers` | `PresentedOnlyToVerifiers`, `RequestedOnlyByVerifiers` | as above with `seen`: past the lookups the verifier is known under the id that was looked up, past `CheckSchemas` so are the schemas. |
| `RejectsWhatIsOpen` | `RejectionsAreTold` | past `GetRecord` a rejection has seen its exchange open; at "delete" it has reported. |
| `PresentsOnce` | `PresentsAtMostOnce` | `SettledInv`: the prover's record remembers that it has presented or that a rejection was reported, and the agent presents only from "request-received". |

Seven of these theorems (`AtLeastOnce` and the ones with a "without" or a
"given" in the table) have a hypothesis on `Faults` or on overlap besides: they
prove that only the named faults or overlaps can break the promise, whatever
else happens. `RolesKeptWithoutOverlap` and `NothingIsLeftSubscribed` are so the
counterparts of the violated runs `tenants_roles` and `stream_leak`, whose
counterexamples need nothing but what the hypothesis rules out.

Only model-checked: the liveness properties (`EveryEventConsumed`,
`StopTerminates`, `ApplicableEventuallyEndorsed`, `MatchReachesClient`, `StreamEnds`,
`RequestsEnd`), since TLAPS has no support for fairness and ENABLED, and the
violations. What they rest on is proved as far as it is safety: a measure that
every step of the process lowers and no other step raises (`ProcessingIsBounded`,
`StreamMovesToItsEnd`, the `...ComeNearerTheirEnd` theorems), and that nothing
waited for is lost (`MatchesKept`). That a handler which can step does step is the
fairness the specifications state.

## What the checks found

1. `endorser_stop`: stopping a replica in the middle of an event acknowledges
   the event; it is neither processed nor recorded nor redelivered.
2. `tenants_roles`: of two concurrent updates the later writes back the roles it
   fetched before the earlier one added a role.
3. `stream_leak`: a stream that lost its connection once closes, at its end,
   the first subscription only; the second stays open.

The models also have these behaviours, with no run of their own; they are the
reasons for the limits of the properties:

- `RichAsyncClient` returns `None` after repeated connect timeouts, and the
  lookups of a schema take that for a yes, in the endorser, before a credential
  definition and before an offer.
- A query for the public DID that fails is taken for "no public DID": an
  issuer that becomes a verifier is then registered under the key of an
  invitation, and one that is onboarded again gets a second public DID.
- A create of a schema whose registration failed answers 200 when it is tried
  again, and the schema is not in the registry (`CreatedAreRegistered` is the
  promise, `CreatedAreRegisteredUnlessFailed` what holds).
- An event that cannot be decoded stays in the endorser's stream and is delivered
  for ever, though the docstring of `_handle_unprocessable_endorse_event` says that
  "the unprocessable event is persisted to a separate key for further investigation"
  (endorsement_processor.py:171); the events behind it get through.
- An onboarding that failed while it configured its connection leaves that
  connection half configured; an agent that picks it refuses the next attempt.
- An answer to a revocation with `auto_publish_on_ledger` may come before the
  ledger has the revocation.

## What is not modelled

- The contents of messages, credentials, invitations and ledger transactions;
  logging; HTTP status codes beyond what a caller branches on.
- The interior of ACA-Py, the ledger, PostgreSQL and JetStream, save for what
  the code relies on: a record is endorsed once, a row is written whole under
  the table's unique keys, an unacknowledged message is redelivered.
- In `EndorsementProcessor`, time: a delay is a step that may happen at any
  moment. The event's `origin` and the stream's retention are left out.
- In `TenantLifecycle`, the invitation and image of an actor (an update of the
  image alone still rewrites the row), group ids (`GetWallet` may answer 404 to
  any caller) and the access-token rotation, which touches neither table.
- In `DefinitionPublication`, renaming a registered schema
  (`PUT /registry/schemas/{id}`), the listings, and the check that the caller
  is the governance agent.
- In `IssuerOnboarding`, the endorser's own onboarding; the DID of an attempt
  whose registration failed stays in the wallet and is never looked at again.
- In `EventStream`, the clock that `start_time` is read from (local time with the
  suffix of UTC), the default that takes the place of a look-back of 0, and the
  authentication; `start` is any position of the log.
- In `Revocation`, the two helpers that no endpoint calls
  (`get_active_revocation_registry_for_credential`,
  `get_credential_definition_id_from_exchange_id`), and the change of a full registry.
- In `Issuance`, the contents of credentials and the listings. The DID that
  an offer names is any DID: a credential definition carries that of its maker.
  A record of several formats counts as one of its first format, as it does for
  the code (`credential_exchange.py:74-76`), and an offer from elsewhere has one.
- In `Presentation`, the listings, the predicates of a proof request and the
  verification itself; whether a record is kept at its end is a free choice, and
  a presentation of another type than the request's is refused by the agent. An
  id of the registry stands for what is registered under it, so an actor that
  changes its label or its DID is a change of `role`.
- The components marked "not_modelled" in `PROJECT.json`, for the reasons there.

## Plan

The components with behaviour of their own are modelled. What could be added:

1. Renaming a registered schema, with the parsing of schema ids.
2. The retry loop of `RichAsyncClient` as a module that the kinds of fault of
   the others refine.
3. The rotation of a tenant's access token, and the connection and out-of-band
   endpoints, which are one call of the agent each.

----------------------- MODULE DefinitionPublication -----------------------
(***************************************************************************)
(* The definitions of the web service (src/app/routes/definitions.py): the *)
(* governance agent publishes schemas to the ledger and registers them in  *)
(* the trust registry; an issuer publishes credential definitions of       *)
(* registered schemas, waits until the endorser has let them through and,  *)
(* for revocation, until their registries are active.                      *)
(*                                                                         *)
(* Every request is a sequence of calls with no transaction around them,   *)
(* so requests interleave between any two calls and a failed one leaves    *)
(* what it had done.                                                       *)
(***************************************************************************)
EXTENDS Naturals, FiniteSets

CONSTANTS
    Requests,    \* HTTP requests that create a definition
    Names,       \* a schema's name with its version
    AttrSets,    \* the sets of attribute names a schema may have
    Dids,        \* public DIDs that the governance agent has had
    MaxPolls,    \* max_attempts of the polls (60 and 3 in the code)
    Faults,      \* the kinds of fault that may happen
    MaxFaults,   \* bound: kinds of fault in one behaviour
    MaxChanges,  \* bound: changes of the registry and of the DID by operators
    NoAttrs, NoName, NoId

\* A schema's id is built from its issuer's DID, its name and its version.
SchemaIds == [did : Dids, name : Names]

(***************************************************************************)
(* registry: the trust registry answers with an error.  connect_timeout:   *)
(* RichAsyncClient returns None after three ConnectTimeouts.  agent: an    *)
(* agent answers with an error.  lost: a call takes effect and its answer  *)
(* is lost.  race: two publications overlap in the agent, and neither sees *)
(* the other's record.                                                     *)
(***************************************************************************)
FaultKinds == {"registry", "connect_timeout", "agent", "lost", "race", "crash"}

ASSUME DefinitionAssumption ==
    /\ IsFiniteSet(Dids) /\ IsFiniteSet(Names)
    /\ MaxPolls \in Nat \ {0}
    /\ Faults \subseteq FaultKinds
    /\ MaxFaults \in Nat
    /\ MaxChanges \in Nat
    /\ NoAttrs \notin AttrSets /\ NoName \notin Names /\ NoId \notin SchemaIds

VARIABLES
    publicDid,   \* the governance agent's public DID
    schemas,     \* the ledger: the attributes of each schema
    created,     \* the governance wallet: ids of the schemas it has published
    rows,        \* the trust registry: ids of its schemas
    removed,     \* ghost: ids that operators removed from the registry
    issuer,      \* the trust registry: whether the issuer's actor is there
    credDefs,    \* the issuer's credential definition of each schema
    revocable,   \* schemas whose credential definition supports revocation
    registries,  \* active revocation registries of each credential definition
    task,        \* the handler of each request
    changes,
    faults       \* the kinds of fault that have happened

schemaVars   == <<publicDid, schemas, created>>
registryVars == <<rows, removed, issuer>>
credDefVars  == <<credDefs, revocable, registries>>
vars == <<schemaVars, registryVars, credDefVars, task, changes, faults>>

Publishing == {"publish_schema", "register", "existing_did", "existing_schema",
               "created_schemas"}
Checking   == {"public_did", "lookup_issuer", "lookup_schema", "connection",
               "publish_cred_def"}
Awaiting   == {"ack", "registries", "fetch"}
Working    == Publishing \cup Checking \cup Awaiting
Ended      == {"done", "failed", "crashed"}

\* name, attrs: of a schema to create; id: of the schema created or found, or
\* the one to define a credential of; revocation: support_revocation.
Task == [pc : {"idle"} \cup Working \cup Ended, op : {"none", "schema", "cred_def"},
         name : Names \cup {NoName}, attrs : AttrSets \cup {NoAttrs},
         id : SchemaIds \cup {NoId}, revocation : BOOLEAN, polls : 0..(MaxPolls - 1)]

TypeOK ==
    /\ publicDid \in Dids
    /\ schemas \in [SchemaIds -> AttrSets \cup {NoAttrs}]
    /\ created \subseteq SchemaIds
    /\ rows \subseteq SchemaIds
    /\ removed \subseteq SchemaIds
    /\ issuer \in BOOLEAN
    /\ credDefs \in [SchemaIds -> {"none", "requested", "written"}]
    /\ revocable \subseteq SchemaIds
    /\ registries \in [SchemaIds -> 0..2]
    /\ task \in [Requests -> Task]
    /\ changes \in Nat
    /\ faults \subseteq Faults

Handler(pc, op, n, a, i, rev) ==
    [pc |-> pc, op |-> op, name |-> n, attrs |-> a, id |-> i, revocation |-> rev,
     polls |-> 0]

\* The governance agent may have published and registered schemas before,
\* under any of its public DIDs.
Init ==
    /\ publicDid \in Dids
    /\ created \in SUBSET SchemaIds
    /\ \E a \in AttrSets :
        schemas = [i \in SchemaIds |-> IF i \in created THEN a ELSE NoAttrs]
    /\ rows = created /\ removed = {}
    /\ issuer \in BOOLEAN
    /\ credDefs = [i \in SchemaIds |-> "none"]
    /\ revocable = {}
    /\ registries = [i \in SchemaIds |-> 0]
    /\ task = [r \in Requests |-> Handler("idle", "none", NoName, NoAttrs, NoId, FALSE)]
    /\ changes = 0 /\ faults = {}

Fault(f) ==
    /\ f \in Faults
    /\ faults' = faults \cup {f}
    /\ Cardinality(faults') <= MaxFaults
NoFault  == UNCHANGED faults

At(r, label)   == task[r].pc = label
Become(r, t)   == task' = [task EXCEPT ![r] = t]
Goto(r, label) == Become(r, [task[r] EXCEPT !.pc = label, !.polls = 0])
Fail(r)        == Goto(r, "failed")

\* Mutant of Retry: one attempt too many.
RetryOnceMore(r) ==
    IF task[r].polls + 1 <= MaxPolls
    THEN Become(r, [task[r] EXCEPT !.polls = @ + 1])
    ELSE Fail(r)

\* An unsuccessful attempt of a poll: wait for the next, or give up.
Retry(r) ==
    IF task[r].polls + 1 < MaxPolls
    THEN Become(r, [task[r] EXCEPT !.polls = @ + 1])
    ELSE Fail(r)

-----------------------------------------------------------------------------
(* The environment.                                                        *)

\* PUT /v1/wallet/dids/public by the governance agent.
ChangePublicDid ==
    /\ changes < MaxChanges /\ changes' = changes + 1
    /\ \E d \in Dids \ {publicDid} : publicDid' = d
    /\ UNCHANGED <<schemas, created, registryVars, credDefVars, task, faults>>

\* An operator deletes a schema, or an actor comes or goes.
ChangeRegistry ==
    /\ changes < MaxChanges /\ changes' = changes + 1
    /\ \/ /\ \E i \in rows : rows' = rows \ {i} /\ removed' = removed \cup {i}
          /\ UNCHANGED issuer
       \/ issuer' = ~ issuer /\ UNCHANGED <<rows, removed>>
    /\ UNCHANGED <<schemaVars, credDefVars, task, faults>>

\* The endorser endorses a transaction and the issuer's agent writes it.  It
\* may as well never do so.
Endorse(i) ==
    /\ credDefs[i] = "requested"
    /\ credDefs' = [credDefs EXCEPT ![i] = "written"]
    /\ UNCHANGED <<schemaVars, registryVars, revocable, registries, task, changes, faults>>

\* The issuer's agent activates the two registries of a definition, in turn.
ActivateRegistry(i) ==
    /\ credDefs[i] = "written" /\ i \in revocable /\ registries[i] < 2
    /\ registries' = [registries EXCEPT ![i] = @ + 1]
    /\ UNCHANGED <<schemaVars, registryVars, credDefs, revocable, task, changes, faults>>

Crash(r) ==
    /\ task[r].pc \in Working
    /\ Fault("crash")
    /\ Goto(r, "crashed")
    /\ UNCHANGED <<schemaVars, registryVars, credDefVars, changes>>

\* A request is received: its body names a schema to create, or the schema to
\* define a credential of.
Receive(r) ==
    /\ At(r, "idle")
    /\ \/ \E n \in Names, a \in AttrSets :
            Become(r, Handler("publish_schema", "schema", n, a, NoId, FALSE))
       \/ \E i \in SchemaIds, rev \in BOOLEAN :
            Become(r, Handler("public_did", "cred_def", NoName, NoAttrs, i, rev))
    /\ UNCHANGED <<schemaVars, registryVars, credDefVars, changes, faults>>

-----------------------------------------------------------------------------
(* Creating a schema.                                                      *)

CreatedAs(n) == {i \in created : i.name = n}

\* Mutant of PublishSchema: a publication that the agent refused is registered.
PublishSchemaHeedless(r) ==
    /\ At(r, "publish_schema")
    /\ Become(r, [task[r] EXCEPT !.pc = "register",
                                 !.id = [did |-> publicDid, name |-> task[r].name]])
    /\ UNCHANGED <<schemaVars, registryVars, credDefVars, changes, faults>>

\* The agent refuses a name and version that its wallet has published already,
\* and the ledger an id that it has with other attributes; it takes the same
\* schema twice.  An answer that is lost may leave no record in the wallet.
PublishSchema(r) ==
    /\ At(r, "publish_schema")
    /\ LET id    == [did |-> publicDid, name |-> task[r].name]
           known == CreatedAs(task[r].name) # {}
           fresh == schemas[id] \in {NoAttrs, task[r].attrs}
       IN
        \/ /\ fresh
           /\ IF known THEN Fault("race") ELSE NoFault
           /\ schemas' = [schemas EXCEPT ![id] = task[r].attrs]
           /\ created' = created \cup {id}
           /\ Become(r, [task[r] EXCEPT !.pc = "register", !.id = id])
        \/ /\ fresh /\ ~ known /\ Fault("lost")
           /\ schemas' = [schemas EXCEPT ![id] = task[r].attrs]
           /\ created' \in {created, created \cup {id}}
           /\ Fail(r)
        \/ /\ known \/ ~ fresh
           /\ Goto(r, "existing_did") /\ NoFault
           /\ UNCHANGED <<schemas, created>>
        \/ /\ Fail(r) /\ Fault("agent")
           /\ UNCHANGED <<schemas, created>>
    /\ UNCHANGED <<publicDid, registryVars, credDefVars, changes>>

\* Mutant of RegisterSchema: the schema is not sent to the registry.
RegisterNothing(r) ==
    /\ At(r, "register")
    /\ Goto(r, "done")
    /\ UNCHANGED <<schemaVars, registryVars, credDefVars, changes, faults>>

\* crud.create_schema: the registry answers 409 to an id that it has.
CreateRow(i) == i \notin rows /\ rows' = rows \cup {i}

\* register_schema.  A client that could not connect returns None, which
\* nothing looks at.
RegisterSchema(r) ==
    /\ At(r, "register")
    /\ \/ /\ CreateRow(task[r].id)
          /\ \/ Goto(r, "done") /\ NoFault
             \/ Fail(r) /\ Fault("lost")
       \/ /\ (task[r].id \in rows /\ NoFault) \/ Fault("registry")
          /\ Fail(r) /\ UNCHANGED rows
       \/ Goto(r, "done") /\ Fault("connect_timeout") /\ UNCHANGED rows
    /\ UNCHANGED <<schemaVars, removed, issuer, credDefVars, changes>>

\* _handle_existing_schema: the id the schema has if it was published under
\* the present public DID.
GetOwnDid(r) ==
    /\ At(r, "existing_did")
    /\ \/ /\ Become(r, [task[r] EXCEPT !.pc = "existing_schema",
                            !.id = [did |-> publicDid, name |-> task[r].name]])
          /\ NoFault
       \/ Fail(r) /\ Fault("agent")
    /\ UNCHANGED <<schemaVars, registryVars, credDefVars, changes>>

\* Mutant of Return: the attributes are not compared.
ReturnAny(r, i) == Become(r, [task[r] EXCEPT !.pc = "done", !.id = i])

\* The schema found is the answer if it has the requested attributes.
Return(r, i) ==
    IF schemas[i] = task[r].attrs
    THEN Become(r, [task[r] EXCEPT !.pc = "done", !.id = i])
    ELSE Fail(r)

GetExistingSchema(r) ==
    /\ At(r, "existing_schema")
    /\ \/ /\ IF schemas[task[r].id] = NoAttrs
             THEN Goto(r, "created_schemas")
             ELSE Return(r, task[r].id)
          /\ NoFault
       \/ Fail(r) /\ Fault("agent")
    /\ UNCHANGED <<schemaVars, registryVars, credDefVars, changes>>

\* The governance agent has changed its public DID since: exactly one schema of
\* its wallet must have the name and version.
GetCreatedSchemas(r) ==
    /\ At(r, "created_schemas")
    /\ \/ /\ \E i \in CreatedAs(task[r].name) :
                CreatedAs(task[r].name) = {i} /\ Return(r, i)
          /\ NoFault
       \/ /\ Cardinality(CreatedAs(task[r].name)) # 1 /\ NoFault
          /\ Fail(r)
       \/ Fail(r) /\ Fault("agent")
    /\ UNCHANGED <<schemaVars, registryVars, credDefVars, changes>>

-----------------------------------------------------------------------------
(* Creating a credential definition.                                       *)

\* assert_public_did: 403 for an agent that has none.
AssertPublicDid(r) ==
    /\ At(r, "public_did")
    /\ \/ Goto(r, "lookup_issuer") /\ NoFault
       \/ Fail(r) /\ (NoFault \/ Fault("agent"))
    /\ UNCHANGED <<schemaVars, registryVars, credDefVars, changes>>

\* fetch_actor_by_did: no actor, no answer and no response all raise.
LookupIssuer(r) ==
    /\ At(r, "lookup_issuer")
    /\ \/ issuer /\ Goto(r, "lookup_schema") /\ NoFault
       \/ /\ (~ issuer /\ NoFault) \/ Fault("registry") \/ Fault("connect_timeout")
          /\ Fail(r)
    /\ UNCHANGED <<schemaVars, registryVars, credDefVars, changes>>

AfterChecks(r) == IF task[r].revocation THEN "connection" ELSE "publish_cred_def"

\* Mutant of LookupSchema: the answer of registry_has_schema is ignored.
LookupSchemaHeedless(r) ==
    /\ At(r, "lookup_schema")
    /\ Goto(r, AfterChecks(r))
    /\ UNCHANGED <<schemaVars, registryVars, credDefVars, changes, faults>>

\* registry_has_schema: any response but a 404 counts, and so does none.
LookupSchema(r) ==
    /\ At(r, "lookup_schema")
    /\ \/ /\ (task[r].id \in rows /\ NoFault) \/ Fault("connect_timeout")
          /\ Goto(r, AfterChecks(r))
       \/ /\ (task[r].id \notin rows /\ NoFault) \/ Fault("registry")
          /\ Fail(r)
    /\ UNCHANGED <<schemaVars, registryVars, credDefVars, changes>>

\* check_endorser_connection: a revocable definition needs a connection that
\* is completed.
CheckConnection(r) ==
    /\ At(r, "connection")
    /\ \/ Goto(r, "publish_cred_def") /\ NoFault
       \/ Fail(r) /\ (NoFault \/ Fault("agent"))
    /\ UNCHANGED <<schemaVars, registryVars, credDefVars, changes>>

AfterWrite(r) == IF task[r].revocation THEN "registries" ELSE "fetch"

\* The agent refuses a definition that it has, and one whose schema is not on
\* the ledger.  An author's agent returns a transaction to be endorsed; others
\* write the definition themselves.
PublishCredDef(r) ==
    /\ At(r, "publish_cred_def")
    /\ LET i == task[r].id IN
        \/ /\ credDefs[i] = "none" /\ schemas[i] # NoAttrs
           /\ revocable' = IF task[r].revocation THEN revocable \cup {i} ELSE revocable
           /\ \/ /\ credDefs' = [credDefs EXCEPT ![i] = "requested"]
                 /\ \/ Goto(r, "ack") /\ NoFault
                    \/ Fail(r) /\ Fault("lost")
              \/ /\ credDefs' = [credDefs EXCEPT ![i] = "written"]
                 /\ Goto(r, AfterWrite(r)) /\ NoFault
        \/ /\ \/ (credDefs[i] # "none" \/ schemas[i] = NoAttrs) /\ NoFault
              \/ Fault("agent")
           /\ Fail(r) /\ UNCHANGED <<credDefs, revocable>>
    /\ UNCHANGED <<schemaVars, registryVars, registries, changes>>

\* Mutant of AwaitAck: the last attempt counts as success.
AwaitAckHopeful(r) ==
    /\ At(r, "ack")
    /\ IF credDefs[task[r].id] = "written" \/ task[r].polls + 1 = MaxPolls
       THEN Goto(r, AfterWrite(r))
       ELSE Retry(r)
    /\ UNCHANGED <<schemaVars, registryVars, credDefVars, changes, faults>>

\* wait_for_transaction_ack: polls the transaction; an error of the agent is
\* an attempt like any other.
AwaitAck(r) ==
    /\ At(r, "ack")
    /\ \/ /\ credDefs[task[r].id] = "written"
          /\ Goto(r, AfterWrite(r)) /\ NoFault
       \/ /\ (credDefs[task[r].id] # "written" /\ NoFault) \/ Fault("agent")
          /\ Retry(r)
    /\ UNCHANGED <<schemaVars, registryVars, credDefVars, changes>>

\* Mutant of AwaitRegistries: one active registry is enough.
AwaitOneRegistry(r) ==
    /\ At(r, "registries")
    /\ IF registries[task[r].id] > 0 THEN Goto(r, "fetch") ELSE Fail(r)
    /\ UNCHANGED <<schemaVars, registryVars, credDefVars, changes, faults>>

\* wait_for_active_registry under asyncio.wait_for: until both registries are
\* active, the time is over, or a query fails.
AwaitRegistries(r) ==
    /\ At(r, "registries")
    /\ \/ registries[task[r].id] = 2 /\ Goto(r, "fetch") /\ NoFault
       \/ Fail(r) /\ (NoFault \/ Fault("agent"))
    /\ UNCHANGED <<schemaVars, registryVars, credDefVars, changes>>

\* get_credential_definition_by_id, tried again while the ledger does not show
\* the definition ("it can return 404").
FetchCredDef(r) ==
    /\ At(r, "fetch")
    /\ \/ Goto(r, "done") /\ NoFault
       \/ Retry(r) /\ (NoFault \/ Fault("agent"))
    /\ UNCHANGED <<schemaVars, registryVars, credDefVars, changes>>

-----------------------------------------------------------------------------
Handle(r) ==
    \/ PublishSchema(r) \/ RegisterSchema(r) \/ GetOwnDid(r)
    \/ GetExistingSchema(r) \/ GetCreatedSchemas(r)
    \/ AssertPublicDid(r) \/ LookupIssuer(r) \/ LookupSchema(r)
    \/ CheckConnection(r) \/ PublishCredDef(r) \/ AwaitAck(r)
    \/ AwaitRegistries(r) \/ FetchCredDef(r)

Next ==
    \/ \E r \in Requests : Receive(r) \/ Crash(r) \/ Handle(r)
    \/ \E i \in SchemaIds : Endorse(i) \/ ActivateRegistry(i)
    \/ ChangePublicDid \/ ChangeRegistry

Spec == Init /\ [][Next]_vars

-----------------------------------------------------------------------------
(* Properties.                                                             *)

\* Whatever failed, raced or was retried, the trust registry names no schema
\* that is not on the ledger, where tenants go for its attributes.
RegisteredAreOnLedger == \A i \in rows : schemas[i] # NoAttrs

\* The schema that a create request answers with is on the ledger with the
\* name and the attributes of the request, whichever request published it and
\* under whichever DID.
AnswersMatchLedger ==
    \A r \in Requests :
        task[r].op = "schema" /\ At(r, "done") =>
            /\ task[r].id.name = task[r].name
            /\ schemas[task[r].id] = task[r].attrs

\* No credential definition is submitted of a schema that was never in the
\* trust registry, though the schema's registration, its removal and the other
\* requests run concurrently with the check; unless the registry could not be
\* reached, which the check takes for a yes.
CredDefsOfRegisteredSchemas ==
    "connect_timeout" \notin faults =>
        \A i \in SchemaIds : credDefs[i] # "none" => i \in rows \cup removed

\* A credential definition that a request answers with has been endorsed and
\* written and, for revocation, both its registries are active, so that a
\* credential can be issued and revoked at once.
AnsweredAreUsable ==
    \A r \in Requests :
        task[r].op = "cred_def" /\ At(r, "done") =>
            /\ credDefs[task[r].id] = "written"
            /\ task[r].revocation => registries[task[r].id] = 2

Quiet == \A r \in Requests : task[r].pc \in {"idle"} \cup Ended

\* "When a schema is created, it is published to the ledger and written to our
\* public trust registry" (routes/definitions.py:53): once no request is under
\* way, every schema that a create request answered with is registered, unless
\* an operator removed it.  A retry of a create whose registration failed
\* breaks it.
CreatedAreRegistered ==
    Quiet => \A r \in Requests :
        task[r].op = "schema" /\ At(r, "done") => task[r].id \in rows \cup removed

\* The same as long as no registration failed, whatever requests race and
\* whatever else fails: a schema that a request finds on the ledger was
\* published by one that registers it too.
CreatedAreRegisteredUnlessFailed ==
    faults \subseteq {"agent", "race"} => CreatedAreRegistered

=============================================================================

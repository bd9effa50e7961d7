-------------------- MODULE DefinitionPublication_proofs --------------------
(***************************************************************************)
(* Proofs about DefinitionPublication for every set of requests, names,    *)
(* attributes and DIDs, every choice of faults and every bound.            *)
(***************************************************************************)
EXTENDS DefinitionPublication, TLAPS

\* What the handler of a request may rely on at each label.
Knows(t) ==
    /\ t.pc \in Publishing => t.op = "schema" /\ t.name \in Names /\ t.attrs \in AttrSets
    /\ t.pc \in Checking \cup Awaiting => t.op = "cred_def" /\ t.id \in SchemaIds
    /\ t.pc = "register" \/ (t.pc = "done" /\ t.op = "schema") =>
        /\ t.attrs \in AttrSets /\ t.id \in SchemaIds
        /\ t.id.name = t.name /\ schemas[t.id] = t.attrs
    /\ t.pc = "existing_schema" => t.id \in SchemaIds /\ t.id.name = t.name
    /\ t.pc \in {"connection", "publish_cred_def"} =>
        "connect_timeout" \in faults \/ t.id \in rows \cup removed
    /\ t.pc \in {"registries", "fetch"} => credDefs[t.id] = "written"
    /\ t.pc = "fetch" /\ t.revocation => registries[t.id] = 2
    /\ t.pc = "done" /\ t.op = "cred_def" =>
        /\ t.id \in SchemaIds /\ credDefs[t.id] = "written"
        /\ t.revocation => registries[t.id] = 2

KnowsInv == \A r \in Requests : Knows(task[r])

\* Every schema on the ledger is registered, or about to be, as long as no
\* registration failed.
Pending(i) == \E r \in Requests : task[r].pc = "register" /\ task[r].id = i
RegistrationInv ==
    faults \subseteq {"agent", "race"} =>
        \A i \in SchemaIds : schemas[i] # NoAttrs => i \in rows \cup removed \/ Pending(i)

LedgerInv == \A i \in rows \cup created : schemas[i] # NoAttrs

IInv ==
    /\ TypeOK
    /\ KnowsInv
    /\ LedgerInv
    /\ CredDefsOfRegisteredSchemas
    /\ RegistrationInv

\* The type of everything but the handlers.
DataOK ==
    /\ publicDid \in Dids
    /\ schemas \in [SchemaIds -> AttrSets \cup {NoAttrs}]
    /\ created \subseteq SchemaIds
    /\ rows \subseteq SchemaIds
    /\ removed \subseteq SchemaIds
    /\ issuer \in BOOLEAN
    /\ credDefs \in [SchemaIds -> {"none", "requested", "written"}]
    /\ revocable \subseteq SchemaIds
    /\ registries \in [SchemaIds -> 0..2]
    /\ changes \in Nat
    /\ faults \subseteq Faults

\* What no step takes back.
Grows ==
    /\ \A i \in SchemaIds : schemas[i] # NoAttrs => schemas'[i] = schemas[i]
    /\ rows \cup removed \subseteq rows' \cup removed'
    /\ faults \subseteq faults'
    /\ \A i \in SchemaIds : credDefs[i] = "written" => credDefs'[i] = "written"
    /\ \A i \in SchemaIds : registries[i] = 2 => registries'[i] = 2

\* Every initial state satisfies the invariant.
LEMMA InitInv == Init => IInv
<1> SUFFICES ASSUME Init PROVE IInv OBVIOUS
<1>1. task \in [Requests -> Task]
  BY DefinitionAssumption DEF Init, Handler, Task
<1>2. PICK a \in AttrSets :
        schemas = [i \in SchemaIds |-> IF i \in created THEN a ELSE NoAttrs]
  BY DEF Init
<1>3. schemas \in [SchemaIds -> AttrSets \cup {NoAttrs}]
  BY <1>2
<1>4. TypeOK
  <2>1. /\ credDefs \in [SchemaIds -> {"none", "requested", "written"}]
        /\ registries \in [SchemaIds -> 0..2]
    BY DEF Init
  <2>2. /\ created \subseteq SchemaIds /\ rows \subseteq SchemaIds
        /\ removed \subseteq SchemaIds /\ revocable \subseteq SchemaIds
        /\ publicDid \in Dids /\ issuer \in BOOLEAN
        /\ changes \in Nat /\ faults \subseteq Faults
    BY DEF Init
  <2> QED BY <1>1, <1>3, <2>1, <2>2 DEF TypeOK
<1>5. KnowsInv
  BY DEF Init, Handler, KnowsInv, Knows, Publishing, Checking, Awaiting
<1>6. LedgerInv /\ RegistrationInv
  BY <1>2, DefinitionAssumption DEF Init, LedgerInv, RegistrationInv
<1>7. CredDefsOfRegisteredSchemas
  BY DEF Init, CredDefsOfRegisteredSchemas
<1> QED BY <1>4, <1>5, <1>6, <1>7 DEF IInv

\* What a handler relies on stays true while it does not move.
LEMMA KnowledgeIsStable ==
    ASSUME IInv, Grows, NEW q \in Requests, task'[q] = task[q]
    PROVE  Knows(task[q])'
<1>1. task[q] \in Task /\ Knows(task[q])
  BY DEF IInv, TypeOK, KnowsInv
<1>2. task[q].attrs \in AttrSets => task[q].attrs # NoAttrs
  BY DefinitionAssumption
<1> QED BY <1>1, <1>2 DEF Knows, Grows, Publishing, Checking, Awaiting

\* A step that moves one handler, to where it knows what it must know.
LEMMA Moved ==
    ASSUME IInv, DataOK', Grows, NEW r \in Requests, NEW t, t \in Task,
           Become(r, t), Knows(task[r])'
    PROVE  TypeOK' /\ KnowsInv'
<1>1. task \in [Requests -> Task] /\ task' = [task EXCEPT ![r] = t]
  BY DEF IInv, TypeOK, Become
<1>2. TypeOK'
  BY <1>1 DEF TypeOK, DataOK
<1>3. ASSUME NEW q \in Requests, q # r PROVE Knows(task[q])'
  <2>1. task'[q] = task[q]
    BY <1>1, <1>3
  <2> QED BY <2>1, KnowledgeIsStable
<1>4. KnowsInv'
  BY <1>3 DEF KnowsInv
<1> QED BY <1>2, <1>4

\* A step that moves no handler.
LEMMA Unmoved ==
    ASSUME IInv, DataOK', Grows, UNCHANGED task
    PROVE  TypeOK' /\ KnowsInv'
<1>1. \A q \in Requests : Knows(task[q])'
  BY KnowledgeIsStable
<1> QED BY <1>1 DEF IInv, TypeOK, DataOK, KnowsInv

\* A handler that stops needs to know nothing.
LEMMA Stopped ==
    ASSUME IInv, NEW r \in Requests, NEW l \in {"failed", "crashed"}, Goto(r, l)
    PROVE  /\ [task[r] EXCEPT !.pc = l, !.polls = 0] \in Task
           /\ Become(r, [task[r] EXCEPT !.pc = l, !.polls = 0])
           /\ Knows(task[r])'
<1>1. task \in [Requests -> Task] /\ task[r] \in Task /\ 0 \in 0..(MaxPolls - 1)
  BY DefinitionAssumption DEF IInv, TypeOK
<1>2. task'[r] = [task[r] EXCEPT !.pc = l, !.polls = 0]
  BY <1>1 DEF Goto, Become
<1>3. [task[r] EXCEPT !.pc = l, !.polls = 0] \in Task
  BY <1>1 DEF Task, Ended
<1>4. task'[r].pc = l
  BY <1>1, <1>2 DEF Task
<1>5. Knows(task[r])'
  BY <1>4 DEF Knows, Publishing, Checking, Awaiting
<1> QED BY <1>3, <1>5 DEF Goto

\* The steps that change nothing but a handler and the faults.
Local(r) ==
    \/ Receive(r) \/ Crash(r) \/ GetOwnDid(r) \/ GetExistingSchema(r)
    \/ GetCreatedSchemas(r) \/ AssertPublicDid(r) \/ LookupIssuer(r) \/ LookupSchema(r)
    \/ CheckConnection(r) \/ AwaitAck(r) \/ AwaitRegistries(r) \/ FetchCredDef(r)

\* They leave the data alone.
LEMMA LocalFrame ==
    ASSUME NEW r \in Requests, Local(r)
    PROVE  UNCHANGED <<schemaVars, registryVars, credDefVars, changes>>
BY DEF Local, Receive, Crash, GetOwnDid, GetExistingSchema, GetCreatedSchemas,
    AssertPublicDid, LookupIssuer, LookupSchema, CheckConnection, AwaitAck,
    AwaitRegistries, FetchCredDef

\* Faults are only ever added, of the kinds that may happen.
LEMMA FaultsGrow ==
    ASSUME IInv, Next
    PROVE  faults \subseteq faults' /\ faults' \subseteq Faults
<1> DEFINE Faulty == NoFault \/ \E f \in FaultKinds : Fault(f)
<1>1. ASSUME NEW r \in Requests, Local(r) PROVE Faulty
  <2>1. CASE Receive(r) \/ Crash(r) \/ AssertPublicDid(r) \/ LookupIssuer(r) \/ LookupSchema(r)
    BY <2>1 DEF Receive, Crash, AssertPublicDid, LookupIssuer, LookupSchema, NoFault, FaultKinds
  <2>2. CASE GetOwnDid(r) \/ GetExistingSchema(r) \/ GetCreatedSchemas(r)
    BY <2>2 DEF GetOwnDid, GetExistingSchema, GetCreatedSchemas, NoFault, FaultKinds
  <2>3. CASE CheckConnection(r) \/ AwaitAck(r) \/ AwaitRegistries(r) \/ FetchCredDef(r)
    BY <2>3 DEF CheckConnection, AwaitAck, AwaitRegistries, FetchCredDef, NoFault, FaultKinds
  <2> QED BY <1>1, <2>1, <2>2, <2>3 DEF Local
<1>2. ASSUME NEW r \in Requests, PublishSchema(r) \/ RegisterSchema(r) \/ PublishCredDef(r)
      PROVE  Faulty
  <2>1. CASE PublishSchema(r)
    BY <2>1 DEF PublishSchema, FaultKinds
  <2>2. CASE RegisterSchema(r)
    BY <2>2 DEF RegisterSchema, CreateRow, FaultKinds
  <2>3. CASE PublishCredDef(r)
    BY <2>3 DEF PublishCredDef, FaultKinds
  <2> QED BY <1>2, <2>1, <2>2, <2>3
<1>3. ASSUME \/ \E i \in SchemaIds : Endorse(i) \/ ActivateRegistry(i)
             \/ ChangePublicDid \/ ChangeRegistry
      PROVE  Faulty
  BY <1>3 DEF Endorse, ActivateRegistry, ChangePublicDid, ChangeRegistry, NoFault
<1>4. Faulty
  BY <1>1, <1>2, <1>3 DEF Next, Handle, Local
<1>5. faults \subseteq Faults
  BY DEF IInv, TypeOK
<1> QED BY <1>4, <1>5 DEF Fault, NoFault

\* PublishSchema may put the schema on the ledger only where it finds none, or
\* the same.
LEMMA PublishSchemaData ==
    ASSUME IInv, DataOK, NEW r \in Requests, PublishSchema(r), faults' \subseteq Faults,
           faults \subseteq faults'
    PROVE  DataOK' /\ Grows /\ LedgerInv'
<1> DEFINE id == [did |-> publicDid, name |-> task[r].name]
<1>1. task[r].attrs \in AttrSets /\ id \in SchemaIds
  BY DEF IInv, TypeOK, KnowsInv, Knows, PublishSchema, At, Publishing, SchemaIds
<1>2. UNCHANGED <<publicDid, registryVars, credDefVars, changes>>
  BY DEF PublishSchema
<1>3. \/ UNCHANGED <<schemas, created>>
      \/ /\ schemas[id] \in {NoAttrs, task[r].attrs}
         /\ schemas' = [schemas EXCEPT ![id] = task[r].attrs]
         /\ created' \in {created, created \cup {id}}
  BY DEF PublishSchema
<1> HIDE DEF id
<1>4. DataOK'
  BY <1>1, <1>2, <1>3 DEF DataOK, registryVars, credDefVars
<1>5. \A i \in SchemaIds : schemas[i] # NoAttrs => schemas'[i] = schemas[i]
  BY <1>1, <1>3 DEF DataOK
<1>6. Grows
  BY <1>2, <1>5 DEF Grows, registryVars, credDefVars
<1>7. LedgerInv'
  <2>1. task[r].attrs # NoAttrs
    BY <1>1, DefinitionAssumption
  <2>2. \A i \in rows' \cup created' : i \in rows \cup created \/ i = id
    BY <1>2, <1>3 DEF registryVars
  <2>3. rows \cup created \subseteq SchemaIds
    BY DEF DataOK
  <2>4. ASSUME created' # created PROVE schemas'[id] # NoAttrs
    BY <1>1, <1>3, <2>1, <2>4 DEF DataOK
  <2> QED BY <1>2, <1>3, <1>5, <2>2, <2>3, <2>4 DEF LedgerInv, IInv, registryVars
<1> QED BY <1>4, <1>6, <1>7

\* No step leaves the types, takes back what was done, or registers a schema
\* that is not on the ledger.
LEMMA DataStep ==
    ASSUME IInv, Next
    PROVE  DataOK' /\ Grows /\ LedgerInv'
<1>1. DataOK /\ LedgerInv
  BY DEF IInv, TypeOK, DataOK
<1>2. faults \subseteq faults' /\ faults' \subseteq Faults
  BY FaultsGrow
<1>3. ASSUME NEW r \in Requests, Local(r) PROVE DataOK' /\ Grows /\ LedgerInv'
  <2>1. UNCHANGED <<schemaVars, registryVars, credDefVars, changes>>
    BY <1>3, LocalFrame
  <2> QED BY <1>1, <1>2, <2>1 DEF DataOK, Grows, LedgerInv, schemaVars, registryVars, credDefVars
<1>4. ASSUME NEW r \in Requests, PublishSchema(r) PROVE DataOK' /\ Grows /\ LedgerInv'
  BY <1>1, <1>2, <1>4, PublishSchemaData
<1>5. ASSUME NEW r \in Requests, RegisterSchema(r) PROVE DataOK' /\ Grows /\ LedgerInv'
  <2>1. task[r].id \in SchemaIds /\ schemas[task[r].id] # NoAttrs
    BY <1>5, DefinitionAssumption DEF IInv, KnowsInv, Knows, RegisterSchema, CreateRow, At
  <2>2. /\ UNCHANGED <<schemaVars, removed, issuer, credDefVars, changes>>
        /\ rows' \in {rows, rows \cup {task[r].id}}
    BY <1>5 DEF RegisterSchema, CreateRow
  <2> QED BY <1>1, <1>2, <2>1, <2>2 DEF DataOK, Grows, LedgerInv, schemaVars, credDefVars
<1>6. ASSUME NEW r \in Requests, PublishCredDef(r) PROVE DataOK' /\ Grows /\ LedgerInv'
  <2>1. task[r].id \in SchemaIds
    BY <1>6 DEF IInv, KnowsInv, Knows, PublishCredDef, At, Checking
  <2>2. /\ UNCHANGED <<schemaVars, registryVars, registries, changes>>
        /\ revocable' \in {revocable, revocable \cup {task[r].id}}
        /\ \/ credDefs' = credDefs
           \/ /\ credDefs[task[r].id] = "none"
              /\ \E s \in {"requested", "written"} :
                    credDefs' = [credDefs EXCEPT ![task[r].id] = s]
    BY <1>6 DEF PublishCredDef
  <2>3. /\ credDefs' \in [SchemaIds -> {"none", "requested", "written"}]
        /\ \A i \in SchemaIds : credDefs[i] = "written" => credDefs'[i] = "written"
    BY <1>1, <2>1, <2>2 DEF DataOK
  <2> QED BY <1>1, <1>2, <2>1, <2>2, <2>3 DEF DataOK, Grows, LedgerInv, schemaVars, registryVars
<1>7. ASSUME NEW i \in SchemaIds, Endorse(i) \/ ActivateRegistry(i)
      PROVE  DataOK' /\ Grows /\ LedgerInv'
  <2>1. CASE Endorse(i)
    BY <1>1, <1>2, <2>1 DEF Endorse, DataOK, Grows, LedgerInv, schemaVars, registryVars
  <2>2. CASE ActivateRegistry(i)
    <3>1. registries[i] \in 0..2 /\ registries[i] < 2 /\ registries' = [registries EXCEPT ![i] = @ + 1]
      BY <1>1, <2>2 DEF ActivateRegistry, DataOK
    <3>2. /\ registries' \in [SchemaIds -> 0..2]
          /\ \A j \in SchemaIds : registries[j] = 2 => registries'[j] = 2
      BY <1>1, <3>1 DEF DataOK
    <3> QED BY <1>1, <1>2, <2>2, <3>2 DEF ActivateRegistry, DataOK, Grows, LedgerInv,
              schemaVars, registryVars
  <2> QED BY <1>7, <2>1, <2>2
<1>8. ASSUME ChangePublicDid \/ ChangeRegistry PROVE DataOK' /\ Grows /\ LedgerInv'
  <2>1. CASE ChangePublicDid
    BY <1>1, <1>2, <2>1 DEF ChangePublicDid, DataOK, Grows, LedgerInv, registryVars, credDefVars
  <2>2. CASE ChangeRegistry
    <3>1. changes' \in Nat /\ UNCHANGED <<schemaVars, credDefVars>>
      BY <1>1, <2>2 DEF ChangeRegistry, DataOK
    <3>2. issuer' \in BOOLEAN
      BY <1>1, <2>2, Zenon DEF ChangeRegistry, DataOK
    <3>3. /\ rows' \subseteq rows /\ removed' \subseteq rows \cup removed
          /\ rows \cup removed \subseteq rows' \cup removed'
      <4>1. \/ \E i \in rows : rows' = rows \ {i} /\ removed' = removed \cup {i}
            \/ UNCHANGED <<rows, removed>>
        BY <2>2 DEF ChangeRegistry
      <4> QED BY <4>1
    <3> QED BY <1>1, <1>2, <3>1, <3>2, <3>3 DEF DataOK, Grows, LedgerInv, schemaVars, credDefVars
  <2> QED BY <1>8, <2>1, <2>2
<1> QED BY <1>3, <1>4, <1>5, <1>6, <1>7, <1>8 DEF Next, Handle, Local

\* A handler that goes to another label knows what it must know there.
LEMMA WentTo ==
    ASSUME IInv, NEW r \in Requests, NEW l, Goto(r, l), l \in Working \cup {"done"},
           LET t == task[r] IN
            /\ l \in Publishing => t.op = "schema" /\ t.name \in Names /\ t.attrs \in AttrSets
            /\ l \in Checking \cup Awaiting \cup {"done"} =>
                    t.op = "cred_def" /\ t.id \in SchemaIds
            /\ l \notin {"register", "existing_schema"}
            /\ l \in {"connection", "publish_cred_def"} =>
                    "connect_timeout" \in faults' \/ t.id \in rows' \cup removed'
            /\ l \in {"registries", "fetch", "done"} => credDefs'[t.id] = "written"
            /\ l \in {"fetch", "done"} /\ t.revocation => registries'[t.id] = 2
    PROVE  /\ [task[r] EXCEPT !.pc = l, !.polls = 0] \in Task
           /\ Become(r, [task[r] EXCEPT !.pc = l, !.polls = 0])
           /\ Knows(task[r])'
<1>1. task \in [Requests -> Task] /\ task[r] \in Task /\ 0 \in 0..(MaxPolls - 1)
  BY DefinitionAssumption DEF IInv, TypeOK
<1> DEFINE t == [task[r] EXCEPT !.pc = l, !.polls = 0]
<1>2. task'[r] = t
  BY <1>1 DEF Goto, Become
<1>3. t \in Task
  BY <1>1 DEF Task, Working, Ended
<1>4. /\ t.pc = l /\ t.op = task[r].op /\ t.id = task[r].id /\ t.name = task[r].name
      /\ t.attrs = task[r].attrs /\ t.revocation = task[r].revocation
  BY <1>1 DEF Task
<1> HIDE DEF t
<1>5. Knows(task[r])'
  BY <1>2, <1>4 DEF Knows, Publishing, Checking, Awaiting, Working
<1> QED BY <1>3, <1>5 DEF Goto, t

\* A handler that polls once more knows what it knew.
LEMMA Retried ==
    ASSUME IInv, Grows, NEW r \in Requests, Retry(r), task[r].pc \in Awaiting
    PROVE  \E t \in Task : Become(r, t) /\ Knows(task[r])'
<1>1. CASE task[r].polls + 1 < MaxPolls
  <2> DEFINE t == [task[r] EXCEPT !.polls = @ + 1]
  <2>1. task \in [Requests -> Task] /\ task[r] \in Task /\ Knows(task[r])
    BY DEF IInv, TypeOK, KnowsInv
  <2>2. task[r].polls + 1 \in 0..(MaxPolls - 1)
    BY <1>1, <2>1, DefinitionAssumption DEF Task
  <2>3. t \in Task /\ Become(r, t)
    BY <1>1, <2>1, <2>2 DEF Task, Retry
  <2>4. /\ t.pc = task[r].pc /\ t.op = task[r].op /\ t.id = task[r].id
        /\ t.revocation = task[r].revocation
    BY <2>1 DEF Task
  <2>5. task'[r] = t
    BY <2>1, <2>3 DEF Become
  <2> HIDE DEF t
  <2>6. Knows(task[r])'
    BY <2>1, <2>4, <2>5 DEF Knows, Grows, Publishing, Checking, Awaiting
  <2> QED BY <2>3, <2>6
<1>2. CASE ~ (task[r].polls + 1 < MaxPolls)
  <2>1. Goto(r, "failed")
    BY <1>2 DEF Retry, Fail
  <2> QED BY <2>1, Stopped
<1> QED BY <1>1, <1>2

\* The steps that create a schema.
LEMMA SchemaStep ==
    ASSUME IInv, DataOK', Grows, NEW r \in Requests,
           \/ PublishSchema(r) \/ RegisterSchema(r) \/ GetOwnDid(r)
           \/ GetExistingSchema(r) \/ GetCreatedSchemas(r)
    PROVE  \E t \in Task : Become(r, t) /\ Knows(task[r])'
<1>1. task \in [Requests -> Task] /\ task[r] \in Task /\ Knows(task[r])
  BY DEF IInv, TypeOK, KnowsInv
<1>2. task[r].pc \in Publishing
  BY DEF PublishSchema, RegisterSchema, CreateRow, GetOwnDid, GetExistingSchema, GetCreatedSchemas,
      At, Publishing
<1>3. /\ task[r].op = "schema" /\ task[r].name \in Names /\ task[r].attrs \in AttrSets
      /\ task[r].attrs # NoAttrs /\ publicDid \in Dids
  BY <1>1, <1>2, DefinitionAssumption DEF Knows, IInv, TypeOK
<1>4. CASE Fail(r)
  BY <1>4, Stopped DEF Fail
<1>5. ASSUME NEW i \in SchemaIds, NEW l \in {"register", "existing_schema", "done"},
             i.name = task[r].name, Become(r, [task[r] EXCEPT !.pc = l, !.id = i]),
             l = "existing_schema" \/ schemas'[i] = task[r].attrs
      PROVE  \E t \in Task : Become(r, t) /\ Knows(task[r])'
  <2> DEFINE t == [task[r] EXCEPT !.pc = l, !.id = i]
  <2>1. t \in Task
    BY <1>1 DEF Task, Working, Publishing, Ended
  <2>2. task'[r] = t
    BY <1>1, <1>5 DEF Become
  <2>3. /\ t.pc = l /\ t.id = i /\ t.op = "schema" /\ t.name = task[r].name
        /\ t.attrs = task[r].attrs
    BY <1>1, <1>3 DEF Task
  <2> HIDE DEF t
  <2>4. Knows(task[r])'
    BY <1>3, <1>5, <2>2, <2>3 DEF Knows, Publishing, Checking, Awaiting
  <2> QED BY <1>5, <2>1, <2>4 DEF t
<1>6. ASSUME NEW l \in {"existing_did", "created_schemas"}, Goto(r, l)
      PROVE  \E t \in Task : Become(r, t) /\ Knows(task[r])'
  <2>1. l \in Publishing /\ l \in Working /\ l \notin Checking \cup Awaiting
    BY DEF Publishing, Working, Checking, Awaiting
  <2> QED BY <1>3, <1>6, <2>1, WentTo
<1>7. ASSUME NEW i \in SchemaIds, i.name = task[r].name, Return(r, i), UNCHANGED schemas
      PROVE  \E t \in Task : Become(r, t) /\ Knows(task[r])'
  <2>1. CASE schemas[i] = task[r].attrs
    BY <1>5, <1>7, <2>1 DEF Return
  <2>2. CASE schemas[i] # task[r].attrs
    BY <1>4, <1>7, <2>2 DEF Return
  <2> QED BY <2>1, <2>2
<1> DEFINE own == [did |-> publicDid, name |-> task[r].name]
<1>8. own \in SchemaIds /\ own.name = task[r].name
  BY <1>3 DEF SchemaIds
<1>9. CASE PublishSchema(r)
  <2>1. \/ Fail(r)
        \/ Goto(r, "existing_did")
        \/ /\ schemas' = [schemas EXCEPT ![own] = task[r].attrs]
           /\ Become(r, [task[r] EXCEPT !.pc = "register", !.id = own])
    BY <1>9 DEF PublishSchema
  <2>2. ASSUME schemas' = [schemas EXCEPT ![own] = task[r].attrs]
        PROVE  schemas'[own] = task[r].attrs
    BY <1>8, <2>2 DEF IInv, TypeOK
  <2> HIDE DEF own
  <2> QED BY <1>4, <1>5, <1>6, <1>8, <2>1, <2>2
<1>10. CASE RegisterSchema(r)
  <2>1. Fail(r) \/ Goto(r, "done")
    BY <1>10 DEF RegisterSchema, CreateRow
  <2>2. CASE Goto(r, "done")
    <3> DEFINE t == [task[r] EXCEPT !.pc = "done", !.polls = 0]
    <3>1. t \in Task
      <4>1. 0 \in 0..(MaxPolls - 1)
        BY DefinitionAssumption
      <4> QED BY <1>1, <4>1 DEF Task, Ended
    <3>2. task'[r] = t
      BY <1>1, <2>2 DEF Goto, Become
    <3>3. /\ t.pc = "done" /\ t.id = task[r].id /\ t.op = "schema"
          /\ t.name = task[r].name /\ t.attrs = task[r].attrs
      BY <1>1, <1>3 DEF Task
    <3>4. UNCHANGED schemas
      BY <1>10 DEF RegisterSchema, CreateRow, schemaVars
    <3>5. /\ task[r].id \in SchemaIds /\ task[r].id.name = task[r].name
          /\ schemas[task[r].id] = task[r].attrs
      BY <1>1, <1>10 DEF RegisterSchema, CreateRow, At, Knows
    <3> HIDE DEF t
    <3>6. Knows(task[r])'
      BY <1>3, <3>2, <3>3, <3>4, <3>5 DEF Knows, Publishing, Checking, Awaiting
    <3> QED BY <2>2, <3>1, <3>6 DEF t, Goto
  <2> QED BY <1>4, <2>1, <2>2
<1>11. CASE GetOwnDid(r)
  <2>1. Fail(r) \/ Become(r, [task[r] EXCEPT !.pc = "existing_schema", !.id = own])
    BY <1>11 DEF GetOwnDid
  <2> HIDE DEF own
  <2> QED BY <1>4, <1>5, <1>8, <2>1
<1>12. CASE GetExistingSchema(r)
  <2>1. task[r].id \in SchemaIds /\ task[r].id.name = task[r].name
    BY <1>1, <1>12 DEF GetExistingSchema, At, Knows
  <2>2. UNCHANGED schemas /\ (Fail(r) \/ Goto(r, "created_schemas") \/ Return(r, task[r].id))
    BY <1>12 DEF GetExistingSchema, schemaVars
  <2> QED BY <1>4, <1>6, <1>7, <2>1, <2>2
<1>13. CASE GetCreatedSchemas(r)
  <2>1. UNCHANGED schemas /\ (Fail(r) \/ \E i \in CreatedAs(task[r].name) : Return(r, i))
    BY <1>13 DEF GetCreatedSchemas, schemaVars
  <2>2. \A i \in CreatedAs(task[r].name) : i \in SchemaIds /\ i.name = task[r].name
    BY DEF CreatedAs, IInv, TypeOK
  <2> QED BY <1>4, <1>7, <2>1, <2>2
<1> QED BY <1>9, <1>10, <1>11, <1>12, <1>13

\* The steps that create a credential definition.
LEMMA CredDefStep ==
    ASSUME IInv, DataOK', Grows, NEW r \in Requests,
           \/ AssertPublicDid(r) \/ LookupIssuer(r) \/ LookupSchema(r)
           \/ CheckConnection(r) \/ PublishCredDef(r) \/ AwaitAck(r)
           \/ AwaitRegistries(r) \/ FetchCredDef(r)
    PROVE  \E t \in Task : Become(r, t) /\ Knows(task[r])'
<1> USE DEF Publishing, Checking, Awaiting, Working
<1>1. task[r] \in Task /\ Knows(task[r])
  BY DEF IInv, TypeOK, KnowsInv
<1>2. task[r].pc \in Checking \cup Awaiting
  BY DEF AssertPublicDid, LookupIssuer, LookupSchema, CheckConnection, PublishCredDef,
      AwaitAck, AwaitRegistries, FetchCredDef, At
<1>3. task[r].op = "cred_def" /\ task[r].id \in SchemaIds
  BY <1>1, <1>2 DEF Knows
<1>4. CASE Fail(r)
  BY <1>4, Stopped DEF Fail
<1>5. ASSUME NEW l \in {"lookup_issuer", "lookup_schema", "ack"}, Goto(r, l)
      PROVE  \E t \in Task : Become(r, t) /\ Knows(task[r])'
  BY <1>3, <1>5, WentTo
<1>6. ASSUME NEW l \in {"connection", "publish_cred_def"}, Goto(r, l),
             "connect_timeout" \in faults' \/ task[r].id \in rows' \cup removed'
      PROVE  \E t \in Task : Become(r, t) /\ Knows(task[r])'
  BY <1>3, <1>6, WentTo
<1>7. ASSUME Goto(r, AfterWrite(r)), credDefs'[task[r].id] = "written"
      PROVE  \E t \in Task : Become(r, t) /\ Knows(task[r])'
  <2>1. CASE task[r].revocation
    <3>1. Goto(r, "registries")
      BY <1>7, <2>1 DEF AfterWrite
    <3> QED BY <1>3, <1>7, <3>1, WentTo
  <2>2. CASE ~ task[r].revocation
    <3>1. Goto(r, "fetch")
      BY <1>7, <2>2 DEF AfterWrite
    <3> QED BY <1>3, <1>7, <2>2, <3>1, WentTo
  <2> QED BY <2>1, <2>2
<1>8. ASSUME NEW l \in {"fetch", "done"}, Goto(r, l), credDefs'[task[r].id] = "written",
             task[r].revocation => registries'[task[r].id] = 2
      PROVE  \E t \in Task : Become(r, t) /\ Knows(task[r])'
  BY <1>3, <1>8, WentTo
<1>9. CASE AssertPublicDid(r)
  BY <1>4, <1>5, <1>9 DEF AssertPublicDid
<1>10. CASE LookupIssuer(r)
  BY <1>4, <1>5, <1>10 DEF LookupIssuer
<1>11. CASE LookupSchema(r)
  <2>1. \/ Fail(r)
        \/ /\ Goto(r, AfterChecks(r))
           /\ "connect_timeout" \in faults' \/ task[r].id \in rows' \cup removed'
    BY <1>11 DEF LookupSchema, Fault, registryVars
  <2>2. AfterChecks(r) \in {"connection", "publish_cred_def"}
    BY DEF AfterChecks
  <2> QED BY <1>4, <1>6, <2>1, <2>2
<1>12. CASE CheckConnection(r)
  <2>1. Fail(r) \/ Goto(r, "publish_cred_def")
    BY <1>12 DEF CheckConnection
  <2>2. "connect_timeout" \in faults' \/ task[r].id \in rows' \cup removed'
    BY <1>1, <1>12 DEF CheckConnection, At, Knows, Grows
  <2> QED BY <1>4, <1>6, <2>1, <2>2
<1>13. CASE PublishCredDef(r)
  <2>1. \/ Fail(r) \/ Goto(r, "ack")
        \/ /\ Goto(r, AfterWrite(r))
           /\ credDefs' = [credDefs EXCEPT ![task[r].id] = "written"]
    BY <1>13 DEF PublishCredDef
  <2>2. ASSUME credDefs' = [credDefs EXCEPT ![task[r].id] = "written"]
        PROVE  credDefs'[task[r].id] = "written"
    BY <1>3, <2>2 DEF IInv, TypeOK
  <2> QED BY <1>4, <1>5, <1>7, <2>1, <2>2
<1>14. CASE AwaitAck(r)
  <2>1. \/ Retry(r)
        \/ credDefs[task[r].id] = "written" /\ Goto(r, AfterWrite(r))
    BY <1>14 DEF AwaitAck
  <2>2. credDefs[task[r].id] = "written" => credDefs'[task[r].id] = "written"
    BY <1>3 DEF Grows
  <2>3. task[r].pc \in Awaiting
    BY <1>14 DEF AwaitAck, At
  <2> QED BY <1>7, <2>1, <2>2, <2>3, Retried
<1>15. CASE AwaitRegistries(r)
  <2>1. Fail(r) \/ (registries[task[r].id] = 2 /\ Goto(r, "fetch"))
    BY <1>15 DEF AwaitRegistries
  <2>2. credDefs[task[r].id] = "written"
    BY <1>1, <1>15 DEF AwaitRegistries, At, Knows
  <2>3. /\ credDefs'[task[r].id] = "written"
        /\ registries[task[r].id] = 2 => registries'[task[r].id] = 2
    BY <1>3, <2>2 DEF Grows
  <2> QED BY <1>4, <1>8, <2>1, <2>3
<1>16. CASE FetchCredDef(r)
  <2>1. Goto(r, "done") \/ Retry(r)
    BY <1>16 DEF FetchCredDef
  <2>2. /\ task[r].pc \in Awaiting /\ credDefs[task[r].id] = "written"
        /\ task[r].revocation => registries[task[r].id] = 2
    BY <1>1, <1>16 DEF FetchCredDef, At, Knows
  <2>3. /\ credDefs'[task[r].id] = "written"
        /\ task[r].revocation => registries'[task[r].id] = 2
    BY <1>3, <2>2 DEF Grows
  <2> QED BY <1>8, <2>1, <2>2, <2>3, Retried
<1> QED BY <1>9, <1>10, <1>11, <1>12, <1>13, <1>14, <1>15, <1>16

\* Every step keeps the handlers' knowledge true.
LEMMA KnowledgeStep ==
    ASSUME IInv, Next
    PROVE  TypeOK' /\ KnowsInv'
<1>1. DataOK' /\ Grows
  BY DataStep
<1>2. ASSUME NEW r \in Requests, Handle(r) PROVE TypeOK' /\ KnowsInv'
  <2>1. \E t \in Task : Become(r, t) /\ Knows(task[r])'
    BY <1>1, <1>2, SchemaStep, CredDefStep DEF Handle
  <2> QED BY <1>1, <2>1, Moved
<1>3. ASSUME NEW r \in Requests, Crash(r) PROVE TypeOK' /\ KnowsInv'
  <2>1. Goto(r, "crashed")
    BY <1>3 DEF Crash
  <2> QED BY <1>1, <2>1, Stopped, Moved
<1>4. ASSUME NEW r \in Requests, Receive(r) PROVE TypeOK' /\ KnowsInv'
  <2>1. task \in [Requests -> Task] /\ 0 \in 0..(MaxPolls - 1)
    BY DefinitionAssumption DEF IInv, TypeOK
  <2>2. CASE \E n \in Names, a \in AttrSets :
                Become(r, Handler("publish_schema", "schema", n, a, NoId, FALSE))
    <3>1. PICK n \in Names, a \in AttrSets :
                Become(r, Handler("publish_schema", "schema", n, a, NoId, FALSE))
      BY <2>2
    <3> DEFINE t == Handler("publish_schema", "schema", n, a, NoId, FALSE)
    <3>2. t \in Task
      BY <2>1 DEF Handler, Task, Working, Publishing
    <3>3. task'[r] = t
      BY <2>1, <3>1 DEF Become
    <3>4. Knows(task[r])'
      BY <3>3 DEF Knows, Handler, Publishing, Checking, Awaiting
    <3> QED BY <1>1, <3>1, <3>2, <3>4, Moved
  <2>3. CASE \E i \in SchemaIds, rev \in BOOLEAN :
                Become(r, Handler("public_did", "cred_def", NoName, NoAttrs, i, rev))
    <3>1. PICK i \in SchemaIds, rev \in BOOLEAN :
                Become(r, Handler("public_did", "cred_def", NoName, NoAttrs, i, rev))
      BY <2>3
    <3> DEFINE t == Handler("public_did", "cred_def", NoName, NoAttrs, i, rev)
    <3>2. t \in Task
      BY <2>1 DEF Handler, Task, Working, Checking
    <3>3. task'[r] = t
      BY <2>1, <3>1 DEF Become
    <3>4. Knows(task[r])'
      BY <3>3 DEF Knows, Handler, Publishing, Checking, Awaiting
    <3> QED BY <1>1, <3>1, <3>2, <3>4, Moved
  <2> QED BY <1>4, <2>2, <2>3 DEF Receive
<1>5. ASSUME UNCHANGED task PROVE TypeOK' /\ KnowsInv'
  BY <1>1, <1>5, Unmoved
<1>6. ASSUME \/ \E i \in SchemaIds : Endorse(i) \/ ActivateRegistry(i)
             \/ ChangePublicDid \/ ChangeRegistry
      PROVE  UNCHANGED task
  BY <1>6 DEF Endorse, ActivateRegistry, ChangePublicDid, ChangeRegistry
<1> QED BY <1>2, <1>3, <1>4, <1>5, <1>6 DEF Next

\* Only PublishCredDef submits a definition, after a look at the registry.
LEMMA CredDefsOfRegisteredStep ==
    ASSUME IInv, Next
    PROVE  CredDefsOfRegisteredSchemas'
<1>1. Grows /\ TypeOK
  BY DataStep DEF IInv
<1>2. SUFFICES ASSUME "connect_timeout" \notin faults', NEW i \in SchemaIds,
                      credDefs'[i] # "none"
               PROVE  i \in rows' \cup removed'
  BY DEF CredDefsOfRegisteredSchemas
<1>3. "connect_timeout" \notin faults
  BY <1>1, <1>2 DEF Grows
<1>4. CASE credDefs[i] # "none"
  BY <1>1, <1>3, <1>4 DEF IInv, CredDefsOfRegisteredSchemas, Grows
<1>5. CASE credDefs[i] = "none"
  <2>1. \E r \in Requests : PublishCredDef(r) /\ task[r].id = i
    <3>1. ASSUME NEW r \in Requests, Local(r) PROVE FALSE
      BY <1>2, <1>5, <3>1, LocalFrame DEF credDefVars
    <3>2. ASSUME NEW r \in Requests, PublishSchema(r) \/ RegisterSchema(r) PROVE FALSE
      BY <1>2, <1>5, <3>2 DEF PublishSchema, RegisterSchema, CreateRow, credDefVars
    <3>3. ASSUME \/ \E j \in SchemaIds : Endorse(j) \/ ActivateRegistry(j)
                 \/ ChangePublicDid \/ ChangeRegistry
          PROVE  FALSE
      BY <1>1, <1>2, <1>5, <3>3 DEF Endorse, ActivateRegistry, ChangePublicDid,
          ChangeRegistry, credDefVars, TypeOK
    <3>4. PICK r \in Requests : PublishCredDef(r)
      BY <3>1, <3>2, <3>3 DEF Next, Handle, Local
    <3>5. task[r].id = i
      BY <1>1, <1>2, <1>5, <3>4 DEF PublishCredDef, TypeOK
    <3> QED BY <3>4, <3>5
  <2> QED BY <1>1, <1>3, <2>1 DEF IInv, KnowsInv, Knows, PublishCredDef, At, Grows
<1> QED BY <1>4, <1>5

-----------------------------------------------------------------------------
(* Each handler moves alone, and onwards.                                  *)

\* The order in which a handler takes its steps, of either operation.
Stage == [l \in {"idle"} \cup Working \cup Ended |->
    CASE l = "idle" -> 0
      [] l \in {"publish_schema", "public_did"} -> 1
      [] l \in {"register", "existing_did", "lookup_issuer"} -> 2
      [] l \in {"existing_schema", "lookup_schema"} -> 3
      [] l \in {"created_schemas", "connection"} -> 4
      [] l = "publish_cred_def" -> 5 [] l = "ack" -> 6 [] l = "registries" -> 7
      [] l = "fetch" -> 8 [] OTHER -> 9]

\* A handler goes on, or it polls once more.
Nearer(t, u) ==
    \/ Stage[t.pc] < Stage[u.pc]
    \/ u.pc = t.pc /\ t.polls < u.polls

LEMMA Stages ==
    /\ Stage["idle"] = 0 /\ Stage["publish_schema"] = 1 /\ Stage["public_did"] = 1
    /\ Stage["register"] = 2 /\ Stage["existing_did"] = 2 /\ Stage["lookup_issuer"] = 2
    /\ Stage["existing_schema"] = 3 /\ Stage["lookup_schema"] = 3
    /\ Stage["created_schemas"] = 4 /\ Stage["connection"] = 4
    /\ Stage["publish_cred_def"] = 5 /\ Stage["ack"] = 6 /\ Stage["registries"] = 7
    /\ Stage["fetch"] = 8 /\ \A l \in Ended : Stage[l] = 9
BY DEF Stage, Working, Publishing, Checking, Awaiting, Ended

\* Only one handler moves, and what a handler becomes is what it shows.
Alone(r) == \A q \in Requests \ {r} : task'[q] = task[q]

LEMMA Becoming ==
    ASSUME TypeOK, NEW r \in Requests, NEW t, Become(r, t)
    PROVE  Alone(r) /\ task'[r] = t
BY DEF TypeOK, Become, Alone

\* A handler that goes to another label, and takes nothing else along.
LEMMA Went ==
    ASSUME TypeOK, NEW r \in Requests, NEW l, Goto(r, l)
    PROVE  /\ Alone(r) /\ task'[r].pc = l /\ task'[r].op = task[r].op
           /\ task'[r].id = task[r].id
<1>1. task[r] \in Task
  BY DEF TypeOK
<1>2. task'[r] = [task[r] EXCEPT !.pc = l, !.polls = 0] /\ Alone(r)
  BY Becoming DEF Goto
<1> QED BY <1>1, <1>2 DEF Task

\* A handler that has found the id of a schema.
LEMMA Found ==
    ASSUME TypeOK, NEW r \in Requests, NEW l, NEW i,
           Become(r, [task[r] EXCEPT !.pc = l, !.id = i])
    PROVE  Alone(r) /\ task'[r].pc = l /\ task'[r].op = task[r].op
<1>1. task[r] \in Task
  BY DEF TypeOK
<1>2. task'[r] = [task[r] EXCEPT !.pc = l, !.id = i] /\ Alone(r)
  BY Becoming
<1> QED BY <1>1, <1>2 DEF Task

\* A handler that polls once more, or gives up.
LEMMA Tried ==
    ASSUME TypeOK, NEW r \in Requests, Retry(r)
    PROVE  /\ Alone(r) /\ task'[r].op = task[r].op /\ task'[r].id = task[r].id
           /\ \/ task'[r].pc = "failed"
              \/ task'[r].pc = task[r].pc /\ task[r].polls < task'[r].polls
<1>1. task[r] \in Task /\ task[r].polls \in Nat
  BY DefinitionAssumption DEF TypeOK, Task
<1>2. CASE Become(r, [task[r] EXCEPT !.polls = @ + 1])
  <2>1. task'[r] = [task[r] EXCEPT !.polls = @ + 1] /\ Alone(r)
    BY <1>2, Becoming
  <2>2. /\ task'[r].pc = task[r].pc /\ task'[r].op = task[r].op
        /\ task'[r].id = task[r].id /\ task'[r].polls = task[r].polls + 1
    BY <1>1, <2>1 DEF Task
  <2> QED BY <1>1, <2>1, <2>2
<1>3. CASE Goto(r, "failed")
  BY <1>3, Went
<1> QED BY <1>2, <1>3 DEF Retry, Fail

LEMMA ReceiveNearer ==
    ASSUME TypeOK, NEW r \in Requests, Receive(r)
    PROVE  Alone(r) /\ Nearer(task[r], task'[r]) /\ task'[r].pc \notin Awaiting \cup Ended
<1> DEFINE Begun == task'[r].pc \in {"publish_schema", "public_did"} /\ Alone(r)
<1>1. ASSUME \E n \in Names, a \in AttrSets :
                Become(r, Handler("publish_schema", "schema", n, a, NoId, FALSE))
      PROVE  Begun
  <2>1. PICK n \in Names, a \in AttrSets :
            Become(r, Handler("publish_schema", "schema", n, a, NoId, FALSE))
    BY <1>1
  <2>2. Alone(r) /\ task'[r] = Handler("publish_schema", "schema", n, a, NoId, FALSE)
    BY <2>1, Becoming
  <2> QED BY <2>2 DEF Handler
<1>2. ASSUME \E i \in SchemaIds, rev \in BOOLEAN :
                Become(r, Handler("public_did", "cred_def", NoName, NoAttrs, i, rev))
      PROVE  Begun
  <2>1. PICK i \in SchemaIds, rev \in BOOLEAN :
            Become(r, Handler("public_did", "cred_def", NoName, NoAttrs, i, rev))
    BY <1>2
  <2>2. /\ Alone(r)
        /\ task'[r] = Handler("public_did", "cred_def", NoName, NoAttrs, i, rev)
    BY <2>1, Becoming
  <2> QED BY <2>2 DEF Handler
<1>3. Begun
  BY <1>1, <1>2 DEF Receive
<1> QED BY <1>3, Stages DEF Receive, At, Nearer, Awaiting, Ended

\* The steps that create a schema.
LEMMA SchemaNearer ==
    ASSUME TypeOK, NEW r \in Requests,
           \/ PublishSchema(r) \/ RegisterSchema(r) \/ GetOwnDid(r)
           \/ GetExistingSchema(r) \/ GetCreatedSchemas(r)
    PROVE  /\ Alone(r) /\ Nearer(task[r], task'[r]) /\ task'[r].op = task[r].op
           /\ task[r].pc \in Publishing
<1>1. ASSUME NEW l, \/ Goto(r, l)
                    \/ \E i : Become(r, [task[r] EXCEPT !.pc = l, !.id = i])
      PROVE  Alone(r) /\ task'[r].pc = l /\ task'[r].op = task[r].op
  BY <1>1, Went, Found
<1>2. ASSUME NEW i, Return(r, i)
      PROVE  /\ Alone(r) /\ task'[r].pc \in {"done", "failed"}
             /\ task'[r].op = task[r].op
  BY <1>1, <1>2 DEF Return, Fail
<1>3. CASE PublishSchema(r)
  <2>1. \/ Become(r, [task[r] EXCEPT !.pc = "register",
                          !.id = [did |-> publicDid, name |-> task[r].name]])
        \/ Fail(r) \/ Goto(r, "existing_did")
    BY <1>3 DEF PublishSchema
  <2>2. Alone(r) /\ task'[r].op = task[r].op /\ task'[r].pc \in {"register", "existing_did", "failed"}
    BY <1>1, <2>1 DEF Fail
  <2> QED BY <1>3, <2>2, Stages DEF PublishSchema, At, Publishing, Nearer, Ended
<1>4. CASE RegisterSchema(r)
  <2>1. Goto(r, "done") \/ Fail(r)
    BY <1>4 DEF RegisterSchema
  <2>2. Alone(r) /\ task'[r].op = task[r].op /\ task'[r].pc \in {"done", "failed"}
    BY <1>1, <2>1 DEF Fail
  <2> QED BY <1>4, <2>2, Stages DEF RegisterSchema, At, Publishing, Nearer, Ended
<1>5. CASE GetOwnDid(r)
  <2>1. \/ Become(r, [task[r] EXCEPT !.pc = "existing_schema",
                          !.id = [did |-> publicDid, name |-> task[r].name]])
        \/ Fail(r)
    BY <1>5 DEF GetOwnDid
  <2>2. Alone(r) /\ task'[r].op = task[r].op /\ task'[r].pc \in {"existing_schema", "failed"}
    BY <1>1, <2>1 DEF Fail
  <2> QED BY <1>5, <2>2, Stages DEF GetOwnDid, At, Publishing, Nearer, Ended
<1>6. CASE GetExistingSchema(r)
  <2>1. Goto(r, "created_schemas") \/ Return(r, task[r].id) \/ Fail(r)
    BY <1>6 DEF GetExistingSchema
  <2>2. /\ Alone(r) /\ task'[r].op = task[r].op
        /\ task'[r].pc \in {"created_schemas", "done", "failed"}
    BY <1>1, <1>2, <2>1 DEF Fail
  <2> QED BY <1>6, <2>2, Stages DEF GetExistingSchema, At, Publishing, Nearer, Ended
<1>7. CASE GetCreatedSchemas(r)
  <2>1. Fail(r) \/ \E i : Return(r, i)
    BY <1>7 DEF GetCreatedSchemas
  <2>2. /\ Alone(r) /\ task'[r].op = task[r].op /\ task'[r].pc \in {"done", "failed"}
    BY <1>1, <1>2, <2>1 DEF Fail
  <2> QED BY <1>7, <2>2, Stages DEF GetCreatedSchemas, At, Publishing, Nearer, Ended
<1> QED BY <1>3, <1>4, <1>5, <1>6, <1>7

\* The steps that create a credential definition: the checks, the publication and
\* the waits.
LEMMA CheckNearer ==
    ASSUME TypeOK, NEW r \in Requests,
           \/ AssertPublicDid(r) \/ LookupIssuer(r) \/ LookupSchema(r)
           \/ CheckConnection(r) \/ Crash(r)
    PROVE  /\ Alone(r) /\ Nearer(task[r], task'[r])
           /\ task'[r].pc \notin Awaiting \cup {"done"}
<1>1. ASSUME NEW l, Goto(r, l) PROVE Alone(r) /\ task'[r].pc = l
  BY <1>1, Went
<1>2. CASE AssertPublicDid(r)
  <2>1. task'[r].pc \in {"lookup_issuer", "failed"} /\ Alone(r)
    BY <1>1, <1>2 DEF AssertPublicDid, Fail
  <2> QED BY <1>2, <2>1, Stages DEF AssertPublicDid, At, Nearer, Awaiting, Ended
<1>3. CASE LookupIssuer(r)
  <2>1. task'[r].pc \in {"lookup_schema", "failed"} /\ Alone(r)
    BY <1>1, <1>3 DEF LookupIssuer, Fail
  <2> QED BY <1>3, <2>1, Stages DEF LookupIssuer, At, Nearer, Awaiting, Ended
<1>4. CASE LookupSchema(r)
  <2>1. task'[r].pc \in {"connection", "publish_cred_def", "failed"} /\ Alone(r)
    BY <1>1, <1>4 DEF LookupSchema, AfterChecks, Fail
  <2> QED BY <1>4, <2>1, Stages DEF LookupSchema, At, Nearer, Awaiting, Ended
<1>5. CASE CheckConnection(r)
  <2>1. task'[r].pc \in {"publish_cred_def", "failed"} /\ Alone(r)
    BY <1>1, <1>5 DEF CheckConnection, Fail
  <2> QED BY <1>5, <2>1, Stages DEF CheckConnection, At, Nearer, Awaiting, Ended
<1>6. CASE Crash(r)
  <2>1. task'[r].pc = "crashed" /\ Alone(r) /\ task[r].pc \in Working
    BY <1>1, <1>6 DEF Crash
  <2> QED BY <2>1, Stages DEF Working, Publishing, Checking, Awaiting, Nearer, Ended
<1> QED BY <1>2, <1>3, <1>4, <1>5, <1>6

LEMMA WaitNearer ==
    ASSUME TypeOK, NEW r \in Requests,
           PublishCredDef(r) \/ AwaitAck(r) \/ AwaitRegistries(r) \/ FetchCredDef(r)
    PROVE  /\ Alone(r) /\ Nearer(task[r], task'[r])
           /\ task'[r].op = task[r].op /\ task'[r].id = task[r].id
           /\ task[r].pc \in Awaiting \cup {"publish_cred_def"}
           /\ task[r].pc = "publish_cred_def" => PublishCredDef(r)
<1> DEFINE Kept == task'[r].op = task[r].op /\ task'[r].id = task[r].id
<1>1. ASSUME NEW l, Goto(r, l) PROVE Alone(r) /\ task'[r].pc = l /\ Kept
  BY <1>1, Went
<1>2. CASE PublishCredDef(r)
  <2>1. task'[r].pc \in {"ack", "registries", "fetch", "failed"} /\ Alone(r) /\ Kept
    BY <1>1, <1>2 DEF PublishCredDef, AfterWrite, Fail
  <2> QED BY <1>2, <2>1, Stages DEF PublishCredDef, At, Nearer, Ended
<1>3. CASE AwaitAck(r)
  <2>1. /\ Alone(r) /\ Kept
        /\ \/ task'[r].pc \in {"registries", "fetch", "failed"}
           \/ task'[r].pc = task[r].pc /\ task[r].polls < task'[r].polls
    BY <1>1, <1>3, Tried DEF AwaitAck, AfterWrite
  <2> QED BY <1>3, <2>1, Stages DEF AwaitAck, At, Nearer, Awaiting, Ended
<1>4. CASE AwaitRegistries(r)
  <2>1. task'[r].pc \in {"fetch", "failed"} /\ Alone(r) /\ Kept
    BY <1>1, <1>4 DEF AwaitRegistries, Fail
  <2> QED BY <1>4, <2>1, Stages DEF AwaitRegistries, At, Nearer, Awaiting, Ended
<1>5. CASE FetchCredDef(r)
  <2>1. /\ Alone(r) /\ Kept
        /\ \/ task'[r].pc \in {"done", "failed"}
           \/ task'[r].pc = task[r].pc /\ task[r].polls < task'[r].polls
    BY <1>1, <1>5, Tried DEF FetchCredDef
  <2> QED BY <1>5, <2>1, Stages DEF FetchCredDef, At, Nearer, Awaiting, Ended
<1> QED BY <1>2, <1>3, <1>4, <1>5

\* Each handler's step moves it alone, and nearer its end.
LEMMA HandlerNearer ==
    ASSUME TypeOK, NEW r \in Requests, Receive(r) \/ Crash(r) \/ Handle(r)
    PROVE  Alone(r) /\ Nearer(task[r], task'[r])
BY ReceiveNearer, SchemaNearer, CheckNearer, WaitNearer DEF Handle

-----------------------------------------------------------------------------
(* The invariant.                                                          *)

\* A schema that is on the ledger stays registered or about to be.
LEMMA RegistrationStep ==
    ASSUME IInv, Next
    PROVE  RegistrationInv'
<1>1. Grows /\ TypeOK
  BY DataStep DEF IInv
<1>2. SUFFICES ASSUME faults' \subseteq {"agent", "race"}, NEW i \in SchemaIds,
                      schemas'[i] # NoAttrs
               PROVE  i \in rows' \cup removed' \/ Pending(i)'
  BY DEF RegistrationInv
<1>3. faults \subseteq {"agent", "race"}
  BY <1>1, <1>2 DEF Grows
<1>4. ASSUME NEW r \in Requests, PublishSchema(r), ~ UNCHANGED schemas
      PROVE  schemas[i] # NoAttrs \/ Pending(i)'
  <2> DEFINE id == [did |-> publicDid, name |-> task[r].name]
  <2>1. /\ schemas' = [schemas EXCEPT ![id] = task[r].attrs]
        /\ Become(r, [task[r] EXCEPT !.pc = "register", !.id = id])
    BY <1>2, <1>4 DEF PublishSchema, Fault
  <2>2. CASE i = id
    <3>1. task[r] \in Task /\ task \in [Requests -> Task]
      BY <1>1 DEF TypeOK
    <3>2. task'[r].pc = "register" /\ task'[r].id = i
      BY <2>1, <2>2, <3>1 DEF Become, Task
    <3> QED BY <3>2 DEF Pending
  <2>3. CASE i # id
    <3> HIDE DEF id
    <3> QED BY <1>1, <1>2, <2>1, <2>3 DEF TypeOK
  <2> QED BY <2>2, <2>3
<1>5. CASE schemas[i] = NoAttrs
  <2>1. ~ UNCHANGED schemas
    BY <1>2, <1>5
  <2>2. ASSUME NEW r \in Requests, Local(r) PROVE FALSE
    BY <2>1, <2>2, LocalFrame DEF schemaVars
  <2>3. ASSUME NEW r \in Requests, RegisterSchema(r) \/ PublishCredDef(r) PROVE FALSE
    BY <2>1, <2>3 DEF RegisterSchema, CreateRow, PublishCredDef, schemaVars
  <2>4. ASSUME \/ \E j \in SchemaIds : Endorse(j) \/ ActivateRegistry(j)
               \/ ChangePublicDid \/ ChangeRegistry
        PROVE  FALSE
    BY <2>1, <2>4 DEF Endorse, ActivateRegistry, ChangePublicDid, ChangeRegistry, schemaVars
  <2>5. PICK r \in Requests : PublishSchema(r)
    BY <2>2, <2>3, <2>4 DEF Next, Handle, Local
  <2> QED BY <1>4, <1>5, <2>1, <2>5
<1>6. CASE schemas[i] # NoAttrs /\ i \in rows \cup removed
  BY <1>1, <1>6 DEF Grows
<1>7. CASE schemas[i] # NoAttrs /\ Pending(i)
  <2>1. PICK q \in Requests : task[q].pc = "register" /\ task[q].id = i
    BY <1>7 DEF Pending
  <2>2. CASE task'[q] = task[q]
    BY <2>1, <2>2 DEF Pending
  <2>3. CASE task'[q] # task[q]
    <3>1. RegisterSchema(q) \/ Crash(q)
      <4>1. Handle(q) \/ Receive(q) \/ Crash(q)
        <5>1. ASSUME \/ \E j \in SchemaIds : Endorse(j) \/ ActivateRegistry(j)
                     \/ ChangePublicDid \/ ChangeRegistry
              PROVE  UNCHANGED task
          BY <5>1 DEF Endorse, ActivateRegistry, ChangePublicDid, ChangeRegistry
        <5>2. PICK r \in Requests : Handle(r) \/ Receive(r) \/ Crash(r)
          BY <2>3, <5>1 DEF Next
        <5>3. r = q
          BY <2>3, <5>2, HandlerNearer DEF Alone, IInv
        <5> QED BY <5>2, <5>3
      <4> QED BY <2>1, <4>1 DEF Handle, At, Receive, PublishSchema, GetOwnDid,
              GetExistingSchema, GetCreatedSchemas, AssertPublicDid, LookupIssuer,
              LookupSchema, CheckConnection, PublishCredDef, AwaitAck,
              AwaitRegistries, FetchCredDef
    <3>2. CASE RegisterSchema(q)
      BY <1>2, <2>1, <3>2 DEF RegisterSchema, CreateRow, Fault
    <3>3. CASE Crash(q)
      BY <1>2, <3>3 DEF Crash, Fault
    <3> QED BY <3>1, <3>2, <3>3
  <2> QED BY <2>2, <2>3
<1> QED BY <1>3, <1>5, <1>6, <1>7 DEF IInv, RegistrationInv

\* The invariant is inductive.
LEMMA StepInv == IInv /\ [Next]_vars => IInv'
<1> SUFFICES ASSUME IInv, [Next]_vars PROVE IInv' OBVIOUS
<1>1. CASE Next
  BY <1>1, DataStep, KnowledgeStep, CredDefsOfRegisteredStep, RegistrationStep DEF IInv
<1>2. CASE UNCHANGED vars
  BY <1>2 DEF vars, schemaVars, registryVars, credDefVars, IInv, TypeOK, KnowsInv, Knows,
      LedgerInv, CredDefsOfRegisteredSchemas, RegistrationInv, Pending
<1> QED BY <1>1, <1>2

\* It holds in every reachable state.
LEMMA Invariance == Spec => []IInv
BY InitInv, StepInv, PTL DEF Spec

-----------------------------------------------------------------------------
\* Every variable keeps its type.
THEOREM TypeCorrect == Spec => []TypeOK
<1>1. IInv => TypeOK
  BY DEF IInv
<1> QED BY <1>1, Invariance, PTL

\* The trust registry names only schemas that are on the ledger.
THEOREM RegistryTellsTheLedger == Spec => []RegisteredAreOnLedger
<1>1. IInv => RegisteredAreOnLedger
  BY DEF IInv, LedgerInv, RegisteredAreOnLedger
<1> QED BY <1>1, Invariance, PTL

\* A create request answers with the schema that it asked for.
THEOREM AnswersAreRight == Spec => []AnswersMatchLedger
<1>1. IInv => AnswersMatchLedger
  BY DEF IInv, KnowsInv, Knows, AnswersMatchLedger, At
<1> QED BY <1>1, Invariance, PTL

\* Credential definitions are of schemas that have been registered, as long as
\* the registry can be reached.
THEOREM DefinitionsAreOfRegistered == Spec => []CredDefsOfRegisteredSchemas
<1>1. IInv => CredDefsOfRegisteredSchemas
  BY DEF IInv
<1> QED BY <1>1, Invariance, PTL

\* A credential definition that is answered with can be used at once.
THEOREM AnsweredDefinitionsUsable == Spec => []AnsweredAreUsable
<1>1. IInv => AnsweredAreUsable
  BY DEF IInv, KnowsInv, Knows, AnsweredAreUsable, At
<1> QED BY <1>1, Invariance, PTL

\* Created schemas end up registered unless their registration failed.
THEOREM CreatedEndUpRegistered == Spec => []CreatedAreRegisteredUnlessFailed
<1>1. IInv => CreatedAreRegisteredUnlessFailed
  <2> SUFFICES ASSUME IInv, faults \subseteq {"agent", "race"}, Quiet,
                      NEW r \in Requests, task[r].op = "schema", At(r, "done")
               PROVE  task[r].id \in rows \cup removed
    BY DEF CreatedAreRegisteredUnlessFailed, CreatedAreRegistered
  <2>1. task[r].id \in SchemaIds /\ schemas[task[r].id] # NoAttrs
    BY DefinitionAssumption DEF IInv, KnowsInv, Knows, At
  <2>2. ~ Pending(task[r].id)
    BY DEF Quiet, Pending, Ended
  <2> QED BY <2>1, <2>2 DEF IInv, RegistrationInv
<1> QED BY <1>1, Invariance, PTL

-----------------------------------------------------------------------------
\* A schema that is on the ledger stays there as it is, whichever requests race to
\* publish it, find it or fail to hear of it.
LedgerIsKept ==
    [][\A i \in SchemaIds : schemas[i] # NoAttrs => schemas'[i] = schemas[i]]_vars

\* No request changes a schema that the ledger has.
THEOREM SchemasStay == Spec => LedgerIsKept
<1>1. IInv /\ [Next]_vars =>
        [\A i \in SchemaIds : schemas[i] # NoAttrs => schemas'[i] = schemas[i]]_vars
  BY DataStep DEF Grows
<1> QED BY <1>1, Invariance, PTL DEF Spec, LedgerIsKept

-----------------------------------------------------------------------------
(* A request comes nearer its end with every step.                         *)

\* Every step of a request's handler, a crash included, brings it nearer its end;
\* no step of anything else moves it.
EachStepIsNearer ==
    [][\A r \in Requests :
        Handle(r) \/ task'[r] # task[r] => Nearer(task[r], task'[r])]_vars

\* Each step of a request brings it nearer its end, whatever the agent, the
\* endorser, the registry and other requests do: the endpoints answer after at
\* most eight stages, of which two poll at most MaxPolls times.
THEOREM RequestsComeNearerTheirEnd == Spec => EachStepIsNearer
<1>1. ASSUME TypeOK, [Next]_vars, NEW r \in Requests, Handle(r) \/ task'[r] # task[r]
      PROVE  Nearer(task[r], task'[r])
  <2>1. CASE Receive(r) \/ Crash(r) \/ Handle(r)
    BY <1>1, <2>1, HandlerNearer
  <2>2. ASSUME NEW q \in Requests, q # r, Receive(q) \/ Crash(q) \/ Handle(q)
        PROVE  task'[r] = task[r]
    BY <1>1, <2>2, HandlerNearer DEF Alone
  <2>3. ASSUME \/ UNCHANGED vars \/ ChangePublicDid \/ ChangeRegistry
               \/ \E i \in SchemaIds : Endorse(i) \/ ActivateRegistry(i)
        PROVE  task' = task
    BY <2>3 DEF vars, ChangePublicDid, ChangeRegistry, Endorse, ActivateRegistry
  <2> QED BY <1>1, <2>1, <2>2, <2>3 DEF Next
<1>2. IInv /\ [Next]_vars =>
        [\A r \in Requests :
            Handle(r) \/ task'[r] # task[r] => Nearer(task[r], task'[r])]_vars
  BY <1>1 DEF IInv
<1> QED BY <1>2, Invariance, PTL DEF Spec, EachStepIsNearer

-----------------------------------------------------------------------------
(* One credential definition of a schema, by one request.                  *)

\* The request has had its definition taken by the issuer's agent.
Defines(t) == t.op = "cred_def" /\ t.pc \in Awaiting \cup {"done"}

\* No two requests of the issuer wait for, or answer with, the same credential
\* definition, however their checks and publications interleave.
DefinedByOne ==
    \A q \in Requests, r \in Requests :
        Defines(task[q]) /\ Defines(task[r]) /\ task[q].id = task[r].id => q = r

Submitted == \A r \in Requests : Defines(task[r]) => credDefs[task[r].id] # "none"

\* A handler that has a definition had it before, or has just been given it, the
\* first of its schema.
LEMMA DefinesWhat ==
    ASSUME IInv, NEW r \in Requests, Receive(r) \/ Crash(r) \/ Handle(r),
           Defines(task'[r])
    PROVE  /\ task'[r].id = task[r].id
           /\ \/ Defines(task[r])
              \/ credDefs[task[r].id] = "none" /\ credDefs'[task[r].id] # "none"
<1>1. TypeOK /\ Knows(task[r])
  BY DEF IInv, KnowsInv
<1>2. CASE \/ PublishSchema(r) \/ RegisterSchema(r) \/ GetOwnDid(r)
           \/ GetExistingSchema(r) \/ GetCreatedSchemas(r)
  <2>1. task'[r].op = "schema"
    BY <1>1, <1>2, SchemaNearer DEF Knows
  <2> QED BY <2>1 DEF Defines
<1>3. CASE \/ Receive(r) \/ Crash(r) \/ AssertPublicDid(r) \/ LookupIssuer(r)
           \/ LookupSchema(r) \/ CheckConnection(r)
  BY <1>1, <1>3, ReceiveNearer, CheckNearer DEF Defines, Ended
<1>4. CASE \/ PublishCredDef(r) \/ AwaitAck(r) \/ AwaitRegistries(r) \/ FetchCredDef(r)
  <2>1. /\ task'[r].op = task[r].op /\ task'[r].id = task[r].id
        /\ task[r].pc \in Awaiting \cup {"publish_cred_def"}
        /\ task[r].pc = "publish_cred_def" => PublishCredDef(r)
    BY <1>1, <1>4, WaitNearer
  <2>2. CASE task[r].pc \in Awaiting
    BY <2>1, <2>2 DEF Defines
  <2>3. CASE PublishCredDef(r)
    <3>1. task[r].id \in SchemaIds /\ credDefs \in [SchemaIds -> {"none", "requested", "written"}]
      BY <1>1, <2>3 DEF Knows, PublishCredDef, At, Checking, TypeOK
    <3>2. ~ Fail(r)
      BY <1>1, Went DEF Fail, Defines, Awaiting
    <3>3. /\ credDefs[task[r].id] = "none"
          /\ \E s \in {"requested", "written"} :
                credDefs' = [credDefs EXCEPT ![task[r].id] = s]
      BY <2>3, <3>2 DEF PublishCredDef
    <3> QED BY <2>1, <3>1, <3>3
  <2> QED BY <2>1, <2>2, <2>3
<1> QED BY <1>2, <1>3, <1>4 DEF Handle

\* A credential definition is never taken back.
LEMMA DefinitionsStay ==
    ASSUME IInv, Next
    PROVE  \A i \in SchemaIds : credDefs[i] # "none" => credDefs'[i] # "none"
<1>1. credDefs \in [SchemaIds -> {"none", "requested", "written"}]
  BY DEF IInv, TypeOK
<1>2. ASSUME NEW r \in Requests, Receive(r) \/ Crash(r) \/ Handle(r), ~ PublishCredDef(r)
      PROVE  credDefs' = credDefs
  <2>1. CASE PublishSchema(r) \/ RegisterSchema(r)
    BY <2>1 DEF PublishSchema, RegisterSchema, credDefVars
  <2>2. CASE Local(r)
    BY <2>2, LocalFrame DEF credDefVars
  <2> QED BY <1>2, <2>1, <2>2 DEF Handle, Local
<1>3. ASSUME NEW r \in Requests, PublishCredDef(r)
      PROVE  \A i \in SchemaIds : credDefs[i] # "none" => credDefs'[i] # "none"
  <2>1. \/ credDefs' = credDefs
        \/ \E s \in {"requested", "written"} :
             credDefs' = [credDefs EXCEPT ![task[r].id] = s]
    BY <1>3 DEF PublishCredDef
  <2> QED BY <1>1, <2>1
<1>4. ASSUME \/ ChangePublicDid \/ ChangeRegistry
             \/ \E i \in SchemaIds : Endorse(i) \/ ActivateRegistry(i)
      PROVE  \A i \in SchemaIds : credDefs[i] # "none" => credDefs'[i] # "none"
  BY <1>1, <1>4 DEF ChangePublicDid, ChangeRegistry, Endorse, ActivateRegistry, credDefVars
<1> QED BY <1>2, <1>3, <1>4 DEF Next

LEMMA DefinedStep ==
    ASSUME IInv, Submitted, DefinedByOne, [Next]_vars PROVE Submitted' /\ DefinedByOne'
<1>1. \A r \in Requests : Defines(task[r]) => task[r].id \in SchemaIds
  BY DEF IInv, KnowsInv, Knows, Defines
<1>2. CASE UNCHANGED task /\ Next
  BY <1>1, <1>2, DefinitionsStay DEF Submitted, DefinedByOne
<1>3. CASE UNCHANGED vars
  BY <1>3 DEF vars, credDefVars, Submitted, DefinedByOne
<1>4. ASSUME Next, NEW r \in Requests, Receive(r) \/ Crash(r) \/ Handle(r)
      PROVE  Submitted' /\ DefinedByOne'
  <2>1. \A q \in Requests \ {r} : task'[q] = task[q]
    BY <1>4, HandlerNearer DEF Alone, IInv
  <2>2. ASSUME Defines(task'[r])
        PROVE  /\ task'[r].id = task[r].id /\ credDefs'[task[r].id] # "none"
               /\ Defines(task[r]) \/ credDefs[task[r].id] = "none"
    BY <1>1, <1>4, <2>2, DefinesWhat, DefinitionsStay DEF Submitted
  <2>3. Submitted'
    BY <1>1, <1>4, <2>1, <2>2, DefinitionsStay DEF Submitted
  <2>4. ASSUME NEW q \in Requests \ {r}, Defines(task'[q]), Defines(task'[r])
        PROVE  task'[q].id # task'[r].id
    BY <2>1, <2>2, <2>4 DEF Submitted, DefinedByOne
  <2>5. DefinedByOne'
    BY <2>1, <2>4 DEF DefinedByOne
  <2> QED BY <2>3, <2>5
<1>5. ASSUME \/ ChangePublicDid \/ ChangeRegistry
             \/ \E i \in SchemaIds : Endorse(i) \/ ActivateRegistry(i)
      PROVE  UNCHANGED task
  BY <1>5 DEF ChangePublicDid, ChangeRegistry, Endorse, ActivateRegistry
<1> QED BY <1>2, <1>3, <1>4, <1>5 DEF Next

\* A credential definition is answered to the one request that published it.
THEOREM OneRequestDefines == Spec => []DefinedByOne
<1>1. Init => Submitted /\ DefinedByOne
  BY DEF Init, Handler, Defines, Submitted, DefinedByOne, Awaiting
<1>2. IInv /\ (Submitted /\ DefinedByOne) /\ [Next]_vars => (Submitted /\ DefinedByOne)'
  BY DefinedStep
<1> QED BY <1>1, <1>2, Invariance, PTL DEF Spec

=============================================================================

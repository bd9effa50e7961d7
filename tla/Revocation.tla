----------------------------- MODULE Revocation -----------------------------
(***************************************************************************)
(* The revocation endpoints of an issuer (src/app/routes/revocation.py,    *)
(* src/app/services/revocation_registry.py).  A request is a handler that  *)
(* calls the issuer's agent several times: it validates what the client    *)
(* names against a registry it reads, calls the agent, and polls until the *)
(* effect shows.  Other requests of the same issuer, the endorser and the  *)
(* agent move in between.                                                  *)
(*                                                                         *)
(* The agent keeps which credentials are pending and the records of their  *)
(* state; a publication leaves it as one transaction per registry, which   *)
(* the endorser may or may not endorse and write.                          *)
(***************************************************************************)
EXTENDS Naturals, FiniteSets

CONSTANTS
    Creds,       \* issued, revocable credentials
    Registries,  \* revocation registries
    RegistryOf,  \* the registry of each credential
    Requests,
    Calls,       \* what clients ask for
    MaxPolls,    \* PUBLISH_REVOCATIONS_TIMEOUT (60 in the code)
    MaxTries,    \* max_tries of revoke_credential (5 in the code)
    Faults,      \* the kinds of fault that may happen
    MaxFaults    \* bound: kinds of fault in one behaviour

\* agent: the agent answers with an error.  lost: a call takes effect and its
\* answer is lost.  crash: the replica that serves the request dies.
FaultKinds == {"agent", "lost", "crash"}

\* Revoke with and without publication, publish, clear, the two readers, and the
\* repair of a registry.
Ops == {"auto", "mark", "publish", "clear", "record", "pending", "fix"}

\* revocation_registry_credential_map.
CredsOf(g) == {c \in Creds : RegistryOf[c] = g}
Maps == UNION {[G -> SUBSET Creds] : G \in SUBSET Registries}

\* The credentials a map names, and those it stands for: an empty list means
\* all of the registry, an empty map all there are.
Named(map) == UNION {map[g] : g \in DOMAIN map}

Covers(map) ==
    IF DOMAIN map = {} THEN Creds
    ELSE UNION {IF map[g] = {} THEN CredsOf(g) ELSE map[g] : g \in DOMAIN map}

ASSUME RevocationAssumption ==
    /\ RegistryOf \in [Creds -> Registries]
    /\ Calls \subseteq [op : Ops, map : Maps]
    /\ \A k \in Calls :
        /\ \A g \in DOMAIN k.map : k.map[g] \subseteq CredsOf(g)
        /\ k.op \in {"auto", "mark", "record"} => \E c \in Creds : Named(k.map) = {c}
    /\ MaxPolls \in Nat \ {0}
    /\ MaxTries \in Nat \ {0}
    /\ Faults \subseteq FaultKinds
    /\ MaxFaults \in Nat

VARIABLES
    pending,  \* credentials marked for revocation, not yet published
    revoked,  \* credentials whose record in the wallet says "revoked"
    sent,     \* what the transaction of a request carries, by registry
    acked,    \* transactions that are endorsed and written
    ledger,   \* credentials revoked on the ledger
    call,     \* what each request asks for
    req,      \* the handler of each request
    faults    \* the kinds of fault that have happened

vars == <<pending, revoked, sent, acked, ledger, call, req, faults>>

agent == <<pending, revoked, sent>>

Txns == Requests \X Registries

Working == {"validate", "publish", "clear", "revoke", "await_record", "await_txn",
            "read", "fix"}
Ended == {"done", "not_found", "timeout", "failed", "crashed"}

Bound == IF MaxPolls > MaxTries THEN MaxPolls ELSE MaxTries

\* todo: registries still to validate, or whose transaction is still awaited;
\* told: the credentials the answer names, as published, as revoked (record) or as
\* pending (pending, clear).
Request == [pc : {"idle"} \cup Working \cup Ended, todo : SUBSET Registries,
            polls : 0..(Bound - 1), told : SUBSET Creds]

TypeOK ==
    /\ pending \subseteq Creds /\ revoked \subseteq Creds /\ ledger \subseteq Creds
    /\ sent \in [Txns -> SUBSET Creds]
    /\ acked \subseteq Txns
    /\ call \in [Requests -> Calls]
    /\ req \in [Requests -> Request]
    /\ faults \subseteq Faults

\* Earlier requests may have left credentials pending.
Init ==
    /\ pending \in SUBSET Creds
    /\ revoked = {} /\ ledger = {} /\ acked = {}
    /\ sent = [t \in Txns |-> {}]
    /\ call \in [Requests -> Calls]
    /\ req = [r \in Requests |->
                [pc |-> "idle", todo |-> {}, polls |-> 0, told |-> {}]]
    /\ faults = {}

Fault(f) ==
    /\ f \in Faults
    /\ faults' = faults \cup {f}
    /\ Cardinality(faults') <= MaxFaults
NoFault == UNCHANGED faults

At(r, label)  == req[r].pc = label
Op(r)         == call[r].op
Become(r, q)  == req' = [req EXCEPT ![r] = q]
Goto(r, label, todo) == Become(r, [req[r] EXCEPT !.pc = label, !.todo = todo, !.polls = 0])
End(r, label) == Goto(r, label, {})

\* A 200 that names S.
Answer(r, S) ==
    Become(r, [req[r] EXCEPT !.pc = "done", !.todo = {}, !.polls = 0, !.told = S])

\* Mutants of Retry: an attempt too many; the attempts are not counted.
RetryOnceMore(r, max, label) ==
    IF req[r].polls + 1 <= max
    THEN Become(r, [req[r] EXCEPT !.polls = @ + 1])
    ELSE End(r, label)

RetryForever(r, max, label) == UNCHANGED req

\* An unsuccessful attempt of max: wait for the next one, or end with label.
Retry(r, max, label) ==
    IF req[r].polls + 1 < max
    THEN Become(r, [req[r] EXCEPT !.polls = @ + 1])
    ELSE End(r, label)

\* A call of the agent that fails: without an effect, or with one, `effect`,
\* that nobody hears of.
Fails(r, effect) ==
    /\ End(r, "failed")
    /\ \/ Fault("agent") /\ UNCHANGED agent
       \/ Fault("lost") /\ effect

\* The credentials that left in a transaction.
Published == UNION {sent[t] : t \in Txns}

\* What the transactions of a request carry.
Carried(r) == UNION {sent[<<r, g>>] : g \in Registries}

-----------------------------------------------------------------------------
(* The agent and the endorser.                                             *)

\* The agent publishes S for a request: nothing of it is pending any more, and
\* it leaves in one transaction per registry.
AgentPublishes(r, S) ==
    /\ pending' = pending \ S
    /\ sent' = [t \in Txns |-> IF t[1] = r THEN S \cap CredsOf(t[2]) ELSE sent[t]]
    /\ UNCHANGED revoked

\* The record of a credential can say "revoked" before it has been endorsed
\* (revocation_registry.py:134).
UpdateRecords(t) ==
    /\ ~ sent[t] \subseteq revoked
    /\ revoked' = revoked \cup sent[t]
    /\ UNCHANGED <<pending, sent, acked, ledger, call, req, faults>>

Endorse(t) ==
    /\ sent[t] # {} /\ t \notin acked
    /\ acked' = acked \cup {t}
    /\ ledger' = ledger \cup sent[t]
    /\ revoked' = revoked \cup sent[t]
    /\ UNCHANGED <<pending, sent, call, req, faults>>

Crash(r) ==
    /\ req[r].pc \in Working
    /\ Fault("crash")
    /\ End(r, "crashed")
    /\ UNCHANGED <<agent, acked, ledger, call>>

-----------------------------------------------------------------------------
(* Handlers.                                                               *)

\* An empty map is not validated.
Begin(r) ==
    /\ At(r, "idle")
    /\ LET todo == DOMAIN call[r].map
       IN CASE Op(r) \in {"auto", "mark"} -> Goto(r, "revoke", {})
            [] Op(r) \in {"publish", "clear"} ->
                 Goto(r, IF todo = {} THEN Op(r) ELSE "validate", todo)
            [] Op(r) \in {"record", "pending"} -> Goto(r, "read", {})
            [] Op(r) = "fix" -> Goto(r, "fix", {})
    /\ UNCHANGED <<agent, acked, ledger, call, faults>>

\* validate_rev_reg_ids: one registry after the other.  A registry without
\* pending revocations may lack the list (pending_pub), or have an empty one.
Validate(r) ==
    /\ At(r, "validate")
    /\ LET g == CHOOSE h \in req[r].todo : TRUE
           todo == req[r].todo \ {g}
       IN \/ /\ call[r].map[g] \subseteq pending /\ NoFault
             /\ Goto(r, IF todo = {} THEN Op(r) ELSE "validate", todo)
          \/ /\ ~ call[r].map[g] \subseteq pending \/ pending \cap CredsOf(g) = {}
             /\ NoFault /\ End(r, "not_found")
          \/ Fault("agent") /\ End(r, "failed")
    /\ UNCHANGED <<agent, acked, ledger, call>>

\* Mutant of Body: the ids are validated, and not sent along.
BodyWithoutIds(r) == [g \in DOMAIN call[r].map |-> {}]

\* The map the agent gets (rrid2crid, purge).
Body(r) == call[r].map

\* publish_pending_revocations, and the empty answer of the route.
PublishRevocations(r) ==
    /\ At(r, "publish")
    /\ LET S == Covers(Body(r)) \cap pending
       IN \/ /\ NoFault /\ AgentPublishes(r, S)
             /\ IF S = {} THEN Answer(r, {})
                ELSE Goto(r, "await_txn", {RegistryOf[c] : c \in S})
          \/ Fails(r, AgentPublishes(r, S))
    /\ UNCHANGED <<acked, ledger, call>>

\* Mutant of AfterAck: the first transaction stands for all.
AfterFirstAck(r) == {}

\* The transactions to wait for when the current one is acknowledged.
Current(r)  == CHOOSE g \in req[r].todo : TRUE
AfterAck(r) == req[r].todo \ {Current(r)}

\* Mutant of RevokedInfo: the entry of a registry replaces those before it.
RevokedInfoOfLast(r) == sent[<<r, CHOOSE g \in Registries : sent[<<r, g>>] # {}>>]

\* RevokedResponse.extract_revoked_info.
RevokedInfo(r) == Carried(r)

\* Mutant of IsAcked: the request for an endorsement is enough.
IsSent(t) == sent[t] # {}

\* The state the route waits for, "transaction_acked".
IsAcked(t) == t \in acked

\* The route polls one transaction after the other; an error is an attempt.
AwaitTransaction(r) ==
    /\ At(r, "await_txn")
    /\ \/ /\ IsAcked(<<r, Current(r)>>) /\ NoFault
          /\ IF AfterAck(r) = {} THEN Answer(r, RevokedInfo(r))
             ELSE Goto(r, "await_txn", AfterAck(r))
       \/ /\ (~ IsAcked(<<r, Current(r)>>) /\ NoFault) \/ Fault("agent")
          /\ Retry(r, MaxPolls, "timeout")
    /\ UNCHANGED <<agent, acked, ledger, call>>

\* The outstanding revocations that clear_pending_revocations answers.
Outstanding(r) == pending \ Covers(Body(r))

ClearPendingRevocations(r) ==
    /\ At(r, "clear")
    /\ LET Purge == pending' = Outstanding(r) /\ UNCHANGED <<revoked, sent>>
       IN \/ NoFault /\ Purge /\ Answer(r, pending')
          \/ Fails(r, Purge)
    /\ UNCHANGED <<acked, ledger, call>>

\* The registry of the named credential.  A revocation that the agent is to
\* publish takes along what else is pending there.
Registry(r) == UNION {CredsOf(RegistryOf[c]) : c \in Named(call[r].map)}
TakenAlong(r) == IF Op(r) = "auto" THEN Registry(r) \cap pending ELSE {}

\* revoke_credential: the agent's one call.  A credential that was revoked before
\* changes nothing, and when nothing is published there is no result.
RevokeCredential(r) ==
    /\ At(r, "revoke")
    /\ LET S == (Named(call[r].map) \cup TakenAlong(r)) \ Published
           Effect == IF Op(r) = "auto" THEN AgentPublishes(r, S)
                     ELSE pending' = pending \cup S /\ UNCHANGED <<revoked, sent>>
       IN \/ /\ NoFault /\ Effect
             /\ IF Op(r) = "auto" THEN Goto(r, "await_record", {}) ELSE Answer(r, {})
          \/ Fails(r, Effect)
    /\ UNCHANGED <<acked, ledger, call>>

\* Its wait for the record of the credential.  Errors are retried apart from the
\* tries, and the last one is raised.  No result of the first call is an error.
AwaitRecord(r) ==
    /\ At(r, "await_record")
    /\ LET isRevoked == Named(call[r].map) \subseteq revoked
       IN \/ isRevoked /\ NoFault /\ Carried(r) # {} /\ Answer(r, RevokedInfo(r))
          \/ isRevoked /\ NoFault /\ Carried(r) = {} /\ End(r, "failed")
          \/ ~ isRevoked /\ NoFault /\ Retry(r, MaxTries, "failed")
          \/ Fault("agent") /\ End(r, "failed")
    /\ UNCHANGED <<agent, acked, ledger, call>>

\* What the agent answers to get_credential_revocation_record, and to
\* get_pending_revocations.
RevocationRecord(r) == Named(call[r].map) \cap revoked
PendingPub(r)       == Covers(call[r].map) \cap pending

\* A request of one call that changes nothing.
Read(r, found) ==
    /\ At(r, "read")
    /\ \/ NoFault /\ Answer(r, found)
       \/ Fault("agent") /\ End(r, "failed")
    /\ UNCHANGED <<agent, acked, ledger, call>>

ReadRecord(r)  == Op(r) = "record" /\ Read(r, RevocationRecord(r))
ReadPending(r) == Op(r) = "pending" /\ Read(r, PendingPub(r))

\* fix_revocation_registry_entry_state with apply_ledger_update: the ledger gets
\* what the wallet says is revoked.
FixRegistry(r) ==
    /\ At(r, "fix")
    /\ LET g == CHOOSE h \in DOMAIN call[r].map : TRUE
           Repair == ledger' = ledger \cup (revoked \cap CredsOf(g))
       IN \/ NoFault /\ Repair /\ Answer(r, {})
          \/ Fault("lost") /\ Repair /\ End(r, "failed")
          \/ Fault("agent") /\ UNCHANGED ledger /\ End(r, "failed")
    /\ UNCHANGED <<agent, acked, call>>

-----------------------------------------------------------------------------
Handle(r) ==
    \/ Begin(r) \/ Validate(r) \/ PublishRevocations(r) \/ AwaitTransaction(r)
    \/ ClearPendingRevocations(r) \/ RevokeCredential(r) \/ AwaitRecord(r)
    \/ ReadRecord(r) \/ ReadPending(r) \/ FixRegistry(r)

Next ==
    \/ \E r \in Requests : Handle(r) \/ Crash(r)
    \/ \E t \in Txns : UpdateRecords(t) \/ Endorse(t)

\* A handler that can go on does: every call it awaits returns.  Nothing is
\* assumed of the agent's records and of the endorser.
Spec == Init /\ [][Next]_vars /\ \A r \in Requests : WF_vars(Handle(r))

-----------------------------------------------------------------------------
(* Properties.                                                             *)

\* publish-revocations answers well only when the ledger has every credential the
\* answer names ("Wait for transaction to be acknowledged and written to the
\* ledger", revocation.py:205), over all the transactions it waits for.
PublishAnswersAreOnLedger ==
    \A r \in Requests : At(r, "done") /\ Op(r) = "publish" => req[r].told \subseteq ledger

\* What the answers name is true: a publication names all that its transactions
\* carry, in every registry, and nothing when it sent none; only credentials in a
\* transaction are reported as revoked; and what is still pending after a clear
\* is not what was to be cleared, though others mark and publish meanwhile.
AnswersAreTrue ==
    \A r \in Requests : At(r, "done") =>
        CASE Op(r) \in {"publish", "auto"} -> req[r].told = Carried(r)
          [] Op(r) = "record" -> req[r].told \subseteq Published
          [] Op(r) = "clear" -> req[r].told \cap Covers(call[r].map) = {}
          [] OTHER -> Carried(r) = {}

\* A request takes from the pending credentials only those the client's map stands
\* for, however late after its validation, or, when it revokes and publishes at
\* once, those of the same registry; all others stay marked.  A request that ends
\* with a 404 or is still validating has taken none.
PendingLeavesOnRequest ==
    [][\A c \in pending \ pending' : \E r \in Requests :
        /\ req[r].pc \in {"publish", "clear", "revoke"} /\ req'[r].pc # req[r].pc
        /\ c \in (IF Op(r) = "auto" THEN Registry(r) ELSE Covers(call[r].map))]_vars

\* Whatever the requests do and wherever they fail, revocations go one way:
\* CredentialStatus.
Toldby(ops) == UNION {req[r].told : r \in {s \in Requests : Op(s) \in ops}}

Status == INSTANCE CredentialStatus WITH
    sent <- Published,
    told <- Toldby({"publish"})

ImplementsCredentialStatus == Status!Spec

\* Every request ends, though the endorser may never endorse and the records may
\* never change.
RequestsEnd ==
    \A r \in Requests : At(r, "idle") ~> req[r].pc \in Ended

=============================================================================

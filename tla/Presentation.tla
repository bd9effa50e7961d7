---------------------------- MODULE Presentation ----------------------------
(***************************************************************************)
(* Proving (src/app/routes/verifier.py, src/app/services/verifier and      *)
(* src/app/util/acapy_verifier_utils.py).  A verifier that requests a      *)
(* proof, and a prover that accepts the request, ask the trust registry    *)
(* about the verifier, under one name after the other, and the prover      *)
(* about the schemas it reveals; then the agent acts.  A prover may reject *)
(* instead, with two calls.  Operators change the registry meanwhile.      *)
(*                                                                         *)
(* The prover and the verifier have one connection.  Requests may also     *)
(* come from verifiers elsewhere, and without a connection, when nothing   *)
(* is asked.                                                               *)
(***************************************************************************)
EXTENDS Naturals

CONSTANTS
    Schemas,     \* schemas of the prover's credentials
    Exchanges,   \* exchanges, named by their thread
    NoExchange,  \* a proof request that is not made yet
    Requests,
    Registers,   \* what the registry may say of the verifier
    MaxChanges   \* bound: changes of the registry

\* What the verifier may be registered under: its public DID, the did:key of the
\* connection's invitation, its label.
Ids == {"did", "key", "label"}
Roles == {"none", "actor", "verifier"}

ASSUME PresentationAssumption ==
    /\ NoExchange \notin Exchanges
    /\ Registers \subseteq [Ids -> Roles]
    /\ MaxChanges \in Nat

VARIABLES
    role,       \* under each id: no actor, one without the role, a verifier
    schemas,    \* schemas the registry has
    via,        \* how the prover's connection names the verifier
    record,     \* the state of the record of each side, by exchange
    bound,      \* records with a connection
    indy,       \* exchanges of indy proofs; the others are ld_proof
    mail,       \* messages under way
    req,        \* the handler of each request
    presented,  \* history: exchanges whose presentation has left the wallet
    reported,   \* history: exchanges the prover's rejection has reported
    vouched,    \* history: records moved by a request during which what the trust
                \* registry has to say was true
    changes

registry  == <<role, schemas, via>>
exchanges == <<record, bound, indy, mail, presented, reported, vouched>>
vars == <<role, schemas, via, record, bound, indy, mail, req,
          presented, reported, vouched, changes>>

Sides   == {"verifier", "prover"}
Records == Sides \X Exchanges

RecordStates == {"none", "elsewhere", "request-sent", "request-received", "presentation-sent",
                 "done", "abandoned", "removed"}
Messages == {"request", "presentation", "ack", "problem"} \X Exchanges

Facts == ({"verifier"} \X Ids) \cup ({"schema"} \X Schemas) \cup ({"open"} \X Exchanges)

\* What the registry says at the moment, and whether an exchange waits for its answer.
Holds == ({"verifier"} \X {i \in Ids : role[i] = "verifier"}) \cup ({"schema"} \X schemas)
Open(e) == IF record[<<"prover", e>>] = "request-received" THEN {<<"open", e>>} ELSE {}

Ops == {"send", "accept", "reject"}
Working == {"public_did", "record", "connection", "did", "label", "schemas", "call", "delete"}

\* ex: the exchange to answer.  who: the id to look up.  reveals: the schemas of the
\* credentials of the presentation.  seen: history, what was true at some time
\* during the request.
Request == [pc : {"idle"} \cup Working, op : Ops, ex : Exchanges \cup {NoExchange},
            who : Ids, reveals : SUBSET Schemas, seen : SUBSET Facts]

Idle == [pc |-> "idle", op |-> "send", ex |-> NoExchange, who |-> "did",
         reveals |-> {}, seen |-> {}]

\* An answer is to some exchange, and a presentation of an indy proof that is about
\* to be sent over a connection reveals something.
TypeOK ==
    /\ role \in Registers /\ schemas \subseteq Schemas /\ via \in {"did", "key"}
    /\ record \in [Records -> RecordStates]
    /\ bound \subseteq Records /\ indy \subseteq Exchanges
    /\ mail \subseteq Messages
    /\ req \in [Requests -> Request]
    /\ presented \subseteq Exchanges /\ reported \subseteq Exchanges
    /\ vouched \subseteq Records
    /\ changes \in 0..MaxChanges
    /\ \A r \in Requests : LET e == req[r].ex IN
        /\ req[r].op # "send" => e \in Exchanges
        /\ req[r].pc = "call" /\ req[r].op = "accept" /\ e \in indy /\ <<"prover", e>> \in bound
                => req[r].reveals # {}

Init ==
    /\ role \in Registers /\ schemas \in SUBSET Schemas /\ via \in {"did", "key"}
    /\ record = [x \in Records |-> "none"]
    /\ bound = {} /\ indy = {} /\ mail = {}
    /\ req = [r \in Requests |-> Idle]
    /\ presented = {} /\ reported = {} /\ vouched = {}
    /\ changes = 0

At(r, label)   == req[r].pc = label
Op(r)          == req[r].op
Goto(r, label) == req' = [req EXCEPT ![r].pc = label]

\* The request ends, whatever the answer and whether the client gets it.  Another
\* may take its place.
Stop(r) == req' = [req EXCEPT ![r] = Idle]

Unused(e) == record[<<"verifier", e>>] = "none"

\* The record of a side goes to state s.
Put(side, e, s) == record' = [record EXCEPT ![<<side, e>>] = s]

\* The record of the exchange that r answers.
Mine(r) == record[<<"prover", req[r].ex>>]

-----------------------------------------------------------------------------
(* Handlers.                                                               *)

\* A verifier asks to send a proof request over the connection, while Exchanges bounds
\* them; a prover, to accept or to reject one that its wallet has or had.
Receive(r) ==
    /\ At(r, "idle")
    /\ \/ /\ \E e \in Exchanges : Unused(e)
          /\ req' = [req EXCEPT ![r] = [Idle EXCEPT !.pc = "public_did", !.seen = Holds]]
       \/ \E op \in {"accept", "reject"}, e \in Exchanges :
            /\ record[<<"prover", e>>] # "none"
            /\ req' = [req EXCEPT ![r] = [Idle EXCEPT
                !.pc = "record", !.op = op, !.ex = e, !.seen = Holds \cup Open(e)]]
    /\ UNCHANGED <<registry, exchanges, changes>>

\* What the steps of a handler up to its call of the agent leave alone.
OnlyAsks == UNCHANGED <<registry, exchanges, changes>>

\* The id to be looked up next.
LookUp(r, label, who) == req' = [req EXCEPT ![r].pc = label, ![r].who = who]

\* assert_valid_verifier: the public DID, or the key of the connection's invitation
\* when the wallet has none or the agent fails to say.
AssertPublicDid(r) ==
    /\ At(r, "public_did")
    /\ \/ LookUp(r, "did", "did")
       \/ LookUp(r, "connection", "key")
    /\ OnlyAsks

\* Mutant of CanReject: any record will do.
CanRejectAny(r) == Mine(r) # "removed"

\* The state that reject_proof_request wants a record in.
CanReject(r) == Mine(r) = "request-received"

\* accept_proof_request reads the record, and asks nothing of a request without a
\* connection.
GetRecord(r) ==
    /\ At(r, "record")
    /\ \/ /\ Op(r) = "accept" /\ Mine(r) # "removed"
          /\ Goto(r, IF <<"prover", req[r].ex>> \in bound THEN "connection" ELSE "call")
       \/ Op(r) = "accept" /\ Mine(r) = "removed" /\ Stop(r)
       \/ Op(r) = "reject" /\ IF CanReject(r) THEN Goto(r, "call") ELSE Stop(r)
    /\ OnlyAsks

\* The connection.  The verifier takes the key of its invitation.  The prover gets
\* to it by the record, read again, and takes the verifier's public DID, or the key.
\* There may be neither.
GetConnection(r) ==
    /\ At(r, "connection")
    /\ \/ Op(r) = "send" /\ Goto(r, "did")
       \/ Op(r) = "accept" /\ Mine(r) # "removed" /\ LookUp(r, "did", via)
       \/ Stop(r)
    /\ OnlyAsks

\* Where an actor with the role leads.  The client says which type the presentation
\* has; the agent refuses a type that the request is not of.
AfterActor(r) == IF Op(r) = "accept" /\ req[r].ex \in indy THEN "schemas" ELSE "call"

\* Mutant of IsVerifier: any actor will do.
AnyActor(r) == role[req[r].who] # "none"

\* is_verifier.
IsVerifier(r) == role[req[r].who] = "verifier"

\* get_actor: no actor of this DID, and the label is tried, if there is one.
GetActor(r) ==
    /\ At(r, "did")
    /\ \/ IsVerifier(r) /\ Goto(r, AfterActor(r))
       \/ role[req[r].who] = "none" /\ LookUp(r, "label", "label")
       \/ ~ IsVerifier(r) /\ Stop(r)
    /\ OnlyAsks

\* Mutant of GetActorByName: there is an actor of this name, or not.
GetActorByNameHeedless(r) ==
    /\ At(r, "label")
    /\ Goto(r, AfterActor(r))
    /\ OnlyAsks

GetActorByName(r) ==
    /\ At(r, "label")
    /\ IF IsVerifier(r) THEN Goto(r, AfterActor(r)) ELSE Stop(r)
    /\ OnlyAsks

\* Mutant of AreValidSchemas: nothing revealed is fine.
AreValidSchemasVacuously(ids) == ids \subseteq schemas

\* are_valid_schemas, by fetch_schemas.
AreValidSchemas(ids) == ids # {} /\ ids \subseteq schemas

\* get_schema_ids reads the revealed credentials in the prover's wallet, where their
\* schemas never change.
CheckSchemas(r) ==
    /\ At(r, "schemas")
    /\ \E ids \in SUBSET Schemas :
        IF AreValidSchemas(ids)
        THEN req' = [req EXCEPT ![r].pc = "call", ![r].reveals = ids]
        ELSE Stop(r)
    /\ OnlyAsks

\* What the registry has to say of the verifier and of an indy presentation.
Known(facts, ids) == \E i \in ids : <<"verifier", i>> \in facts

Licensed(r, e) ==
    IF Op(r) = "send" THEN Known(req[r].seen, Ids)
    ELSE /\ Known(req[r].seen, {via, "label"})
         /\ e \in indy => \A s \in req[r].reveals : <<"schema", s>> \in req[r].seen

\* The request moves the record of side for exchange e to state st.
Move(r, side, e, st) ==
    /\ Put(side, e, st)
    /\ vouched' = IF Licensed(r, e) THEN vouched \cup {<<side, e>>} ELSE vouched

\* What the agent's calls leave alone.
Outside == UNCHANGED <<registry, changes>>

SendProofRequest(r) ==
    /\ At(r, "call") /\ Op(r) = "send"
    /\ \E e \in Exchanges :
        /\ Unused(e)
        /\ Move(r, "verifier", e, "request-sent")
        /\ bound' = bound \cup {<<"verifier", e>>}
        /\ indy' \in {indy, indy \cup {e}}
        /\ mail' = mail \cup {<<"request", e>>}
    /\ Stop(r)
    /\ Outside /\ UNCHANGED <<presented, reported>>

\* accept_proof_request: the agent takes a presentation for an open request, once.
SendPresentation(r) ==
    /\ At(r, "call") /\ Op(r) = "accept"
    /\ LET e == req[r].ex
       IN IF Mine(r) = "request-received"
          THEN /\ Move(r, "prover", e, "presentation-sent")
               /\ mail' = mail \cup {<<"presentation", e>>}
               /\ presented' = presented \cup {e}
               /\ UNCHANGED <<bound, indy, reported>>
          ELSE UNCHANGED exchanges
    /\ Stop(r)
    /\ Outside

\* reject_proof_request reports first.  The agent takes the report of a record in any
\* state, which may have moved since it was read.
ReportProblem(r) ==
    /\ At(r, "call") /\ Op(r) = "reject"
    /\ LET e == req[r].ex
       IN IF Mine(r) = "removed" THEN Stop(r) /\ UNCHANGED exchanges
          ELSE /\ Put("prover", e, "abandoned")
               /\ mail' = mail \cup {<<"problem", e>>}
               /\ reported' = reported \cup {e}
               /\ Goto(r, "delete") \/ Stop(r)
               /\ UNCHANGED <<bound, indy, presented, vouched>>
    /\ Outside

\* Then it may delete the record.
DeleteRejected(r) ==
    /\ At(r, "delete")
    /\ Put("prover", req[r].ex, "removed")
    /\ Stop(r)
    /\ Outside /\ UNCHANGED <<bound, indy, mail, presented, reported, vouched>>

\* A call fails without an effect, the registry or the agent answers with an error,
\* RichAsyncClient has no answer to look at, or the replica dies.
Fails(r) ==
    /\ req[r].pc \in Working
    /\ Stop(r)
    /\ UNCHANGED <<registry, exchanges, changes>>

-----------------------------------------------------------------------------
(* Handlers of one call of the agent, the agents, and who changes the      *)
(* registry.                                                               *)

\* What these leave alone.
Inside == UNCHANGED <<registry, req, vouched, changes>>

\* create_proof_request, or a verifier that is not a tenant: nobody is asked.
CreateProofRequest(e) ==
    /\ Unused(e)
    /\ \E state \in {"request-sent", "elsewhere"} : Put("verifier", e, state)
    /\ indy' \in {indy, indy \cup {e}}
    /\ mail' = mail \cup {<<"request", e>>}
    /\ UNCHANGED <<bound, presented, reported>>
    /\ Inside

\* A tenant deletes a record of its own.
DeleteProof(side, e) ==
    /\ record[<<side, e>>] \notin {"none", "elsewhere", "removed"}
    /\ Put(side, e, "removed")
    /\ UNCHANGED <<bound, indy, mail, presented, reported>>
    /\ Inside

\* A record comes to its end and is kept or not, as its side has asked.
Complete(side, e) == Put(side, e, "done") \/ Put(side, e, "removed")

Take(kind, e) == <<kind, e>> \in mail /\ mail' = mail \ {<<kind, e>>}

\* A request that was not sent over the connection may come over one all the same.
ReceiveRequest(e) ==
    /\ Take("request", e)
    /\ IF record[<<"prover", e>>] = "none"
       THEN /\ Put("prover", e, "request-received")
            /\ \/ bound' = bound \cup {<<"prover", e>>}
               \/ <<"verifier", e>> \notin bound /\ UNCHANGED bound
       ELSE UNCHANGED <<record, bound>>
    /\ UNCHANGED <<indy, presented, reported>>
    /\ Inside

\* The verifier's agent verifies by itself (auto_verify, ACAPY_AUTO_VERIFY_PRESENTATION).
ReceivePresentation(e) ==
    /\ <<"presentation", e>> \in mail
    /\ IF record[<<"verifier", e>>] = "request-sent" THEN Complete("verifier", e)
       ELSE UNCHANGED record
    /\ mail' = (mail \ {<<"presentation", e>>})
            \cup IF record[<<"verifier", e>>] \in {"request-sent", "elsewhere"}
                 THEN {<<"ack", e>>} ELSE {}
    /\ UNCHANGED <<bound, indy, presented, reported>>
    /\ Inside

ReceiveAck(e) ==
    /\ Take("ack", e)
    /\ IF record[<<"prover", e>>] = "presentation-sent" THEN Complete("prover", e)
       ELSE UNCHANGED record
    /\ UNCHANGED <<bound, indy, presented, reported>>
    /\ Inside

ReceiveProblem(e) ==
    /\ Take("problem", e)
    /\ IF record[<<"verifier", e>>] \in {"request-sent", "done"}
       THEN Put("verifier", e, "abandoned") ELSE UNCHANGED record
    /\ UNCHANGED <<bound, indy, presented, reported>>
    /\ Inside

\* An operator changes what the registry says of the verifier, or its schemas.  What
\* holds now holds during every request at work.
Operate ==
    /\ changes < MaxChanges
    /\ changes' = changes + 1
    /\ \/ role' \in Registers /\ UNCHANGED schemas
       \/ (\E s \in Schemas : schemas' \in {schemas \cup {s}, schemas \ {s}}) /\ UNCHANGED role
    /\ req' = [r \in Requests |->
                IF req[r].pc \in Working THEN [req[r] EXCEPT !.seen = @ \cup Holds']
                ELSE req[r]]
    /\ UNCHANGED <<via, exchanges>>

-----------------------------------------------------------------------------
Handle(r) ==
    \/ Receive(r) \/ AssertPublicDid(r) \/ GetRecord(r) \/ GetConnection(r)
    \/ GetActor(r) \/ GetActorByName(r) \/ CheckSchemas(r)
    \/ SendProofRequest(r) \/ SendPresentation(r) \/ ReportProblem(r) \/ DeleteRejected(r)
    \/ Fails(r)

Agents(e) ==
    \/ CreateProofRequest(e) \/ ReceiveRequest(e) \/ ReceivePresentation(e)
    \/ ReceiveAck(e) \/ ReceiveProblem(e)
    \/ \E side \in Sides : DeleteProof(side, e)

Next ==
    \/ \E r \in Requests : Handle(r)
    \/ \E e \in Exchanges : Agents(e)
    \/ Operate

Spec == Init /\ [][Next]_vars

-----------------------------------------------------------------------------
(* Properties.                                                             *)

\* A presentation leaves the wallet over a connection only by a request during which
\* the verifier was registered as one, under its DID or its label, and every schema
\* that an indy presentation reveals was registered, whatever changed between the
\* calls (assert_valid_prover).  Without a connection nothing is promised
\* (verifier.py:225).
PresentedOnlyToVerifiers ==
    \A e \in presented : <<"prover", e>> \in bound => <<"prover", e>> \in vouched

\* "Only a tenant with the verifier role can send a proof request" (verifier.py:44):
\* a request that a tenant sent over a connection was made while it was registered
\* as a verifier under one of its ids.
RequestedOnlyByVerifiers ==
    \A e \in Exchanges : <<"verifier", e>> \in bound => <<"verifier", e>> \in vouched

\* A rejection ends only an exchange that was open for an answer during it ("must be in
\* state `request-received` to reject", verifier.py:289), though the agent takes it in
\* any state, and deletes only a record whose rejection it has reported, wherever its
\* two calls fail.
RejectionsAreTold ==
    [][\A e \in Exchanges :
        LET x == <<"prover", e>>
            Rejects(r) == Op(r) = "reject" /\ req[r].ex = e /\ req'[r] # req[r]
        IN record'[x] # record[x] =>
            /\ record'[x] = "abandoned" =>
                    \E r \in Requests : Rejects(r) /\ <<"open", e>> \in req[r].seen
            /\ (\E r \in Requests : Rejects(r)) /\ record'[x] = "removed" =>
                    e \in reported]_vars

=============================================================================

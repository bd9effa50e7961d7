------------------------------ MODULE Issuance ------------------------------
(***************************************************************************)
(* Issuing credentials (src/app/routes/issuer.py and                       *)
(* src/app/services/issuer).  An issuer's request to send or to create an  *)
(* offer, and a holder's request to accept one, ask the trust registry     *)
(* about the issuer and about the schema, one call after the other, and    *)
(* then have the agent act.  Operators change the registry and the public  *)
(* DID meanwhile.                                                          *)
(*                                                                         *)
(* The exchange itself is the agents': two records, one on each side, that *)
(* messages move.  Each record is kept or removed at its end as its own    *)
(* side has asked.  Offers may come from issuers elsewhere, whom only the  *)
(* holder's check can stop.                                                *)
(***************************************************************************)
EXTENDS Naturals, FiniteSets

CONSTANTS
    Dids,        \* DIDs of issuers
    NoDid,       \* the wallet has no public DID
    Schemas,
    NoSchema,    \* an ld_proof credential has no schema
    Exchanges,   \* exchanges, named by their thread
    NoExchange,  \* an offer that is not made yet
    Requests,
    Keeps,       \* what clients give for save_exchange_record: None, true or false
    Preserve,    \* whether wallets keep records by default
    MaxChanges   \* bound: changes of the registry and of the public DID

ASSUME IssuanceAssumption ==
    /\ NoDid \notin Dids /\ NoSchema \notin Schemas /\ NoExchange \notin Exchanges
    /\ Keeps \subseteq {"default", "save", "delete"} /\ "default" \in Keeps
    /\ Preserve \in BOOLEAN
    /\ MaxChanges \in Nat

VARIABLES
    issuers,    \* DIDs the registry has an actor with role "issuer" for
    schemas,    \* schemas the registry has
    publicDid,  \* the public DID of the issuer's wallet
    cred,       \* what each exchange offers
    record,     \* the state of the record of each side, by exchange
    autoRemove, \* records that the agent removes at their end
    mail,       \* messages under way
    held,       \* exchanges whose credential is in the holder's wallet
    req,        \* the handler of each request
    vouched,    \* history: records moved by a request during which what the trust
                \* registry has to say was true
    asked,      \* history: save_exchange_record of the request that moved each record
    changes

registry  == <<issuers, schemas, publicDid>>
exchanges == <<cred, record, autoRemove, mail, held, vouched, asked>>
vars == <<issuers, schemas, publicDid, cred, record, autoRemove, mail, held, req,
          vouched, asked, changes>>

Sides   == {"issuer", "holder"}
Records == Sides \X Exchanges

\* An offer names the DID of the issuer and, for indy, a schema: by its
\* credential definition, or in the ld_proof detail.
Credentials == [did : Dids, schema : Schemas \cup {NoSchema}]
NoCredential == [did |-> NoDid, schema |-> NoSchema]

RecordStates == {"none", "elsewhere", "offer-sent", "credential-issued", "offer-received",
                 "request-sent", "credential-received", "done", "removed"}
Messages == {"offer", "request", "credential", "ack"} \X Exchanges

\* unanswered: RichAsyncClient returned None for a schema, as it does after a
\* connect timeout.
Facts == ({"issuer", "public"} \X Dids) \cup ({"schema", "unanswered"} \X Schemas)

\* What holds at the moment.
Holds == ({"issuer"} \X issuers) \cup ({"schema"} \X schemas)
            \cup ({"public"} \X ({publicDid} \cap Dids))

Ops == {"send", "create", "request"}
Working == {"public_did", "schema_id", "record", "issuer", "schema", "call"}

\* ex: the exchange to accept.  cred: what is offered.  did: the DID to be looked up.
\* seen: history, what was true at some time during the request.
Request == [pc : {"idle"} \cup Working, op : Ops,
            ex : Exchanges \cup {NoExchange},
            cred : Credentials \cup {NoCredential},
            did : Dids \cup {NoDid}, seen : SUBSET Facts]

Idle == [pc |-> "idle", op |-> "send", ex |-> NoExchange,
         cred |-> NoCredential, did |-> NoDid, seen |-> {}]

\* A lookup is of a DID, and there is a credential when there is a DID.
TypeOK ==
    /\ issuers \subseteq Dids /\ schemas \subseteq Schemas
    /\ publicDid \in Dids \cup {NoDid}
    /\ cred \in [Exchanges -> Credentials \cup {NoCredential}]
    /\ record \in [Records -> RecordStates]
    /\ autoRemove \subseteq Records
    /\ mail \subseteq Messages
    /\ held \subseteq Exchanges
    /\ req \in [Requests -> Request]
    /\ vouched \subseteq Records
    /\ asked \in [Records -> Keeps]
    /\ changes \in 0..MaxChanges
    /\ \A r \in Requests : req[r].pc \in {"schema_id", "issuer", "schema"} =>
        req[r].did \in Dids /\ req[r].cred \in Credentials

Init ==
    /\ issuers \in SUBSET Dids /\ schemas \in SUBSET Schemas
    /\ publicDid \in Dids \cup {NoDid}
    /\ cred = [e \in Exchanges |-> NoCredential]
    /\ record = [x \in Records |-> "none"]
    /\ autoRemove = {}
    /\ mail = {} /\ held = {}
    /\ req = [r \in Requests |-> Idle]
    /\ vouched = {} /\ asked = [x \in Records |-> "default"]
    /\ changes = 0

At(r, label)   == req[r].pc = label
Op(r)          == req[r].op
SideOf(r)      == IF Op(r) = "request" THEN "holder" ELSE "issuer"
Goto(r, label) == req' = [req EXCEPT ![r].pc = label]

\* The request ends, whatever the answer and whether the client gets it.  Another
\* may take its place.
Stop(r) == req' = [req EXCEPT ![r] = Idle]

Unused(e) == record[<<"issuer", e>>] = "none"

\* The record of a side goes to state s.
Put(side, e, s) == record' = [record EXCEPT ![<<side, e>>] = s]

\* Mutant of AutoRemove: the negation is missing.
AutoRemoveInverted(k) == IF k = "default" THEN ~ Preserve ELSE k = "save"

\* auto_remove of a request, and the agent's default when it is None.
AutoRemove(k) == IF k = "default" THEN ~ Preserve ELSE k = "delete"

\* A record comes to its end.
Complete(side, e) ==
    Put(side, e, IF <<side, e>> \in autoRemove THEN "removed" ELSE "done")

-----------------------------------------------------------------------------
(* Handlers.                                                               *)

\* A client asks to send or to create an offer, or to accept one that its wallet has.
Receive(r) ==
    /\ At(r, "idle")
    /\ \/ \E op \in {"send", "create"}, c \in Credentials :
            req' = [req EXCEPT ![r] = [Idle EXCEPT
                !.pc = "public_did", !.op = op, !.cred = c, !.seen = Holds]]
       \/ \E e \in Exchanges :
            /\ record[<<"holder", e>>] # "none"
            /\ req' = [req EXCEPT ![r] = [Idle EXCEPT
                !.pc = "record", !.op = "request", !.ex = e, !.seen = Holds]]
    /\ UNCHANGED <<registry, exchanges, changes>>

\* What the steps of a handler up to its call of the agent leave alone.
OnlyAsks == UNCHANGED <<registry, exchanges, changes>>

\* The next step of a request, which looks up did for credential c.
LookUp(r, label, did, c) ==
    req' = [req EXCEPT ![r].pc = label, ![r].did = did, ![r].cred = c]

\* The first lookup for a credential: of the issuer, or of the schema's id.
AfterPublicDid(r) == IF req[r].cred.schema = NoSchema THEN "issuer" ELSE "schema_id"

\* Mutant of AssertPublicDid: an empty result is not noticed.
AssertPublicDidHeedless(r) ==
    /\ At(r, "public_did")
    /\ LookUp(r, AfterPublicDid(r), publicDid, req[r].cred)
    /\ OnlyAsks

AssertPublicDid(r) ==
    /\ At(r, "public_did")
    /\ IF publicDid = NoDid THEN Stop(r)
       ELSE LookUp(r, AfterPublicDid(r), publicDid, req[r].cred)
    /\ OnlyAsks

\* schema_id_from_credential_definition_id.  What it finds never changes, so
\* its cache only saves calls.
GetSchemaId(r) ==
    /\ At(r, "schema_id")
    /\ Goto(r, "issuer")
    /\ OnlyAsks

\* Mutant of GetRecord: the schema of the record is not passed on.
GetRecordWithoutSchema(r) ==
    /\ At(r, "record")
    /\ LET c == cred[req[r].ex] IN LookUp(r, "issuer", c.did, [c EXCEPT !.schema = NoSchema])
    /\ OnlyAsks

\* request_credential reads the record, for the issuer's DID and the schema.  A
\* record of an exchange that has an offer has both.
GetRecord(r) ==
    /\ At(r, "record")
    /\ LET e == req[r].ex
       IN IF record[<<"holder", e>>] = "removed" THEN Stop(r)
          ELSE LookUp(r, "issuer", cred[e].did, cred[e])
    /\ OnlyAsks

AfterIssuer(r) == IF req[r].cred.schema = NoSchema THEN "call" ELSE "schema"

\* Mutant of LookupIssuer: the DID that the offer names is asked about, which need
\* not be the one the wallet makes public.
LookupIssuerOfOffer(r) ==
    /\ At(r, "issuer")
    /\ IF req[r].cred.did \in issuers THEN Goto(r, AfterIssuer(r)) ELSE Stop(r)
    /\ OnlyAsks

\* assert_valid_issuer, by fetch_actor_by_did.  An actor without the role is
\* refused like no actor.
LookupIssuer(r) ==
    /\ At(r, "issuer")
    /\ IF req[r].did \in issuers THEN Goto(r, AfterIssuer(r)) ELSE Stop(r)
    /\ OnlyAsks

\* Its second half, by registry_has_schema, which takes no answer for a schema.
LookupSchema(r) ==
    /\ At(r, "schema")
    /\ LET schema == req[r].cred.schema
       IN \/ IF schema \in schemas THEN Goto(r, "call") ELSE Stop(r)
          \/ req' = [req EXCEPT ![r].pc = "call",
                                ![r].seen = @ \cup {<<"unanswered", schema>>}]
    /\ OnlyAsks

\* What the registry has to say of a credential c, as far as it answered: the
\* holder asks about the issuer that the offer names, the issuer about the DID that
\* its own wallet makes public.
SchemaHeld(c, facts) ==
    \/ c.schema = NoSchema
    \/ <<"schema", c.schema>> \in facts \/ <<"unanswered", c.schema>> \in facts

Licensed(side, c, facts) ==
    /\ SchemaHeld(c, facts)
    /\ IF side = "holder" THEN <<"issuer", c.did>> \in facts
       ELSE \E d \in Dids : <<"public", d>> \in facts /\ <<"issuer", d>> \in facts

\* The request moves the record of its side, for credential c, to state st.  What
\* it asks for the record is used only here.
Move(r, e, c, st) ==
    LET x == <<SideOf(r), e>>
    IN \E k \in Keeps :
        /\ record' = [record EXCEPT ![x] = st]
        /\ autoRemove' = IF AutoRemove(k) THEN autoRemove \cup {x} ELSE autoRemove \ {x}
        /\ asked' = [asked EXCEPT ![x] = k]
        /\ vouched' = IF Licensed(SideOf(r), c, req[r].seen) THEN vouched \cup {x}
                      ELSE vouched

\* What the agent's calls leave alone.
Outside == UNCHANGED <<registry, changes>>

\* The issuer's agent makes a new exchange, and its offer with it.
Offer(r, e) ==
    /\ Unused(e)
    /\ Move(r, e, req[r].cred, "offer-sent")
    /\ cred' = [cred EXCEPT ![e] = req[r].cred]
    /\ Stop(r)

\* issue_credential_automated: the offer goes to the connection.
SendCredential(r) ==
    /\ At(r, "call") /\ Op(r) = "send"
    /\ \E e \in Exchanges : Offer(r, e) /\ mail' = mail \cup {<<"offer", e>>}
    /\ Outside /\ UNCHANGED held

\* create_offer: the offer waits for an invitation (AcceptInvitation).
CreateOffer(r) ==
    /\ At(r, "call") /\ Op(r) = "create"
    /\ \E e \in Exchanges : Offer(r, e)
    /\ Outside /\ UNCHANGED <<mail, held>>

\* The agent takes a request for a record that has an offer, once.
RequestCredential(r) ==
    /\ At(r, "call") /\ Op(r) = "request"
    /\ LET e == req[r].ex
       IN IF record[<<"holder", e>>] = "offer-received"
          THEN /\ Move(r, e, cred[e], "request-sent")
               /\ mail' = mail \cup {<<"request", e>>}
               /\ UNCHANGED <<cred, held>>
          ELSE UNCHANGED exchanges
    /\ Stop(r)
    /\ Outside

\* A call fails without an effect, the registry or the agent answers with an error,
\* fetch_actor_by_did has no answer to look at, or the replica dies.
Fails(r) ==
    /\ req[r].pc \in Working
    /\ Stop(r)
    /\ UNCHANGED <<registry, exchanges, changes>>

-----------------------------------------------------------------------------
(* Handlers of one call of the agent, the agents, and who changes the      *)
(* registry.                                                               *)

\* What these leave alone.
Inside == UNCHANGED <<registry, req, changes>>

\* The holder's agent puts the credential into the wallet, by itself
\* (ACAPY_AUTO_STORE_CREDENTIAL) or because the holder asks for it.
StoreCredential(e) ==
    /\ record[<<"holder", e>>] = "credential-received"
    /\ Complete("holder", e)
    /\ held' = held \cup {e}
    /\ mail' = mail \cup {<<"ack", e>>}
    /\ UNCHANGED <<cred, autoRemove, vouched, asked>>
    /\ Inside

\* A tenant deletes a record of its own.
DeleteRecord(side, e) ==
    /\ record[<<side, e>>] \notin {"none", "elsewhere", "removed"}
    /\ Put(side, e, "removed")
    /\ UNCHANGED <<cred, autoRemove, mail, held, vouched, asked>>
    /\ Inside

Take(kind, e) == <<kind, e>> \in mail

\* An issuer that is not a tenant offers a credential.
ForeignOffer(e, c) ==
    /\ Unused(e)
    /\ Put("issuer", e, "elsewhere")
    /\ cred' = [cred EXCEPT ![e] = c]
    /\ mail' = mail \cup {<<"offer", e>>}
    /\ UNCHANGED <<autoRemove, held, vouched, asked>>
    /\ Inside

\* The holder gets an offer out of band.
AcceptInvitation(e) ==
    /\ record[<<"issuer", e>>] = "offer-sent" /\ record[<<"holder", e>>] = "none"
    /\ mail' = mail \cup {<<"offer", e>>}
    /\ UNCHANGED <<cred, record, autoRemove, held, vouched, asked>>
    /\ Inside

ReceiveOffer(e) ==
    /\ Take("offer", e)
    /\ IF record[<<"holder", e>>] = "none" THEN Put("holder", e, "offer-received")
       ELSE UNCHANGED record
    /\ mail' = mail \ {<<"offer", e>>}
    /\ UNCHANGED <<cred, autoRemove, held, vouched, asked>>
    /\ Inside

\* The issuer's agent answers a request by itself.  A record that is gone knows
\* nothing of it.
IssueCredential(e) ==
    /\ Take("request", e)
    /\ LET state == record[<<"issuer", e>>]
       IN /\ IF state = "offer-sent" THEN Put("issuer", e, "credential-issued")
             ELSE UNCHANGED record
          /\ mail' = (mail \ {<<"request", e>>})
                \cup IF state \in {"offer-sent", "elsewhere"} THEN {<<"credential", e>>} ELSE {}
    /\ UNCHANGED <<cred, autoRemove, held, vouched, asked>>
    /\ Inside

ReceiveCredential(e) ==
    /\ Take("credential", e)
    /\ IF record[<<"holder", e>>] = "request-sent" THEN Put("holder", e, "credential-received")
       ELSE UNCHANGED record
    /\ mail' = mail \ {<<"credential", e>>}
    /\ UNCHANGED <<cred, autoRemove, held, vouched, asked>>
    /\ Inside

ReceiveAck(e) ==
    /\ Take("ack", e)
    /\ IF record[<<"issuer", e>>] = "credential-issued" THEN Complete("issuer", e)
       ELSE UNCHANGED record
    /\ mail' = mail \ {<<"ack", e>>}
    /\ UNCHANGED <<cred, autoRemove, held, vouched, asked>>
    /\ Inside

\* An operator registers or removes an issuer or a schema, or the wallet gets
\* another public DID.  What holds now holds during every request at work.
Operate ==
    /\ changes < MaxChanges
    /\ changes' = changes + 1
    /\ \/ \E d \in Dids : issuers' \in {issuers \cup {d}, issuers \ {d}}
          /\ UNCHANGED <<schemas, publicDid>>
       \/ \E s \in Schemas : schemas' \in {schemas \cup {s}, schemas \ {s}}
          /\ UNCHANGED <<issuers, publicDid>>
       \/ publicDid' \in Dids /\ UNCHANGED <<issuers, schemas>>
    /\ req' = [r \in Requests |->
                IF req[r].pc \in Working THEN [req[r] EXCEPT !.seen = @ \cup Holds']
                ELSE req[r]]
    /\ UNCHANGED <<exchanges>>

-----------------------------------------------------------------------------
Handle(r) ==
    \/ Receive(r) \/ AssertPublicDid(r) \/ GetSchemaId(r) \/ GetRecord(r)
    \/ LookupIssuer(r) \/ LookupSchema(r)
    \/ SendCredential(r) \/ CreateOffer(r) \/ RequestCredential(r)
    \/ Fails(r)

Agents(e) ==
    \/ \E c \in Credentials : ForeignOffer(e, c)
    \/ AcceptInvitation(e) \/ ReceiveOffer(e) \/ IssueCredential(e)
    \/ ReceiveCredential(e) \/ StoreCredential(e) \/ ReceiveAck(e)

Next ==
    \/ \E r \in Requests : Handle(r)
    \/ \E e \in Exchanges : Agents(e) \/ \E side \in Sides : DeleteRecord(side, e)
    \/ Operate

Spec == Init /\ [][Next]_vars

-----------------------------------------------------------------------------
(* Properties.                                                             *)

\* An exchange that a tenant offers is "allowed to issue according to trust registry
\* rules" (issuer.py:93): during its request one DID was both the wallet's public
\* DID and that of a registered issuer, and the schema was registered, whatever
\* changed between the calls.
OffersVouched ==
    \A e \in Exchanges :
        record[<<"issuer", e>>] \notin {"none", "elsewhere"} => <<"issuer", e>> \in vouched

\* A wallet holds only credentials that a request accepted while their issuer, and
\* their schema, were registered, though the issuer may be no tenant, the exchange
\* may be deleted on either side and messages may be late.
HeldVouched == \A e \in held : <<"holder", e>> \in vouched

\* "None uses wallet default ..., true forces save, false forces delete"
\* (save_exchange_record.py:7).
Saves(k) == k = "save" \/ (k = "default" /\ Preserve)

\* The record of each side comes to the end that the side's own request asked for
\* when it moved the record, whatever the other side asked and whichever of them
\* comes to its end first, unless the side deletes it.
RecordsEndAsAsked ==
    [][\A x \in Records : record'[x] # record[x] =>
        /\ record'[x] = "done" => Saves(asked[x])
        /\ record'[x] = "removed" =>
            ~ Saves(asked[x]) \/ DeleteRecord(x[1], x[2])]_vars

=============================================================================

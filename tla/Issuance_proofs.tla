--------------------------- MODULE Issuance_proofs ---------------------------
(***************************************************************************)
(* Proofs about Issuance for every set of DIDs, schemas, exchanges and     *)
(* requests, and every bound of the changes.                               *)
(***************************************************************************)
EXTENDS Issuance, TLAPS

\* What a handler has asked the registry and its wallet was true meanwhile.
Asked(R) ==
    /\ R.pc = "record" => R.op = "request"
    /\ R.pc \in {"public_did", "schema_id"} => R.op # "request"
    /\ R.pc # "idle" /\ R.op # "request" => R.cred \in Credentials
    /\ R.pc \in {"schema_id", "issuer", "schema", "call"} => R.did \in Dids
    /\ R.pc \in {"schema_id", "issuer", "schema", "call"} /\ R.op # "request" =>
        <<"public", R.did>> \in R.seen
    /\ R.pc \in {"schema", "call"} => <<"issuer", R.did>> \in R.seen
    /\ R.pc = "schema" => R.cred.schema \in Schemas
    /\ R.pc = "call" => SchemaHeld(R.cred, R.seen)

\* A holder's handler is about an offer that its wallet has.
Accepts(R) ==
    R.pc # "idle" /\ R.op = "request" =>
        /\ R.ex \in Exchanges /\ record[<<"holder", R.ex>>] # "none"
        /\ R.pc # "record" => R.cred = cred[R.ex] /\ R.did = R.cred.did

\* The history misses nothing.
Remembers(R) == R.pc \in Working => Holds \subseteq R.seen

Sound(R) == Asked(R) /\ Accepts(R) /\ Remembers(R)

\* Whatever the holder has heard of was offered by somebody.
Offered(e) ==
    /\ record[<<"issuer", e>>] # "none" => cred[e] \in Credentials
    /\ record[<<"issuer", e>>] = "none" =>
        record[<<"holder", e>>] = "none" /\ \A m \in mail : m[2] # e

\* States of a record that its own request has moved and that has not ended.
Moved == {"offer-sent", "credential-issued", "request-sent", "credential-received"}

HolderVouched ==
    \A e \in Exchanges :
        record[<<"holder", e>>] \in {"request-sent", "credential-received"} =>
            <<"holder", e>> \in vouched

RemovedAsAsked ==
    \A x \in Records : record[x] \in Moved => (x \in autoRemove <=> ~ Saves(asked[x]))

ExchangesSound ==
    /\ \A e \in Exchanges : Offered(e)
    /\ OffersVouched /\ HolderVouched /\ HeldVouched /\ RemovedAsAsked

IInv == TypeOK /\ ExchangesSound /\ \A r \in Requests : Sound(req[r])

-----------------------------------------------------------------------------
(* Requests.                                                               *)

LEMMA IdleIsSound == Idle \in Request /\ Sound(Idle)
BY DEF Idle, Request, Ops, NoCredential, Facts, Sound, Asked, Accepts, Remembers, Working

\* A step of one handler that touches nothing else, to a sound state of it.
LEMMA Asks ==
    ASSUME IInv, NEW r \in Requests, NEW R \in Request, Sound(R),
           R.pc \in {"schema_id", "issuer", "schema"} => R.did \in Dids /\ R.cred \in Credentials,
           req' = [req EXCEPT ![r] = R], UNCHANGED <<registry, exchanges, changes>>
    PROVE  IInv'
<1> USE DEF registry, exchanges
<1>1. \A q \in Requests : req'[q] = IF q = r THEN R ELSE req[q]
  BY DEF IInv, TypeOK
<1>2. TypeOK'
  BY <1>1 DEF IInv, TypeOK
<1>3. ExchangesSound'
  BY DEF IInv, ExchangesSound, Offered, OffersVouched, HolderVouched, HeldVouched,
         RemovedAsAsked
<1>4. \A q \in Requests : Sound(req'[q])
  BY <1>1 DEF IInv
<1>5. \A q \in Requests : Sound(req[q])'
  BY <1>4 DEF Sound, Asked, Accepts, Remembers, Holds, SchemaHeld
<1> QED BY <1>2, <1>3, <1>5 DEF IInv

\* What happens to exchanges takes no offer from a holder's handler, and ends at
\* most one of the handlers.
LEMMA Keeping ==
    ASSUME IInv, UNCHANGED registry,
           \A e \in Exchanges : record[<<"holder", e>>] # "none" =>
                record'[<<"holder", e>>] # "none" /\ cred'[e] = cred[e],
           \A q \in Requests : req'[q] = req[q] \/ req'[q] = Idle
    PROVE  \A q \in Requests : Sound(req[q])'
<1> SUFFICES ASSUME NEW q \in Requests PROVE Sound(req[q])'
  OBVIOUS
<1>1. Sound(req[q]) /\ Sound(Idle)
  BY IdleIsSound DEF IInv
<1>2. Sound(req'[q])
  BY <1>1
<1>3. Asked(req[q])' /\ Remembers(req[q])'
  BY <1>2 DEF Sound, Asked, Remembers, Holds, SchemaHeld, registry
<1>4. Accepts(req[q])'
  BY <1>2 DEF Sound, Accepts
<1> QED BY <1>3, <1>4 DEF Sound

\* The steps of a handler up to its call.
LEMMA AskingSteps ==
    ASSUME IInv, NEW r \in Requests,
           \/ Receive(r) \/ AssertPublicDid(r) \/ GetSchemaId(r) \/ GetRecord(r)
           \/ LookupIssuer(r) \/ LookupSchema(r) \/ Fails(r)
    PROVE  IInv'
<1>0. /\ req \in [Requests -> Request] /\ req[r] \in Request /\ Sound(req[r])
      /\ req[r].seen \subseteq Facts
  BY DEF IInv, TypeOK, Request
<1>1. Holds \subseteq Facts
  BY DEF IInv, TypeOK, Holds, Facts
<1>2. ASSUME Stop(r), UNCHANGED <<registry, exchanges, changes>> PROVE IInv'
  BY <1>2, IdleIsSound, Asks, Zenon DEF Stop, Idle
<1>3. CASE Receive(r)
  <2>1. ASSUME NEW op \in {"send", "create"}, NEW c \in Credentials,
               req' = [req EXCEPT ![r] = [Idle EXCEPT
                    !.pc = "public_did", !.op = op, !.cred = c, !.seen = Holds]]
        PROVE  IInv'
    <3> DEFINE R == [Idle EXCEPT !.pc = "public_did", !.op = op, !.cred = c, !.seen = Holds]
    <3>1. R \in Request /\ R.pc = "public_did" /\ R.op = op /\ R.cred = c /\ R.seen = Holds
      BY <1>1 DEF Idle, Request, Ops, Working
    <3>2. Sound(R)
      BY <3>1 DEF Sound, Asked, Accepts, Remembers
    <3> QED BY <1>3, <2>1, <3>1, <3>2, Asks DEF Receive
  <2>2. ASSUME NEW e \in Exchanges, record[<<"holder", e>>] # "none",
               req' = [req EXCEPT ![r] = [Idle EXCEPT
                    !.pc = "record", !.op = "request", !.ex = e, !.seen = Holds]]
        PROVE  IInv'
    <3> DEFINE R == [Idle EXCEPT !.pc = "record", !.op = "request", !.ex = e, !.seen = Holds]
    <3>1. R \in Request /\ R.pc = "record" /\ R.op = "request" /\ R.ex = e /\ R.seen = Holds
      BY <1>1 DEF Idle, Request, Ops, Working, NoCredential
    <3>2. Sound(R)
      BY <2>2, <3>1 DEF Sound, Asked, Accepts, Remembers
    <3> QED BY <1>3, <2>2, <3>1, <3>2, Asks DEF Receive
  <2> QED BY <1>3, <2>1, <2>2 DEF Receive
<1>4. CASE AssertPublicDid(r)
  <2>1. CASE publicDid = NoDid
    BY <1>2, <1>4, <2>1 DEF AssertPublicDid, OnlyAsks
  <2>2. CASE publicDid # NoDid
    <3> DEFINE R == [req[r] EXCEPT !.pc = AfterPublicDid(r), !.did = publicDid,
                                   !.cred = req[r].cred]
    <3>1. req[r].pc = "public_did" /\ req[r].op # "request" /\ req[r].cred \in Credentials
      BY <1>0, <1>4 DEF AssertPublicDid, At, Sound, Asked
    <3>2. /\ R \in Request /\ R.pc \in {"issuer", "schema_id"} /\ R.did = publicDid
          /\ R.op = req[r].op /\ R.cred = req[r].cred /\ R.seen = req[r].seen
          /\ publicDid \in Dids
      BY <1>0, <2>2 DEF Request, AfterPublicDid, IInv, TypeOK, Working
    <3>3. Holds \subseteq req[r].seen
      BY <1>0, <3>1 DEF Sound, Remembers, Working
    <3>4. <<"public", R.did>> \in R.seen
      BY <3>2, <3>3 DEF Holds
    <3>5. Sound(R)
      BY <3>1, <3>2, <3>3, <3>4 DEF Sound, Asked, Accepts, Remembers
    <3>6. req' = [req EXCEPT ![r] = R]
      BY <1>4, <2>2 DEF AssertPublicDid, LookUp
    <3> QED BY <1>4, <3>1, <3>2, <3>5, <3>6, Asks DEF AssertPublicDid, OnlyAsks
  <2> QED BY <2>1, <2>2
<1>5. CASE GetSchemaId(r)
  <2> DEFINE R == [req[r] EXCEPT !.pc = "issuer"]
  <2>1. /\ R \in Request /\ R.pc = "issuer" /\ R.op = req[r].op /\ R.ex = req[r].ex
        /\ R.did = req[r].did /\ R.cred = req[r].cred /\ R.seen = req[r].seen
        /\ req[r].pc = "schema_id"
    BY <1>0, <1>5 DEF Request, Working, GetSchemaId, At
  <2>2. R.did \in Dids /\ R.cred \in Credentials
    BY <2>1 DEF IInv, TypeOK
  <2>3. Sound(R)
    BY <1>0, <2>1, <2>2 DEF Sound, Asked, Accepts, Remembers, Working
  <2> QED BY <1>5, <2>1, <2>2, <2>3, Asks DEF GetSchemaId, Goto, OnlyAsks
<1>6. CASE GetRecord(r)
  <2> DEFINE e == req[r].ex
  <2>1. CASE record[<<"holder", e>>] = "removed"
    BY <1>2, <1>6, <2>1 DEF GetRecord, OnlyAsks
  <2>2. CASE record[<<"holder", e>>] # "removed"
    <3> DEFINE R == [req[r] EXCEPT !.pc = "issuer", !.did = cred[e].did, !.cred = cred[e]]
    <3>1. req[r].pc = "record" /\ req[r].op = "request"
      BY <1>0, <1>6 DEF GetRecord, At, Sound, Asked
    <3>2. e \in Exchanges /\ record[<<"holder", e>>] # "none"
      BY <1>0, <3>1 DEF Sound, Accepts
    <3>3. cred[e] \in Credentials /\ cred[e].did \in Dids
      BY <3>2 DEF IInv, ExchangesSound, Offered, Credentials
    <3>4. /\ R \in Request /\ R.pc = "issuer" /\ R.op = "request" /\ R.ex = e
          /\ R.did = cred[e].did /\ R.cred = cred[e] /\ R.seen = req[r].seen
      BY <1>0, <3>1, <3>3 DEF Request, Working
    <3>5. Sound(R)
      BY <1>0, <3>1, <3>2, <3>3, <3>4 DEF Sound, Asked, Accepts, Remembers, Working
    <3>6. req' = [req EXCEPT ![r] = R]
      BY <1>6, <2>2 DEF GetRecord, LookUp
    <3> QED BY <1>6, <3>3, <3>4, <3>5, <3>6, Asks DEF GetRecord, OnlyAsks
  <2> QED BY <2>1, <2>2
<1>7. CASE LookupIssuer(r)
  <2>1. CASE req[r].did \notin issuers
    BY <1>2, <1>7, <2>1 DEF LookupIssuer, OnlyAsks
  <2>2. CASE req[r].did \in issuers
    <3> DEFINE R == [req[r] EXCEPT !.pc = AfterIssuer(r)]
    <3>1. /\ R \in Request /\ R.pc \in {"schema", "call"} /\ R.op = req[r].op
          /\ R.pc = IF req[r].cred.schema = NoSchema THEN "call" ELSE "schema"
          /\ R.ex = req[r].ex /\ R.did = req[r].did /\ R.cred = req[r].cred
          /\ R.seen = req[r].seen /\ req[r].pc = "issuer"
      BY <1>0, <1>7 DEF Request, Working, LookupIssuer, At, AfterIssuer
    <3>2. R.did \in Dids /\ R.cred \in Credentials
      BY <3>1 DEF IInv, TypeOK
    <3>3. <<"issuer", R.did>> \in R.seen
      BY <1>0, <2>2, <3>1 DEF Sound, Remembers, Working, Holds
    <3>4. R.cred.schema = NoSchema \/ R.cred.schema \in Schemas
      BY <3>2 DEF Credentials
    <3>5. Sound(R)
      BY <1>0, <3>1, <3>2, <3>3, <3>4 DEF Sound, Asked, Accepts, Remembers, Working, SchemaHeld
    <3> QED BY <1>7, <2>2, <3>1, <3>2, <3>5, Asks DEF LookupIssuer, Goto, OnlyAsks
  <2> QED BY <2>1, <2>2
<1>8. CASE LookupSchema(r)
  <2> DEFINE s == req[r].cred.schema
             Known   == [req[r] EXCEPT !.pc = "call"]
             Unknown == [req[r] EXCEPT !.pc = "call",
                                       !.seen = @ \cup {<<"unanswered", s>>}]
  <2>1. req[r].pc = "schema" /\ req[r].did \in Dids /\ req[r].cred \in Credentials
    BY <1>8 DEF LookupSchema, At, IInv, TypeOK
  <2>2. CASE req' = [req EXCEPT ![r] = Known] /\ s \in schemas
    <3>1. /\ Known \in Request /\ Known.pc = "call" /\ Known.op = req[r].op
          /\ Known.ex = req[r].ex /\ Known.did = req[r].did /\ Known.cred = req[r].cred
          /\ Known.seen = req[r].seen
      BY <1>0 DEF Request, Working
    <3>2. <<"schema", s>> \in Known.seen
      BY <1>0, <2>1, <2>2, <3>1 DEF Sound, Remembers, Working, Holds
    <3>3. Sound(Known)
      BY <1>0, <2>1, <3>1, <3>2 DEF Sound, Asked, Accepts, Remembers, Working, SchemaHeld
    <3> QED BY <1>8, <2>2, <3>1, <3>3, Asks DEF LookupSchema, OnlyAsks
  <2>3. CASE req' = [req EXCEPT ![r] = Unknown]
    <3>1. s \in Schemas
      BY <1>0, <2>1 DEF Sound, Asked
    <3>2. <<"unanswered", s>> \in Facts
      BY <3>1 DEF Facts
    <3>3. /\ Unknown \in Request /\ Unknown.pc = "call" /\ Unknown.op = req[r].op
          /\ Unknown.ex = req[r].ex /\ Unknown.did = req[r].did
          /\ Unknown.cred = req[r].cred
          /\ Unknown.seen = req[r].seen \cup {<<"unanswered", s>>}
      BY <1>0, <3>2 DEF Request, Working
    <3>4. Sound(Unknown)
      BY <1>0, <2>1, <3>3 DEF Sound, Asked, Accepts, Remembers, Working, SchemaHeld
    <3> QED BY <1>8, <2>3, <3>3, <3>4, Asks DEF LookupSchema, OnlyAsks
  <2>4. CASE Stop(r)
    BY <1>2, <1>8, <2>4 DEF LookupSchema, OnlyAsks
  <2> QED BY <1>8, <2>2, <2>3, <2>4 DEF LookupSchema, Goto
<1>9. CASE Fails(r)
  BY <1>2, <1>9 DEF Fails
<1> QED BY <1>3, <1>4, <1>5, <1>6, <1>7, <1>8, <1>9

-----------------------------------------------------------------------------
(* Exchanges.                                                              *)

\* The two records of an exchange are different records.
LEMMA RecordNames ==
    /\ \A side \in Sides, e \in Exchanges : <<side, e>> \in Records
    /\ \A x \in Records : x = <<x[1], x[2]>> /\ x[1] \in Sides /\ x[2] \in Exchanges
    /\ \A side, e, side2, e2 : <<side, e>> = <<side2, e2>> <=> side = side2 /\ e = e2
    /\ "issuer" # "holder" /\ "issuer" \in Sides /\ "holder" \in Sides
BY DEF Records, Sides

\* News of one exchange, that somebody has offered by then, bears on no other.
LEMMA StillOffered ==
    ASSUME \A f \in Exchanges : Offered(f), NEW e \in Exchanges,
           \A m \in mail' : m \in mail \/ m[2] = e,
           \A f \in Exchanges : f # e =>
                /\ record'[<<"issuer", f>>] = record[<<"issuer", f>>]
                /\ record'[<<"holder", f>>] = record[<<"holder", f>>]
                /\ cred'[f] = cred[f],
           record'[<<"issuer", e>>] # "none", cred'[e] \in Credentials
    PROVE  \A f \in Exchanges : Offered(f)'
<1> TAKE f \in Exchanges
<1>1. CASE f = e
  BY <1>1 DEF Offered
<1>2. CASE f # e
  BY <1>2 DEF Offered
<1> QED BY <1>1, <1>2

\* An offer of a tenant: its record, its credential and perhaps its message.
LEMMA OfferStep ==
    ASSUME IInv, NEW r \in Requests, At(r, "call"), Op(r) # "request",
           NEW e \in Exchanges, Offer(r, e),
           mail' = mail \/ mail' = mail \cup {<<"offer", e>>},
           UNCHANGED <<registry, changes, held>>
    PROVE  IInv'
<1> DEFINE x == <<"issuer", e>>
<1>0. req[r] \in Request /\ Sound(req[r]) /\ SideOf(r) = "issuer" /\ x \in Records
  BY RecordNames DEF IInv, TypeOK, SideOf
<1>1. PICK k \in Keeps :
        /\ record' = [record EXCEPT ![x] = "offer-sent"]
        /\ autoRemove' = IF AutoRemove(k) THEN autoRemove \cup {x} ELSE autoRemove \ {x}
        /\ asked' = [asked EXCEPT ![x] = k]
        /\ vouched' = IF Licensed("issuer", req[r].cred, req[r].seen) THEN vouched \cup {x}
                      ELSE vouched
  BY <1>0 DEF Offer, Move
<1>2. req[r].cred \in Credentials /\ req[r].did \in Dids
      /\ <<"public", req[r].did>> \in req[r].seen /\ <<"issuer", req[r].did>> \in req[r].seen
      /\ SchemaHeld(req[r].cred, req[r].seen)
  BY <1>0 DEF Sound, Asked, At, Op
<1>3. vouched' = vouched \cup {x}
  BY <1>1, <1>2 DEF Licensed
<1>4. record[x] = "none" /\ record[<<"holder", e>>] = "none" /\ \A m \in mail : m[2] # e
  BY DEF IInv, ExchangesSound, Offered, Offer, Unused
<1>5. /\ cred' = [cred EXCEPT ![e] = req[r].cred]
      /\ req' = [req EXCEPT ![r] = Idle]
  BY DEF Offer, Stop
<1>6. TypeOK'
  BY <1>0, <1>1, <1>2, <1>3, <1>5, IdleIsSound, RecordNames
     DEF IInv, TypeOK, registry, RecordStates, Messages, Idle
<1>7. /\ \A y \in Records : record'[y] = IF y = x THEN "offer-sent" ELSE record[y]
      /\ \A y \in Records : asked'[y] = IF y = x THEN k ELSE asked[y]
      /\ \A f \in Exchanges : cred'[f] = IF f = e THEN req[r].cred ELSE cred[f]
  BY <1>0, <1>1, <1>5 DEF IInv, TypeOK
<1>8. \A f \in Exchanges : Offered(f)'
  <2>1. \A m \in mail' : m \in mail \/ m[2] = e
    OBVIOUS
  <2>2. record'[x] # "none" /\ cred'[e] \in Credentials
    BY <1>0, <1>2, <1>7
  <2>3. \A f \in Exchanges : f # e =>
            /\ record'[<<"issuer", f>>] = record[<<"issuer", f>>]
            /\ record'[<<"holder", f>>] = record[<<"holder", f>>]
            /\ cred'[f] = cred[f]
    BY <1>7, RecordNames
  <2> QED BY <2>1, <2>2, <2>3, StillOffered DEF IInv, ExchangesSound
<1>9. OffersVouched' /\ HolderVouched' /\ HeldVouched'
  BY <1>3, <1>4, <1>7, RecordNames
     DEF IInv, ExchangesSound, OffersVouched, HolderVouched, HeldVouched
<1>10. x \in autoRemove' <=> ~ Saves(k)
  BY <1>1, IssuanceAssumption DEF AutoRemove, Saves
<1>11. RemovedAsAsked'
  BY <1>1, <1>7, <1>10 DEF IInv, ExchangesSound, RemovedAsAsked, Saves
<1>12. \A q \in Requests : Sound(req[q])'
  BY <1>4, <1>5, <1>7, RecordNames, Keeping DEF IInv, TypeOK
<1> QED BY <1>6, <1>8, <1>9, <1>11, <1>12 DEF IInv, ExchangesSound

\* A holder accepts an offer.
LEMMA RequestStep ==
    ASSUME IInv, NEW r \in Requests, RequestCredential(r)
    PROVE  IInv'
<1> DEFINE e == req[r].ex
           x == <<"holder", e>>
<1>0. /\ req[r] \in Request /\ Sound(req[r]) /\ SideOf(r) = "holder"
      /\ req' = [req EXCEPT ![r] = Idle] /\ UNCHANGED <<registry, changes>>
  BY DEF IInv, TypeOK, SideOf, RequestCredential, Stop, Outside
<1>1. /\ e \in Exchanges /\ record[x] # "none" /\ x \in Records
      /\ req[r].cred = cred[e] /\ req[r].did = cred[e].did
      /\ <<"issuer", req[r].did>> \in req[r].seen /\ SchemaHeld(req[r].cred, req[r].seen)
  BY <1>0, RecordNames DEF Sound, Asked, Accepts, RequestCredential, At, Op
<1>2. CASE record[x] # "offer-received"
  <2>1. UNCHANGED exchanges
    BY <1>2 DEF RequestCredential
  <2> QED BY <1>0, <2>1, IdleIsSound, Asks, Zenon DEF Idle
<1>3. CASE record[x] = "offer-received"
  <2>1. PICK k \in Keeps :
          /\ record' = [record EXCEPT ![x] = "request-sent"]
          /\ autoRemove' = IF AutoRemove(k) THEN autoRemove \cup {x} ELSE autoRemove \ {x}
          /\ asked' = [asked EXCEPT ![x] = k]
          /\ vouched' = IF Licensed("holder", cred[e], req[r].seen) THEN vouched \cup {x}
                        ELSE vouched
    BY <1>0, <1>3 DEF RequestCredential, Move
  <2>2. vouched' = vouched \cup {x}
    BY <1>1, <2>1 DEF Licensed
  <2>3. mail' = mail \cup {<<"request", e>>} /\ UNCHANGED <<cred, held>>
    BY <1>3 DEF RequestCredential
  <2>4. record[<<"issuer", e>>] # "none"
    BY <1>1 DEF IInv, ExchangesSound, Offered
  <2>5. TypeOK'
    BY <1>0, <1>1, <2>1, <2>2, <2>3, IdleIsSound
       DEF IInv, TypeOK, registry, RecordStates, Messages, Idle
  <2>6. /\ \A y \in Records : record'[y] = IF y = x THEN "request-sent" ELSE record[y]
        /\ \A y \in Records : asked'[y] = IF y = x THEN k ELSE asked[y]
    BY <1>1, <2>1 DEF IInv, TypeOK
  <2>7. \A f \in Exchanges : Offered(f)'
    <3>1. \A m \in mail' : m \in mail \/ m[2] = e
      BY <2>3
    <3>2. cred'[e] \in Credentials /\ cred' = cred
      BY <1>1, <2>3, <2>4 DEF IInv, ExchangesSound, Offered
    <3> QED BY <1>1, <2>4, <2>6, <3>1, <3>2, RecordNames, StillOffered
            DEF IInv, ExchangesSound
  <2>8. OffersVouched' /\ HolderVouched' /\ HeldVouched'
    BY <2>2, <2>3, <2>6, RecordNames
       DEF IInv, ExchangesSound, OffersVouched, HolderVouched, HeldVouched
  <2>9. x \in autoRemove' <=> ~ Saves(k)
    BY <2>1, IssuanceAssumption DEF AutoRemove, Saves
  <2>10. RemovedAsAsked'
    BY <2>1, <2>6, <2>9 DEF IInv, ExchangesSound, RemovedAsAsked, Saves
  <2>11. \A q \in Requests : Sound(req[q])'
    BY <1>0, <2>3, <2>6, RecordNames, Keeping DEF IInv, TypeOK
  <2> QED BY <2>5, <2>7, <2>8, <2>10, <2>11 DEF IInv, ExchangesSound
<1> QED BY <1>2, <1>3

\* An agent moves a record that somebody offered to state st, or none, and mail
\* about it comes or goes.
LEMMA AgentStep ==
    ASSUME IInv, Inside, NEW side \in Sides, NEW e \in Exchanges, NEW st \in RecordStates,
           record[<<"issuer", e>>] # "none",
           Put(side, e, st) \/ UNCHANGED record,
           st \in Moved => record[<<side, e>>] \in Moved,
           st \notin {"none", "elsewhere", "request-sent"},
           side = "issuer" => record[<<side, e>>] # "elsewhere",
           \A m \in mail' : m \in mail \/ (m \in Messages /\ m[2] = e),
           UNCHANGED <<cred, autoRemove, vouched, asked>>,
           held' = held \/ (held' = held \cup {e} /\ <<"holder", e>> \in vouched),
           st = "credential-received" => <<"holder", e>> \in vouched
    PROVE  IInv'
<1> DEFINE x == <<side, e>>
<1>0. x \in Records /\ UNCHANGED <<registry, req, changes>>
  BY RecordNames DEF Inside
<1>1. \/ \A y \in Records : record'[y] = IF y = x THEN st ELSE record[y]
      \/ UNCHANGED record
  BY <1>0 DEF IInv, TypeOK, Put
<1>2. TypeOK'
  <2>1. record' \in [Records -> RecordStates]
    BY DEF IInv, TypeOK, Put
  <2>2. mail' \subseteq Messages /\ held' \subseteq Exchanges
    BY DEF IInv, TypeOK, Messages
  <2> QED BY <1>0, <2>1, <2>2 DEF IInv, TypeOK, registry
<1>3. \A f \in Exchanges : Offered(f)'
  <2>1. \A m \in mail' : m \in mail \/ m[2] = e
    OBVIOUS
  <2>2. cred'[e] \in Credentials /\ cred' = cred
    BY DEF IInv, ExchangesSound, Offered
  <2>3. /\ record'[<<"issuer", e>>] # "none"
        /\ \A y \in Records : y # x => record'[y] = record[y]
    BY <1>0, <1>1, RecordNames
  <2>4. \A f \in Exchanges : f # e => <<"issuer", f>> # x /\ <<"holder", f>> # x
    BY RecordNames
  <2> QED BY <2>1, <2>2, <2>3, <2>4, RecordNames, StillOffered DEF IInv, ExchangesSound
<1>4. OffersVouched' /\ HolderVouched' /\ HeldVouched'
  BY <1>1, RecordNames
     DEF IInv, ExchangesSound, OffersVouched, HolderVouched, HeldVouched
<1>5. RemovedAsAsked'
  BY <1>1 DEF IInv, ExchangesSound, RemovedAsAsked, Saves
<1>6. \A q \in Requests : Sound(req[q])'
  BY <1>0, <1>1, RecordNames, Keeping
<1> QED BY <1>2, <1>3, <1>4, <1>5, <1>6 DEF IInv, ExchangesSound

\* The steps of the agents, and of handlers of one call.
LEMMA AgentSteps ==
    ASSUME IInv, NEW e \in Exchanges,
           Agents(e) \/ \E side \in Sides : DeleteRecord(side, e)
    PROVE  IInv'
<1>0. /\ record \in [Records -> RecordStates] /\ mail \subseteq Messages
      /\ \A side \in Sides : record[<<side, e>>] \in RecordStates
      /\ record[<<"issuer", e>>] # "none" => cred[e] \in Credentials
      /\ record[<<"issuer", e>>] = "none" =>
            record[<<"holder", e>>] = "none" /\ \A m \in mail : m[2] # e
      /\ \A kind : Take(kind, e) => record[<<"issuer", e>>] # "none"
  <2>1. record \in [Records -> RecordStates] /\ mail \subseteq Messages /\ Offered(e)
    BY DEF IInv, TypeOK, ExchangesSound
  <2>2. \A kind : <<kind, e>>[2] = e
    OBVIOUS
  <2>3. \A kind : Take(kind, e) => record[<<"issuer", e>>] # "none"
    BY <2>1, <2>2, Zenon DEF Offered, Take
  <2> QED BY <2>1, <2>3, RecordNames DEF Offered
<1>1. ASSUME NEW c \in Credentials, ForeignOffer(e, c) PROVE IInv'
  <2> DEFINE x == <<"issuer", e>>
  <2>1. /\ record' = [record EXCEPT ![x] = "elsewhere"] /\ x \in Records
        /\ cred' = [cred EXCEPT ![e] = c] /\ mail' = mail \cup {<<"offer", e>>}
        /\ record[x] = "none" /\ record[<<"holder", e>>] = "none"
        /\ UNCHANGED <<autoRemove, held, vouched, asked, registry, req, changes>>
    BY <1>0, <1>1, RecordNames DEF ForeignOffer, Put, Unused, Inside
  <2>2. TypeOK'
    BY <2>1 DEF IInv, TypeOK, registry, RecordStates, Messages
  <2>3. /\ \A y \in Records : record'[y] = IF y = x THEN "elsewhere" ELSE record[y]
        /\ \A f \in Exchanges : cred'[f] = IF f = e THEN c ELSE cred[f]
    BY <2>1 DEF IInv, TypeOK
  <2>4. \A f \in Exchanges : Offered(f)'
    <3>1. \A m \in mail' : m \in mail \/ m[2] = e
      BY <2>1
    <3>2. record'[x] # "none" /\ cred'[e] \in Credentials
      BY <2>1, <2>3
    <3>3. \A f \in Exchanges : f # e =>
              /\ record'[<<"issuer", f>>] = record[<<"issuer", f>>]
              /\ record'[<<"holder", f>>] = record[<<"holder", f>>]
              /\ cred'[f] = cred[f]
      BY <2>3, RecordNames
    <3> QED BY <3>1, <3>2, <3>3, StillOffered DEF IInv, ExchangesSound
  <2>5. OffersVouched' /\ HolderVouched' /\ HeldVouched' /\ RemovedAsAsked'
    BY <2>1, <2>3, RecordNames DEF IInv, ExchangesSound, OffersVouched, HolderVouched,
       HeldVouched, RemovedAsAsked, Moved, Saves
  <2>6. \A q \in Requests : Sound(req[q])'
    BY <2>1, <2>3, RecordNames, Keeping
  <2> QED BY <2>2, <2>4, <2>5, <2>6 DEF IInv, ExchangesSound
<1>2. CASE AcceptInvitation(e)
  BY <1>0, <1>2, AgentStep, RecordNames DEF AcceptInvitation, RecordStates, Moved, Messages
<1>3. CASE ReceiveOffer(e)
  <2>1. "offer-received" \in RecordStates /\ "offer-received" \notin Moved
    BY DEF RecordStates, Moved
  <2> QED BY <1>0, <1>3, <2>1, AgentStep, RecordNames DEF ReceiveOffer
<1>4. CASE IssueCredential(e)
  <2>1. CASE record[<<"issuer", e>>] = "offer-sent"
    <3>1. "credential-issued" \in RecordStates /\ record[<<"issuer", e>>] \in Moved
      BY <2>1 DEF RecordStates, Moved
    <3>2. /\ Put("issuer", e, "credential-issued") /\ Inside
          /\ mail' \subseteq mail \cup {<<"credential", e>>}
          /\ UNCHANGED <<cred, autoRemove, held, vouched, asked>>
      BY <1>4, <2>1 DEF IssueCredential
    <3>3. \A m \in mail' : m \in mail \/ (m \in Messages /\ m[2] = e)
      BY <3>2 DEF Messages
    <3>4. /\ cred' = cred /\ autoRemove' = autoRemove /\ held' = held
          /\ vouched' = vouched /\ asked' = asked /\ "issuer" \in Sides
      BY <3>2, RecordNames
    <3> QED BY <2>1, <3>1, <3>2, <3>3, <3>4, AgentStep
  <2>2. CASE record[<<"issuer", e>>] # "offer-sent"
    <3>1. "done" \in RecordStates /\ "done" \notin Moved
      BY DEF RecordStates, Moved
    <3>2. UNCHANGED record /\ Inside /\ UNCHANGED <<cred, autoRemove, held, vouched, asked>>
      BY <1>4, <2>2 DEF IssueCredential
    <3>3. \A m \in mail' : m \in mail \/ (m \in Messages /\ m[2] = e)
      BY <1>4, <2>2 DEF IssueCredential, Messages
    <3>4. record[<<"issuer", e>>] # "none" /\ record[<<"holder", e>>] \in RecordStates
      BY <1>0, <1>4, RecordNames DEF IssueCredential
    <3>5. /\ cred' = cred /\ autoRemove' = autoRemove /\ held' = held
          /\ vouched' = vouched /\ asked' = asked /\ "holder" \in Sides
          /\ Put("holder", e, "done") \/ UNCHANGED record
      BY <3>2, RecordNames
    <3> QED BY <3>1, <3>2, <3>3, <3>4, <3>5, AgentStep
  <2> QED BY <2>1, <2>2
<1>5. CASE ReceiveCredential(e)
  <2>1. CASE record[<<"holder", e>>] = "request-sent"
    <3>1. /\ "credential-received" \in RecordStates /\ record[<<"holder", e>>] \in Moved
          /\ <<"holder", e>> \in vouched
      BY <2>1 DEF RecordStates, Moved, IInv, ExchangesSound, HolderVouched
    <3> QED BY <1>0, <1>5, <2>1, <3>1, AgentStep, RecordNames DEF ReceiveCredential
  <2>2. CASE record[<<"holder", e>>] # "request-sent"
    <3>1. "done" \in RecordStates /\ "done" \notin Moved
      BY DEF RecordStates, Moved
    <3>2. UNCHANGED record
      BY <1>5, <2>2 DEF ReceiveCredential
    <3> QED BY <1>0, <1>5, <3>1, <3>2, AgentStep, RecordNames DEF ReceiveCredential
  <2> QED BY <2>1, <2>2
<1>6. CASE StoreCredential(e)
  <2> DEFINE st == IF <<"holder", e>> \in autoRemove THEN "removed" ELSE "done"
  <2>1. st \in RecordStates /\ st \notin Moved /\ st \in {"removed", "done"}
    BY DEF RecordStates, Moved
  <2>2. <<"holder", e>> \in vouched /\ record[<<"issuer", e>>] # "none"
    BY <1>0, <1>6 DEF StoreCredential, IInv, ExchangesSound, HolderVouched
  <2>3. Put("holder", e, st)
    BY <1>6 DEF StoreCredential, Complete
  <2> QED BY <1>6, <2>1, <2>2, <2>3, AgentStep, RecordNames DEF StoreCredential, Messages
<1>7. CASE ReceiveAck(e)
  <2>1. CASE record[<<"issuer", e>>] = "credential-issued"
    <3> DEFINE st == IF <<"issuer", e>> \in autoRemove THEN "removed" ELSE "done"
    <3>1. st \in RecordStates /\ st \notin Moved /\ st \in {"removed", "done"}
      BY DEF RecordStates, Moved
    <3>2. Put("issuer", e, st)
      BY <1>7, <2>1 DEF ReceiveAck, Complete
    <3> QED BY <1>0, <1>7, <2>1, <3>1, <3>2, AgentStep, RecordNames DEF ReceiveAck
  <2>2. CASE record[<<"issuer", e>>] # "credential-issued"
    <3>1. "done" \in RecordStates /\ "done" \notin Moved
      BY DEF RecordStates, Moved
    <3>2. UNCHANGED record
      BY <1>7, <2>2 DEF ReceiveAck
    <3> QED BY <1>0, <1>7, <3>1, <3>2, AgentStep, RecordNames DEF ReceiveAck
  <2> QED BY <2>1, <2>2
<1>8. ASSUME NEW side \in Sides, DeleteRecord(side, e) PROVE IInv'
  <2>1. /\ "removed" \in RecordStates /\ "removed" \notin Moved
        /\ record[<<"issuer", e>>] # "none" /\ record[<<side, e>>] # "elsewhere"
    BY <1>0, <1>8 DEF RecordStates, Moved, DeleteRecord, Sides
  <2> QED BY <1>8, <2>1, AgentStep DEF DeleteRecord
<1> QED BY <1>1, <1>2, <1>3, <1>4, <1>5, <1>6, <1>7, <1>8 DEF Agents

\* Operators change what holds, and every handler at work lives through it.
LEMMA OperateStep == ASSUME IInv, Operate PROVE IInv'
<1>1. /\ issuers' \subseteq Dids /\ schemas' \subseteq Schemas
      /\ publicDid' \in Dids \cup {NoDid} /\ changes' \in 0..MaxChanges
  BY IssuanceAssumption DEF IInv, TypeOK, Operate
<1>2. Holds' \subseteq Facts
  BY <1>1 DEF Holds, Facts
<1>3. UNCHANGED exchanges
  BY DEF Operate
<1>4. ASSUME NEW q \in Requests
      PROVE  /\ req'[q] \in Request /\ req'[q].pc = req[q].pc /\ req'[q].op = req[q].op
             /\ req'[q].ex = req[q].ex /\ req'[q].cred = req[q].cred
             /\ req'[q].did = req[q].did /\ req[q].seen \subseteq req'[q].seen
             /\ req'[q].pc \in Working => Holds' \subseteq req'[q].seen
  <2>1. req[q] \in Request
    BY DEF IInv, TypeOK
  <2>2. CASE req[q].pc \in Working
    <3>1. req'[q] = [req[q] EXCEPT !.seen = @ \cup Holds']
      BY <2>2 DEF Operate
    <3> QED BY <1>2, <2>1, <3>1 DEF Request
  <2>3. CASE req[q].pc \notin Working
    <3>1. req'[q] = req[q]
      BY <2>3 DEF Operate
    <3> QED BY <2>1, <2>3, <3>1
  <2> QED BY <2>2, <2>3
<1>5. TypeOK'
  <2>1. req' \in [Requests -> Request]
    <3>1. req' = [q \in Requests |-> req'[q]]
      BY DEF Operate
    <3> QED BY <1>4, <3>1
  <2> QED BY <1>1, <1>3, <1>4, <2>1 DEF IInv, TypeOK, exchanges
<1>6. ExchangesSound'
  BY <1>3 DEF IInv, ExchangesSound, Offered, OffersVouched, HolderVouched, HeldVouched,
     RemovedAsAsked, Saves, exchanges
<1>7. ASSUME NEW q \in Requests PROVE Sound(req[q])'
  <2>1. Sound(req[q])
    BY DEF IInv
  <2>2. Asked(req[q])'
    BY <1>4, <2>1 DEF Sound, Asked, SchemaHeld
  <2>3. Accepts(req[q])'
    BY <1>3, <1>4, <2>1 DEF Sound, Accepts, exchanges
  <2>4. Remembers(req[q])'
    BY <1>4 DEF Remembers
  <2> QED BY <2>2, <2>3, <2>4 DEF Sound
<1> QED BY <1>5, <1>6, <1>7 DEF IInv

-----------------------------------------------------------------------------
(* The invariant and its consequences.                                     *)

LEMMA InitInv == Init => IInv
<1> SUFFICES ASSUME Init PROVE IInv
  OBVIOUS
<1>1. TypeOK
  BY IssuanceAssumption, IdleIsSound
     DEF Init, TypeOK, RecordStates, NoCredential, Idle
<1>2. ExchangesSound
  BY RecordNames DEF Init, ExchangesSound, Offered, OffersVouched, HolderVouched, HeldVouched,
     RemovedAsAsked, Moved
<1>3. \A q \in Requests : Sound(req[q])
  BY IdleIsSound DEF Init
<1> QED BY <1>1, <1>2, <1>3 DEF IInv

LEMMA NextInv == IInv /\ [Next]_vars => IInv'
<1> SUFFICES ASSUME IInv, [Next]_vars PROVE IInv'
  OBVIOUS
<1>1. ASSUME NEW r \in Requests, Handle(r) PROVE IInv'
  <2>1. CASE SendCredential(r)
    BY <2>1, OfferStep DEF SendCredential, Outside
  <2>2. CASE CreateOffer(r)
    BY <2>2, OfferStep DEF CreateOffer, Outside
  <2> QED BY <1>1, <2>1, <2>2, RequestStep, AskingSteps DEF Handle
<1>2. ASSUME NEW e \in Exchanges, Agents(e) \/ \E side \in Sides : DeleteRecord(side, e)
      PROVE  IInv'
  BY <1>2, AgentSteps
<1>3. CASE UNCHANGED vars
  <2>1. UNCHANGED <<registry, exchanges, changes, req>>
    BY <1>3 DEF vars, registry, exchanges
  <2>2. TypeOK'
    BY <2>1 DEF IInv, TypeOK, registry, exchanges
  <2>3. ExchangesSound'
    BY <2>1 DEF IInv, ExchangesSound, Offered, OffersVouched, HolderVouched, HeldVouched,
       RemovedAsAsked, Saves, exchanges
  <2>4. \A q \in Requests : Sound(req[q])'
    BY <2>1, Keeping DEF exchanges
  <2> QED BY <2>2, <2>3, <2>4 DEF IInv
<1> QED BY <1>1, <1>2, <1>3, OperateStep DEF Next

LEMMA Invariance == Spec => []IInv
BY InitInv, NextInv, PTL DEF Spec

\* Every variable keeps its type, and no lookup is made without a DID to look up.
THEOREM TypeCorrect == Spec => []TypeOK
<1>1. IInv => TypeOK
  BY DEF IInv
<1> QED BY <1>1, Invariance, PTL

\* An exchange that a tenant offers was licensed during its request.
THEOREM OffersAreVouched == Spec => []OffersVouched
<1>1. IInv => OffersVouched
  BY DEF IInv, ExchangesSound
<1> QED BY <1>1, Invariance, PTL

\* A credential in a wallet was licensed during the request that accepted it.
THEOREM HeldAreVouched == Spec => []HeldVouched
<1>1. IInv => HeldVouched
  BY DEF IInv, ExchangesSound
<1> QED BY <1>1, Invariance, PTL

\* How one step ends records.
Ends ==
    \A x \in Records : record'[x] # record[x] =>
        /\ record'[x] = "done" => Saves(asked[x])
        /\ record'[x] = "removed" => ~ Saves(asked[x]) \/ DeleteRecord(x[1], x[2])

\* A record ends by its own rule.
LEMMA CompleteEnds ==
    ASSUME IInv, NEW side \in Sides, NEW e \in Exchanges, Complete(side, e),
           record[<<side, e>>] \in Moved
    PROVE  Ends
<1> DEFINE y == <<side, e>>
<1>1. /\ y \in Records /\ record \in [Records -> RecordStates]
      /\ y \in autoRemove <=> ~ Saves(asked[y])
  BY RecordNames DEF IInv, TypeOK, ExchangesSound, RemovedAsAsked
<1>2. record' = [record EXCEPT ![y] = IF y \in autoRemove THEN "removed" ELSE "done"]
  BY DEF Complete, Put
<1> QED BY <1>1, <1>2 DEF Ends

\* A step that takes one record to a state that is not an end.
LEMMA MovesOn ==
    ASSUME IInv, NEW y \in Records, NEW st \in RecordStates, st \notin {"done", "removed"},
           record' = [record EXCEPT ![y] = st]
    PROVE  Ends
BY DEF Ends, IInv, TypeOK

LEMMA StepEnds == IInv /\ [Next]_vars => Ends
<1> SUFFICES ASSUME IInv, [Next]_vars PROVE Ends
  OBVIOUS
<1>0. /\ record \in [Records -> RecordStates]
      /\ {"elsewhere", "offer-sent", "offer-received", "request-sent", "credential-issued",
          "credential-received"} \subseteq RecordStates
  BY DEF IInv, TypeOK, RecordStates
<1>1. ASSUME record' = record PROVE Ends
  BY <1>1 DEF Ends
<1>2. ASSUME NEW r \in Requests, Handle(r) PROVE Ends
  <2>1. ASSUME NEW e \in Exchanges, Offer(r, e) PROVE Ends
    <3>1. <<SideOf(r), e>> \in Records
      BY RecordNames DEF SideOf
    <3> QED BY <1>0, <2>1, <3>1, MovesOn DEF Offer, Move
  <2>2. CASE RequestCredential(r)
    <3>1. CASE record[<<"holder", req[r].ex>>] # "offer-received"
      BY <1>1, <2>2, <3>1 DEF RequestCredential, exchanges
    <3>2. CASE record[<<"holder", req[r].ex>>] = "offer-received"
      <4>1. Sound(req[r]) /\ req[r].pc = "call" /\ req[r].op = "request"
        BY <2>2 DEF IInv, RequestCredential, At, Op
      <4>2. <<SideOf(r), req[r].ex>> \in Records
        BY <4>1, RecordNames DEF Sound, Accepts, SideOf
      <4> QED BY <1>0, <2>2, <3>2, <4>2, MovesOn DEF RequestCredential, Move
    <3> QED BY <3>1, <3>2
  <2>3. CASE SendCredential(r) \/ CreateOffer(r)
    BY <2>1, <2>3 DEF SendCredential, CreateOffer
  <2>4. CASE \/ Receive(r) \/ AssertPublicDid(r) \/ GetSchemaId(r) \/ GetRecord(r)
             \/ LookupIssuer(r) \/ LookupSchema(r) \/ Fails(r)
    BY <1>1, <2>4 DEF Receive, AssertPublicDid, GetSchemaId, GetRecord, LookupIssuer,
       LookupSchema, Fails, OnlyAsks, exchanges
  <2> QED BY <1>2, <2>2, <2>3, <2>4 DEF Handle
<1>3. ASSUME NEW e \in Exchanges, Agents(e) PROVE Ends
  <2>0. <<"issuer", e>> \in Records /\ <<"holder", e>> \in Records
    BY RecordNames
  <2>1. ASSUME NEW c \in Credentials, ForeignOffer(e, c) PROVE Ends
    BY <1>0, <2>0, <2>1, MovesOn DEF ForeignOffer, Put
  <2>2. CASE AcceptInvitation(e)
    BY <1>1, <2>2 DEF AcceptInvitation
  <2>3. CASE ReceiveOffer(e)
    BY <1>0, <1>1, <2>0, <2>3, MovesOn DEF ReceiveOffer, Put
  <2>4. CASE IssueCredential(e)
    BY <1>0, <1>1, <2>0, <2>4, MovesOn DEF IssueCredential, Put
  <2>5. CASE ReceiveCredential(e)
    BY <1>0, <1>1, <2>0, <2>5, MovesOn DEF ReceiveCredential, Put
  <2>6. CASE StoreCredential(e)
    BY <2>6, CompleteEnds, RecordNames DEF StoreCredential, Moved
  <2>7. CASE ReceiveAck(e)
    BY <1>1, <2>7, CompleteEnds, RecordNames DEF ReceiveAck, Moved
  <2> QED BY <1>3, <2>1, <2>2, <2>3, <2>4, <2>5, <2>6, <2>7 DEF Agents
<1>4. ASSUME NEW e \in Exchanges, NEW side \in Sides, DeleteRecord(side, e) PROVE Ends
  <2> DEFINE y == <<side, e>>
  <2>1. y \in Records /\ y[1] = side /\ y[2] = e /\ record' = [record EXCEPT ![y] = "removed"]
    BY <1>4, RecordNames DEF DeleteRecord, Put
  <2>2. \A x \in Records : record'[x] = IF x = y THEN "removed" ELSE record[x]
    BY <1>0, <2>1
  <2>3. DeleteRecord(y[1], y[2])
    BY <1>4, <2>1
  <2> QED BY <2>2, <2>3 DEF Ends
<1>5. CASE UNCHANGED vars
  BY <1>1, <1>5 DEF vars
<1>6. CASE Operate
  BY <1>1, <1>6 DEF Operate, exchanges
<1> QED BY <1>2, <1>3, <1>4, <1>5, <1>6 DEF Next

\* Records end as their own side asked.
THEOREM RecordsEnd == Spec => RecordsEndAsAsked
BY Invariance, StepEnds, PTL DEF Spec, RecordsEndAsAsked, Ends

-----------------------------------------------------------------------------
(* An exchange runs once.                                                  *)

\* How far a record has come.
Stage(s) ==
    CASE s = "none" -> 0
      [] s \in {"elsewhere", "offer-sent", "offer-received"} -> 1
      [] s \in {"request-sent", "credential-issued"} -> 2
      [] s = "credential-received" -> 3
      [] s = "done" -> 4
      [] OTHER -> 5

\* How records go on.
Onward == \A x \in Records : record'[x] # record[x] => Stage(record'[x]) > Stage(record[x])

\* What was offered stays what it is, and a wallet keeps what it has.
Kept ==
    /\ \A e \in Exchanges : record[<<"issuer", e>>] # "none" => cred'[e] = cred[e]
    /\ held \subseteq held'

\* What the messages of an exchange are sent with.
Sent ==
    \A e \in Exchanges :
        LET holder == <<"holder", e>>
            issuer == <<"issuer", e>>
        IN /\ <<"request", e>> \in mail' \ mail =>
                record[holder] = "offer-received" /\ record'[holder] = "request-sent"
           /\ <<"credential", e>> \in mail' \ mail =>
                \/ record[issuer] = "elsewhere"
                \/ record[issuer] = "offer-sent" /\ record'[issuer] = "credential-issued"
           /\ e \in held' \ held =>
                /\ record[holder] = "credential-received"
                /\ record'[holder] \in {"done", "removed"}

\* No record ever goes back, and the credential that the holder asks the registry
\* about never changes under it.  So a wallet requests and stores the credential of an
\* exchange at most once, a tenant issues it at most once, and what is stored is what
\* the request of the holder (request_credential) was about.
ExchangesRunOnce == [][Onward /\ Kept /\ Sent]_vars

RunsOn == Onward /\ Kept /\ Sent

\* A step that takes one record further.
LEMMA GoesOn ==
    ASSUME IInv, NEW y \in Records, NEW st, Stage(st) > Stage(record[y]),
           record' = [record EXCEPT ![y] = st]
    PROVE  Onward /\ record'[y] = st
BY DEF Onward, IInv, TypeOK

\* A step that brings neither a message nor a credential.
LEMMA Silent ==
    ASSUME Onward, cred' = cred, held' = held,
           \A e \in Exchanges : {<<"request", e>>, <<"credential", e>>} \cap mail' \subseteq mail
    PROVE  RunsOn
BY DEF RunsOn, Kept, Sent

LEMMA StandsStill == ASSUME record' = record PROVE Onward
BY DEF Onward

\* An offer is made where there was none.
LEMMA OfferRunsOn ==
    ASSUME IInv, NEW e \in Exchanges, NEW st, NEW c, Unused(e),
           st \in {"offer-sent", "elsewhere"},
           record' = [record EXCEPT ![<<"issuer", e>>] = st],
           cred' = [cred EXCEPT ![e] = c],
           mail' = mail \/ mail' = mail \cup {<<"offer", e>>}, held' = held
    PROVE  RunsOn
<1>1. Onward
  <2>1. Stage(st) > Stage(record[<<"issuer", e>>])
    BY DEF Stage, Unused
  <2> QED BY <2>1, GoesOn, RecordNames
<1>2. Kept
  BY DEF Kept, Unused, IInv, TypeOK
<1>3. Sent
  BY DEF Sent
<1> QED BY <1>1, <1>2, <1>3 DEF RunsOn

LEMMA HandlerRunsOn == ASSUME IInv, NEW r \in Requests, Handle(r) PROVE RunsOn
<1>1. CASE \/ Receive(r) \/ AssertPublicDid(r) \/ GetSchemaId(r) \/ GetRecord(r)
           \/ LookupIssuer(r) \/ LookupSchema(r) \/ Fails(r)
  <2>1. UNCHANGED exchanges
    BY <1>1 DEF Receive, AssertPublicDid, GetSchemaId, GetRecord, LookupIssuer,
       LookupSchema, Fails, OnlyAsks
  <2> QED BY <2>1, StandsStill, Silent DEF exchanges
<1>2. ASSUME NEW e \in Exchanges, Offer(r, e), Op(r) # "request", UNCHANGED held,
             mail' = mail \/ mail' = mail \cup {<<"offer", e>>}
      PROVE  RunsOn
  <2>1. /\ Unused(e) /\ cred' = [cred EXCEPT ![e] = req[r].cred]
        /\ record' = [record EXCEPT ![<<"issuer", e>>] = "offer-sent"]
    BY <1>2 DEF Offer, Move, SideOf
  <2> QED BY <1>2, <2>1, OfferRunsOn
<1>3. CASE SendCredential(r) \/ CreateOffer(r)
  BY <1>2, <1>3 DEF SendCredential, CreateOffer
<1>4. CASE RequestCredential(r)
  <2> DEFINE e == req[r].ex
  <2>1. CASE record[<<"holder", e>>] # "offer-received"
    <3>1. UNCHANGED exchanges
      BY <1>4, <2>1 DEF RequestCredential
    <3> QED BY <3>1, StandsStill, Silent DEF exchanges
  <2>2. CASE record[<<"holder", e>>] = "offer-received"
    <3>1. /\ record' = [record EXCEPT ![<<"holder", e>>] = "request-sent"]
          /\ mail' = mail \cup {<<"request", e>>} /\ cred' = cred /\ held' = held
      BY <1>4, <2>2 DEF RequestCredential, Move, SideOf
    <3>2. e \in Exchanges /\ <<"holder", e>> \in Records
      <4>1. Sound(req[r]) /\ req[r].pc = "call" /\ req[r].op = "request"
        BY <1>4 DEF IInv, RequestCredential, At, Op
      <4> QED BY <4>1, RecordNames DEF Sound, Accepts
    <3>3. Stage("request-sent") > Stage(record[<<"holder", e>>])
      BY <2>2 DEF Stage
    <3>4. Onward /\ record'[<<"holder", e>>] = "request-sent"
      BY <3>1, <3>2, <3>3, GoesOn
    <3>5. Kept
      BY <3>1 DEF Kept
    <3>6. Sent
      BY <2>2, <3>1, <3>4 DEF Sent
    <3> QED BY <3>4, <3>5, <3>6 DEF RunsOn
  <2> QED BY <2>1, <2>2
<1> QED BY <1>1, <1>3, <1>4 DEF Handle

LEMMA AgentRunsOn == ASSUME IInv, NEW e \in Exchanges, Agents(e) PROVE RunsOn
<1> DEFINE issuer == <<"issuer", e>>
           holder == <<"holder", e>>
<1>0. issuer \in Records /\ holder \in Records
  BY RecordNames
<1>1. ASSUME NEW c \in Credentials, ForeignOffer(e, c) PROVE RunsOn
  BY <1>1, OfferRunsOn DEF ForeignOffer, Put
<1>2. CASE AcceptInvitation(e)
  BY <1>2, StandsStill, Silent DEF AcceptInvitation
<1>3. CASE ReceiveOffer(e)
  <2>1. Onward
    <3>1. CASE record[holder] = "none"
      <4>1. Stage("offer-received") > Stage(record[holder])
        BY <3>1 DEF Stage
      <4> QED BY <1>0, <1>3, <3>1, <4>1, GoesOn DEF ReceiveOffer, Put
    <3> QED BY <1>3, <3>1, StandsStill DEF ReceiveOffer
  <2> QED BY <1>3, <2>1, Silent DEF ReceiveOffer
<1>4. CASE IssueCredential(e)
  <2>1. cred' = cred /\ held' = held
    BY <1>4 DEF IssueCredential
  <2>2. CASE record[issuer] = "offer-sent"
    <3>1. Stage("credential-issued") > Stage(record[issuer])
      BY <2>2 DEF Stage
    <3>2. Onward /\ record'[issuer] = "credential-issued"
      BY <1>0, <1>4, <2>2, <3>1, GoesOn DEF IssueCredential, Put
    <3>3. Sent
      BY <1>4, <2>1, <2>2, <3>2 DEF Sent, IssueCredential
    <3> QED BY <2>1, <3>2, <3>3 DEF RunsOn, Kept
  <2>3. CASE record[issuer] # "offer-sent"
    <3>1. Onward
      BY <1>4, <2>3, StandsStill DEF IssueCredential
    <3>2. Sent
      BY <1>4, <2>1, <2>3 DEF Sent, IssueCredential
    <3> QED BY <2>1, <3>1, <3>2 DEF RunsOn, Kept
  <2> QED BY <2>2, <2>3
<1>5. CASE ReceiveCredential(e)
  <2>1. Onward
    <3>1. CASE record[holder] = "request-sent"
      <4>1. Stage("credential-received") > Stage(record[holder])
        BY <3>1 DEF Stage
      <4> QED BY <1>0, <1>5, <3>1, <4>1, GoesOn DEF ReceiveCredential, Put
    <3> QED BY <1>5, <3>1, StandsStill DEF ReceiveCredential
  <2> QED BY <1>5, <2>1, Silent DEF ReceiveCredential
<1>6. CASE StoreCredential(e)
  <2> DEFINE st == IF holder \in autoRemove THEN "removed" ELSE "done"
  <2>1. /\ record' = [record EXCEPT ![holder] = st] /\ record[holder] = "credential-received"
        /\ cred' = cred /\ held' = held \cup {e} /\ mail' = mail \cup {<<"ack", e>>}
    BY <1>6 DEF StoreCredential, Complete, Put
  <2>2. st \in {"done", "removed"} /\ Stage(st) > Stage(record[holder])
    BY <2>1 DEF Stage
  <2>3. Onward /\ record'[holder] = st
    BY <1>0, <2>1, <2>2, GoesOn
  <2>4. Sent
    BY <2>1, <2>2, <2>3 DEF Sent
  <2> QED BY <2>1, <2>3, <2>4 DEF RunsOn, Kept
<1>7. CASE ReceiveAck(e)
  <2> DEFINE st == IF issuer \in autoRemove THEN "removed" ELSE "done"
  <2>1. Onward
    <3>1. CASE record[issuer] = "credential-issued"
      <4>1. Stage(st) > Stage(record[issuer])
        BY <3>1 DEF Stage
      <4>2. record' = [record EXCEPT ![issuer] = st]
        BY <1>7, <3>1 DEF ReceiveAck, Complete, Put
      <4> QED BY <1>0, <4>1, <4>2, GoesOn
    <3> QED BY <1>7, <3>1, StandsStill DEF ReceiveAck
  <2> QED BY <1>7, <2>1, Silent DEF ReceiveAck
<1> QED BY <1>1, <1>2, <1>3, <1>4, <1>5, <1>6, <1>7 DEF Agents

LEMMA DeleteRunsOn ==
    ASSUME IInv, NEW side \in Sides, NEW e \in Exchanges, DeleteRecord(side, e)
    PROVE  RunsOn
<1> DEFINE y == <<side, e>>
<1>1. /\ y \in Records /\ record[y] \in RecordStates /\ record[y] # "removed"
      /\ record' = [record EXCEPT ![y] = "removed"]
      /\ cred' = cred /\ held' = held /\ mail' = mail
  BY RecordNames DEF DeleteRecord, Put, IInv, TypeOK
<1>2. Stage("removed") > Stage(record[y])
  BY <1>1 DEF Stage, RecordStates
<1>3. Onward
  BY <1>1, <1>2, GoesOn
<1> QED BY <1>1, <1>3, Silent

LEMMA NextRunsOn == IInv /\ [Next]_vars => [RunsOn]_vars
<1> SUFFICES ASSUME IInv, Next PROVE RunsOn
  OBVIOUS
<1>1. CASE Operate
  BY <1>1, StandsStill, Silent DEF Operate, exchanges
<1> QED BY <1>1, HandlerRunsOn, AgentRunsOn, DeleteRunsOn DEF Next

\* However requests race, however messages cross with deletions, and whoever offers:
\* an exchange runs once and is about one credential.
THEOREM EachExchangeRunsOnce == Spec => ExchangesRunOnce
<1>1. IInv /\ [Next]_vars => [Onward /\ Kept /\ Sent]_vars
  BY NextRunsOn DEF RunsOn
<1> QED BY <1>1, Invariance, PTL DEF Spec, ExchangesRunOnce
=============================================================================

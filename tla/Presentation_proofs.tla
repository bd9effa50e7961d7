------------------------- MODULE Presentation_proofs -------------------------
(***************************************************************************)
(* Proofs about Presentation for every set of schemas, exchanges and       *)
(* requests, every set of registers, and every bound of the changes.       *)
(***************************************************************************)
EXTENDS Presentation, TLAPS

Types ==
    /\ role \in Registers /\ schemas \subseteq Schemas /\ via \in {"did", "key"}
    /\ record \in [Records -> RecordStates]
    /\ bound \subseteq Records /\ indy \subseteq Exchanges
    /\ mail \subseteq Messages
    /\ req \in [Requests -> Request]
    /\ presented \subseteq Exchanges /\ reported \subseteq Exchanges
    /\ vouched \subseteq Records
    /\ changes \in 0..MaxChanges

\* Each operation takes its own steps, and what it has asked the registry of the
\* verifier was true meanwhile.
Asked(R) ==
    /\ R.pc = "idle" => R.op = "send"
    /\ R.pc = "public_did" => R.op = "send"
    /\ R.pc \in {"connection", "did", "label"} => R.op \in {"send", "accept"}
    /\ R.pc \in {"record", "delete"} => R.op # "send"
    /\ R.pc = "schemas" => R.op = "accept" /\ Known(R.seen, {via, "label"})
    /\ R.pc = "delete" => R.op = "reject"
    /\ R.pc \in {"did", "label"} /\ R.op = "accept" => R.who \in {via, "label"}
    /\ R.pc = "call" /\ R.op = "send" => Known(R.seen, Ids)

\* The history misses nothing.
Remembers(R) == R.pc \in Working => Holds \subseteq R.seen

\* A prover's handler is about a request that its wallet has, or had.
Answers(R) ==
    R.op # "send" => R.ex \in Exchanges /\ record[<<"prover", R.ex>>] # "none"

\* An acceptance that is about to be sent is vouched for.
Cleared(R) ==
    R.pc = "call" /\ R.op = "accept" /\ <<"prover", R.ex>> \in bound =>
        /\ Known(R.seen, {via, "label"})
        /\ R.ex \in indy =>
            R.reveals # {} /\ \A s \in R.reveals : <<"schema", s>> \in R.seen

\* A rejection is of an exchange that was open, and tells before it deletes.
Rejecting(R) ==
    R.op = "reject" =>
        /\ R.pc = "record" /\ record[<<"prover", R.ex>>] = "request-received" =>
            <<"open", R.ex>> \in R.seen
        /\ R.pc = "call" => <<"open", R.ex>> \in R.seen
        /\ R.pc = "delete" => R.ex \in reported

Sound(R) == Asked(R) /\ Remembers(R) /\ Answers(R) /\ Cleared(R) /\ Rejecting(R)

\* Whatever the prover has heard of was requested by somebody, and presented after
\* it had heard.
Requested(e) ==
    /\ record[<<"verifier", e>>] = "none" =>
        record[<<"prover", e>>] = "none" /\ \A m \in mail : m[2] # e
    /\ record[<<"prover", e>>] = "none" => e \notin presented

ExchangesSound ==
    (\A e \in Exchanges : Requested(e)) /\ PresentedOnlyToVerifiers /\ RequestedOnlyByVerifiers

IInv == Types /\ ExchangesSound /\ \A r \in Requests : Sound(req[r])

-----------------------------------------------------------------------------
(* Requests.                                                               *)

LEMMA InvIsTyped == IInv => TypeOK
BY DEF IInv, Types, TypeOK, Sound, Asked, Answers, Cleared

LEMMA IdleIsSound == Idle \in Request /\ Sound(Idle) /\ Sound(Idle)'
BY DEF Idle, Request, Ops, Ids, Facts, Sound, Asked, Remembers, Answers, Cleared, Rejecting,
       Working

\* A step of one handler that touches nothing else, to a sound state of it.
LEMMA Asks ==
    ASSUME IInv, NEW r \in Requests, NEW R \in Request, Sound(R),
           req' = [req EXCEPT ![r] = R], UNCHANGED <<registry, exchanges, changes>>
    PROVE  IInv'
<1> USE DEF registry, exchanges
<1>1. \A q \in Requests : req'[q] = IF q = r THEN R ELSE req[q]
  BY DEF IInv, Types
<1>2. Types'
  BY <1>1 DEF IInv, Types
<1>3. ExchangesSound'
  BY DEF IInv, ExchangesSound, Requested, PresentedOnlyToVerifiers, RequestedOnlyByVerifiers
<1>4. \A q \in Requests : Sound(req'[q])
  BY <1>1 DEF IInv
<1>5. \A q \in Requests : Sound(req[q])'
  BY <1>4 DEF Sound, Asked, Remembers, Answers, Cleared, Rejecting, Holds, Known
<1> QED BY <1>2, <1>3, <1>5 DEF IInv

\* What happens to exchanges takes no request from a prover's handler, opens none
\* again, and moves at most one of the handlers.
LEMMA Keeping ==
    ASSUME IInv, UNCHANGED registry,
           \A e \in Exchanges : record[<<"prover", e>>] # "none" =>
                /\ record'[<<"prover", e>>] # "none"
                /\ record'[<<"prover", e>>] = "request-received" =>
                        record[<<"prover", e>>] = "request-received"
                /\ <<"prover", e>> \in bound' <=> <<"prover", e>> \in bound
                /\ e \in indy' <=> e \in indy,
           reported \subseteq reported',
           \A q \in Requests : req'[q] = req[q] \/ Sound(req[q])'
    PROVE  \A q \in Requests : Sound(req[q])'
<1> SUFFICES ASSUME NEW q \in Requests, req'[q] = req[q] PROVE Sound(req[q])'
  OBVIOUS
<1>1. Sound(req[q])
  BY DEF IInv
<1>2. Asked(req[q])' /\ Remembers(req[q])'
  BY <1>1 DEF Sound, Asked, Remembers, Holds, Known, registry
<1>3. Answers(req[q])'
  BY <1>1 DEF Sound, Answers
<1>4. Cleared(req[q])' /\ Rejecting(req[q])'
  BY <1>1 DEF Sound, Answers, Cleared, Rejecting, Known, registry
<1> QED BY <1>2, <1>3, <1>4 DEF Sound

\* What a handler knows when it takes a step.
LEMMA Handler ==
    ASSUME IInv, NEW r \in Requests
    PROVE  /\ req \in [Requests -> Request] /\ req[r] \in Request /\ Sound(req[r])
           /\ req[r].pc \in Working => Holds \subseteq req[r].seen
           /\ req[r].seen \subseteq Facts /\ Holds \subseteq Facts
BY DEF IInv, Types, Request, Sound, Remembers, Holds, Facts

\* The handler ends, or does not start.
LEMMA Stops ==
    ASSUME IInv, NEW r \in Requests, Stop(r), UNCHANGED <<registry, exchanges, changes>>
    PROVE  IInv'
BY IdleIsSound, Asks, Zenon DEF Stop

\* The handler goes to another label, to look up an id or not.
To(r, label, who) == [req[r] EXCEPT !.pc = label, !.who = who]

LEMMA Looks ==
    ASSUME IInv, NEW r \in Requests, req[r].pc \in Working, OnlyAsks,
           NEW label \in Working, NEW who,
           \/ LookUp(r, label, who) /\ who \in Ids
           \/ Goto(r, label) /\ who = req[r].who,
           \A R \in Request :
                /\ R.pc = label /\ R.who = who /\ R.op = req[r].op /\ R.ex = req[r].ex
                /\ R.seen = req[r].seen
                => Asked(R) /\ Cleared(R) /\ Rejecting(R)
    PROVE  IInv'
<1> DEFINE R == To(r, label, who)
<1>1. who \in Ids /\ req' = [req EXCEPT ![r].pc = label, ![r].who = who]
  BY Handler DEF LookUp, Goto, Request
<1>2. /\ R \in Request /\ R.pc = label /\ R.who = who /\ R.op = req[r].op
      /\ R.ex = req[r].ex /\ R.seen = req[r].seen
  BY <1>1, Handler DEF Request, To
<1>3. Remembers(R) /\ Answers(R)
  BY <1>2, Handler DEF Sound, Remembers, Answers
<1>4. Sound(R)
  BY <1>2, <1>3 DEF Sound
<1>5. req' = [req EXCEPT ![r] = R]
  BY <1>1, Handler DEF To
<1> QED BY <1>2, <1>4, <1>5, Asks DEF OnlyAsks

\* The start of a request.
LEMMA ReceiveStep ==
    ASSUME IInv, NEW r \in Requests, Receive(r)
    PROVE  IInv'
<1>1. CASE req' = [req EXCEPT ![r] = [Idle EXCEPT !.pc = "public_did", !.seen = Holds]]
  <2> DEFINE R == [Idle EXCEPT !.pc = "public_did", !.seen = Holds]
  <2>1. R \in Request /\ R.pc = "public_did" /\ R.op = "send" /\ R.seen = Holds
    BY Handler DEF Idle, Request, Ops, Ids, Working
  <2>2. Sound(R)
    BY <2>1 DEF Sound, Asked, Remembers, Answers, Cleared, Rejecting
  <2> QED BY <1>1, <2>1, <2>2, Asks DEF Receive
<1>2. ASSUME NEW op \in {"accept", "reject"}, NEW e \in Exchanges,
             record[<<"prover", e>>] # "none",
             req' = [req EXCEPT ![r] = [Idle EXCEPT
                !.pc = "record", !.op = op, !.ex = e, !.seen = Holds \cup Open(e)]]
      PROVE  IInv'
  <2> DEFINE R == [Idle EXCEPT !.pc = "record", !.op = op, !.ex = e,
                               !.seen = Holds \cup Open(e)]
  <2>1. Open(e) \subseteq Facts
    BY DEF Open, Facts
  <2>2. /\ R \in Request /\ R.pc = "record" /\ R.op = op /\ R.ex = e
        /\ R.seen = Holds \cup Open(e)
    BY <2>1, Handler DEF Idle, Request, Ops, Ids, Working
  <2>3. record[<<"prover", e>>] = "request-received" => <<"open", e>> \in R.seen
    BY <2>2 DEF Open
  <2>4. Sound(R)
    BY <1>2, <2>2, <2>3 DEF Sound, Asked, Remembers, Answers, Cleared, Rejecting
  <2> QED BY <1>2, <2>2, <2>4, Asks DEF Receive
<1> QED BY <1>1, <1>2 DEF Receive

\* The steps of a handler up to its call.
LEMMA AskingSteps ==
    ASSUME IInv, NEW r \in Requests,
           \/ Receive(r) \/ AssertPublicDid(r) \/ GetRecord(r) \/ GetConnection(r)
           \/ GetActor(r) \/ GetActorByName(r) \/ CheckSchemas(r) \/ Fails(r)
    PROVE  IInv'
<1>0. ASSUME Stop(r), OnlyAsks PROVE IInv'
  BY <1>0, Stops DEF OnlyAsks
<1>1. CASE Receive(r)
  BY <1>1, ReceiveStep
<1>2. CASE AssertPublicDid(r)
  <2>1. req[r].pc = "public_did" /\ req[r].op = "send" /\ req[r].pc \in Working
    BY <1>2, Handler DEF AssertPublicDid, At, Sound, Asked, Working
  <2>2. CASE LookUp(r, "did", "did")
    BY <1>2, <2>1, <2>2, Looks
       DEF AssertPublicDid, Asked, Cleared, Rejecting, Working, Ids
  <2>3. CASE LookUp(r, "connection", "key")
    BY <1>2, <2>1, <2>3, Looks
       DEF AssertPublicDid, Asked, Cleared, Rejecting, Working, Ids
  <2> QED BY <1>2, <2>2, <2>3 DEF AssertPublicDid
<1>3. CASE GetRecord(r)
  <2>0. /\ req[r].pc = "record" /\ req[r].op # "send" /\ req[r].pc \in Working
        /\ "connection" \in Working /\ "call" \in Working
    BY <1>3, Handler DEF GetRecord, At, Sound, Asked, Working
  <2>1. CASE Stop(r)
    BY <1>0, <1>3, <2>1 DEF GetRecord
  <2>2. CASE Op(r) = "accept" /\ <<"prover", req[r].ex>> \in bound /\ Goto(r, "connection")
    BY <1>3, <2>0, <2>2, Looks DEF GetRecord, Op, Asked, Cleared, Rejecting
  <2>3. CASE Op(r) = "accept" /\ <<"prover", req[r].ex>> \notin bound /\ Goto(r, "call")
    BY <1>3, <2>0, <2>3, Looks DEF GetRecord, Op, Asked, Cleared, Rejecting
  <2>4. CASE Op(r) = "reject" /\ CanReject(r) /\ Goto(r, "call")
    <3>1. <<"open", req[r].ex>> \in req[r].seen
      BY <2>0, <2>4, Handler DEF Op, CanReject, Mine, Sound, Rejecting
    <3> QED BY <1>3, <2>0, <2>4, <3>1, Looks DEF GetRecord, Op, Asked, Cleared, Rejecting
  <2> QED BY <1>3, <2>1, <2>2, <2>3, <2>4 DEF GetRecord
<1>4. CASE GetConnection(r)
  <2>0. /\ req[r].pc = "connection" /\ req[r].pc \in Working /\ "did" \in Working
        /\ via \in Ids
    BY <1>4, Handler DEF GetConnection, At, Working, IInv, Types, Ids
  <2>1. CASE Stop(r)
    BY <1>0, <1>4, <2>1 DEF GetConnection
  <2>2. CASE Op(r) = "send" /\ Goto(r, "did")
    BY <1>4, <2>0, <2>2, Looks DEF GetConnection, Op, Asked, Cleared, Rejecting
  <2>3. CASE Op(r) = "accept" /\ LookUp(r, "did", via)
    BY <1>4, <2>0, <2>3, Looks DEF GetConnection, Op, Asked, Cleared, Rejecting
  <2> QED BY <1>4, <2>1, <2>2, <2>3 DEF GetConnection
<1>5. ASSUME req[r].pc \in {"did", "label"}, IsVerifier(r), Goto(r, AfterActor(r)), OnlyAsks
      PROVE  IInv'
  <2> DEFINE label == AfterActor(r)
  <2>1. /\ req[r].op \in {"send", "accept"} /\ req[r].pc \in Working
        /\ req[r].op = "accept" => req[r].who \in {via, "label"}
        /\ label \in {"schemas", "call"} /\ label \in Working
        /\ label = "schemas" => req[r].op = "accept"
        /\ label = "call" /\ req[r].op = "accept" => req[r].ex \notin indy
    BY <1>5, Handler DEF Sound, Asked, Working, AfterActor, Op
  <2>2. <<"verifier", req[r].who>> \in req[r].seen /\ req[r].who \in Ids
    BY <1>5, <2>1, Handler DEF IsVerifier, Holds, Request
  <2>3. /\ Known(req[r].seen, Ids)
        /\ req[r].op = "accept" => Known(req[r].seen, {via, "label"})
    BY <2>1, <2>2 DEF Known
  <2>4. ASSUME NEW R \in Request, R.pc = label, R.op = req[r].op, R.ex = req[r].ex,
               R.seen = req[r].seen
        PROVE  Asked(R) /\ Cleared(R) /\ Rejecting(R)
    BY <2>1, <2>3, <2>4 DEF Asked, Cleared, Rejecting
  <2> HIDE DEF label
  <2> QED BY <1>5, <2>1, <2>4, Looks DEF label
<1>6. CASE GetActor(r)
  <2>1. CASE Stop(r)
    BY <1>0, <1>6, <2>1 DEF GetActor
  <2>2. CASE IsVerifier(r) /\ Goto(r, AfterActor(r))
    BY <1>5, <1>6, <2>2 DEF GetActor, At
  <2>3. CASE LookUp(r, "label", "label")
    <3>1. /\ req[r].pc = "did" /\ req[r].pc \in Working /\ "label" \in Working
          /\ req[r].op \in {"send", "accept"} /\ "label" \in Ids
      BY <1>6, Handler DEF GetActor, At, Working, Sound, Asked, Ids
    <3> QED BY <1>6, <2>3, <3>1, Looks DEF GetActor, Asked, Cleared, Rejecting
  <2> QED BY <1>6, <2>1, <2>2, <2>3 DEF GetActor
<1>7. CASE GetActorByName(r)
  <2>1. CASE Stop(r)
    BY <1>0, <1>7, <2>1 DEF GetActorByName
  <2>2. CASE IsVerifier(r) /\ Goto(r, AfterActor(r))
    BY <1>5, <1>7, <2>2 DEF GetActorByName, At
  <2> QED BY <1>7, <2>1, <2>2 DEF GetActorByName
<1>8. CASE CheckSchemas(r)
  <2>1. CASE Stop(r)
    BY <1>0, <1>8, <2>1 DEF CheckSchemas
  <2>2. ASSUME NEW ids \in SUBSET Schemas, AreValidSchemas(ids),
               req' = [req EXCEPT ![r].pc = "call", ![r].reveals = ids]
        PROVE  IInv'
    <3> DEFINE R == [req[r] EXCEPT !.pc = "call", !.reveals = ids]
    <3>0. /\ req[r].op = "accept" /\ Known(req[r].seen, {via, "label"})
          /\ Holds \subseteq req[r].seen
      BY <1>8, Handler DEF CheckSchemas, At, Sound, Asked, Working
    <3>1. /\ R \in Request /\ R.pc = "call" /\ R.op = "accept" /\ R.ex = req[r].ex
          /\ R.seen = req[r].seen /\ R.reveals = ids
      BY <3>0, Handler DEF Request, Working
    <3>2. ids # {} /\ \A s \in ids : <<"schema", s>> \in R.seen
      BY <2>2, <3>0, <3>1 DEF AreValidSchemas, Holds
    <3>3. Asked(R) /\ Remembers(R) /\ Rejecting(R)
      BY <3>0, <3>1 DEF Asked, Remembers, Rejecting
    <3>4. Answers(R)
      BY <3>0, <3>1, Handler DEF Sound, Answers
    <3>5. Cleared(R)
      BY <3>0, <3>1, <3>2 DEF Cleared
    <3>6. Sound(R)
      BY <3>3, <3>4, <3>5 DEF Sound
    <3>7. req' = [req EXCEPT ![r] = R]
      BY <2>2
    <3> QED BY <1>8, <3>1, <3>6, <3>7, Asks DEF CheckSchemas, OnlyAsks
  <2> QED BY <1>8, <2>1, <2>2 DEF CheckSchemas
<1>9. CASE Fails(r)
  BY <1>9, Stops DEF Fails
<1> QED BY <1>1, <1>2, <1>3, <1>4, <1>6, <1>7, <1>8, <1>9

-----------------------------------------------------------------------------
(* Exchanges.                                                              *)

\* The two records of an exchange are different records.
LEMMA RecordNames ==
    /\ \A side \in Sides, e \in Exchanges : <<side, e>> \in Records
    /\ \A side, e, side2, e2 : <<side, e>> = <<side2, e2>> <=> side = side2 /\ e = e2
    /\ "verifier" # "prover" /\ "verifier" \in Sides /\ "prover" \in Sides
BY DEF Records, Sides

\* News of one exchange, that somebody has requested by then, bears on no other.
LEMMA StillRequested ==
    ASSUME \A f \in Exchanges : Requested(f), NEW e \in Exchanges,
           \A m \in mail' : m \in mail \/ m[2] = e,
           \A f \in Exchanges : f # e =>
                /\ record'[<<"verifier", f>>] = record[<<"verifier", f>>]
                /\ record'[<<"prover", f>>] = record[<<"prover", f>>]
                /\ f \in presented' => f \in presented,
           record'[<<"verifier", e>>] # "none",
           record'[<<"prover", e>>] = "none" => e \notin presented'
    PROVE  \A f \in Exchanges : Requested(f)'
<1> TAKE f \in Exchanges
<1>1. CASE f = e
  BY <1>1 DEF Requested
<1>2. CASE f # e
  BY <1>2 DEF Requested
<1> QED BY <1>1, <1>2

\* A handler that ends, and the others.
LEMMA Stopped ==
    ASSUME IInv, NEW r \in Requests, Stop(r)
    PROVE  /\ req' \in [Requests -> Request]
           /\ \A q \in Requests : req'[q] = req[q] \/ Sound(req[q])'
<1>1. \A q \in Requests : req'[q] = req[q] \/ req'[q] = Idle
  BY DEF IInv, Types, Stop
<1>2. \A q \in Requests : req'[q] = req[q] \/ Sound(req[q])'
  BY <1>1, IdleIsSound DEF Sound, Asked, Remembers, Answers, Cleared, Rejecting
<1> QED BY <1>2, IdleIsSound DEF IInv, Types, Stop

\* A proof request, vouched for or not over a connection.
LEMMA NewRequestStep ==
    ASSUME IInv, NEW e \in Exchanges, Unused(e), NEW st \in RecordStates, st # "none",
           Put("verifier", e, st),
           indy' \in {indy, indy \cup {e}}, mail' = mail \cup {<<"request", e>>},
           bound' = bound \/ (bound' = bound \cup {<<"verifier", e>>}
                              /\ <<"verifier", e>> \in vouched'),
           vouched' = vouched \/ vouched' = vouched \cup {<<"verifier", e>>},
           \/ UNCHANGED req
           \/ \E r \in Requests : Stop(r),
           UNCHANGED <<registry, changes, presented, reported>>
    PROVE  IInv'
<1> DEFINE x == <<"verifier", e>>
<1>1. /\ x \in Records /\ record[x] = "none" /\ record[<<"prover", e>>] = "none"
      /\ e \notin presented
  BY RecordNames DEF IInv, ExchangesSound, Requested, Unused
<1>2. \A y \in Records : record'[y] = IF y = x THEN st ELSE record[y]
  BY DEF IInv, Types, Put
<1>3. /\ req' \in [Requests -> Request]
      /\ \A q \in Requests : req'[q] = req[q] \/ Sound(req[q])'
  BY Stopped DEF IInv, Types
<1>4. Types'
  <2>1. record' \in [Records -> RecordStates] /\ mail' \subseteq Messages
    BY <1>1 DEF IInv, Types, Put, Messages
  <2> QED BY <1>1, <1>3, <2>1 DEF IInv, Types, registry
<1>5. \A f \in Exchanges : Requested(f)'
  <2>1. \A m \in mail' : m \in mail \/ m[2] = e
    OBVIOUS
  <2>2. record'[x] # "none" /\ record'[<<"prover", e>>] = "none"
    BY <1>1, <1>2, RecordNames
  <2>3. \A f \in Exchanges : f # e =>
            /\ record'[<<"verifier", f>>] = record[<<"verifier", f>>]
            /\ record'[<<"prover", f>>] = record[<<"prover", f>>]
    BY <1>2, RecordNames
  <2> QED BY <1>1, <2>1, <2>2, <2>3, StillRequested DEF IInv, ExchangesSound
<1>6. PresentedOnlyToVerifiers' /\ RequestedOnlyByVerifiers'
  BY <1>1, RecordNames
     DEF IInv, ExchangesSound, PresentedOnlyToVerifiers, RequestedOnlyByVerifiers
<1>7. \A q \in Requests : Sound(req[q])'
  <2>1. \A f \in Exchanges : record[<<"prover", f>>] # "none" =>
            /\ record'[<<"prover", f>>] = record[<<"prover", f>>]
            /\ <<"prover", f>> \in bound' <=> <<"prover", f>> \in bound
            /\ f \in indy' <=> f \in indy
    BY <1>1, <1>2, RecordNames
  <2> QED BY <1>3, <2>1, Keeping
<1> QED BY <1>4, <1>5, <1>6, <1>7 DEF IInv, ExchangesSound

LEMMA SendStep ==
    ASSUME IInv, NEW r \in Requests, SendProofRequest(r)
    PROVE  IInv'
<1>1. PICK e \in Exchanges :
        /\ Unused(e)
        /\ Move(r, "verifier", e, "request-sent")
        /\ bound' = bound \cup {<<"verifier", e>>}
        /\ indy' \in {indy, indy \cup {e}}
        /\ mail' = mail \cup {<<"request", e>>}
  BY DEF SendProofRequest
<1>2. Licensed(r, e)
  BY Handler DEF SendProofRequest, At, Op, Licensed, Sound, Asked
<1>3. Put("verifier", e, "request-sent") /\ vouched' = vouched \cup {<<"verifier", e>>}
  BY <1>1, <1>2 DEF Move
<1>4. "request-sent" \in RecordStates /\ "request-sent" # "none"
  BY DEF RecordStates
<1>5. Stop(r) /\ UNCHANGED <<registry, changes, presented, reported>>
  BY DEF SendProofRequest, Outside
<1> QED BY <1>1, <1>3, <1>4, <1>5, NewRequestStep

\* A step about an exchange that somebody has requested moves one of its records to
\* state st, or none, and mail about it comes or goes.
LEMMA MoveStep ==
    ASSUME IInv, NEW side \in Sides, NEW e \in Exchanges, NEW st \in RecordStates,
           record[<<"verifier", e>>] # "none",
           Put(side, e, st) \/ UNCHANGED record,
           st \notin {"none", "request-received"},
           \A m \in mail' : m \in mail \/ (m \in Messages /\ m[2] = e),
           \/ presented' = presented
           \/ /\ presented' = presented \cup {e} /\ record[<<"prover", e>>] # "none"
              /\ <<"prover", e>> \in bound => <<"prover", e>> \in vouched',
           reported' = reported \/ reported' = reported \cup {e},
           vouched' = vouched \/ vouched' = vouched \cup {<<side, e>>},
           UNCHANGED <<registry, bound, indy, changes>>,
           req' \in [Requests -> Request],
           \A q \in Requests : req'[q] = req[q] \/ Sound(req[q])'
    PROVE  IInv'
<1> DEFINE x == <<side, e>>
<1>0. x \in Records
  BY RecordNames
<1>1. \/ \A y \in Records : record'[y] = IF y = x THEN st ELSE record[y]
      \/ UNCHANGED record
  BY <1>0 DEF IInv, Types, Put
<1>2. Types'
  <2>1. record' \in [Records -> RecordStates]
    BY DEF IInv, Types, Put
  <2>2. mail' \subseteq Messages
    BY DEF IInv, Types
  <2> QED BY <1>0, <2>1, <2>2 DEF IInv, Types, registry
<1>3. \A f \in Exchanges : Requested(f)'
  <2>1. \A m \in mail' : m \in mail \/ m[2] = e
    OBVIOUS
  <2>2. /\ record'[<<"verifier", e>>] # "none"
        /\ \A y \in Records : y # x => record'[y] = record[y]
    BY <1>0, <1>1, RecordNames
  <2>3. \A f \in Exchanges : f # e => <<"verifier", f>> # x /\ <<"prover", f>> # x
    BY RecordNames
  <2>4. record'[<<"prover", e>>] = "none" => e \notin presented'
    <3>1. record'[<<"prover", e>>] = "none" => record[<<"prover", e>>] = "none"
      BY <1>0, <1>1, RecordNames
    <3> QED BY <3>1 DEF IInv, ExchangesSound, Requested
  <2> QED BY <2>1, <2>2, <2>3, <2>4, RecordNames, StillRequested DEF IInv, ExchangesSound
<1>4. PresentedOnlyToVerifiers' /\ RequestedOnlyByVerifiers'
  BY DEF IInv, ExchangesSound, PresentedOnlyToVerifiers, RequestedOnlyByVerifiers
<1>5. \A q \in Requests : Sound(req[q])'
  BY <1>0, <1>1, RecordNames, Keeping
<1> QED BY <1>2, <1>3, <1>4, <1>5 DEF IInv, ExchangesSound

\* What the steps that answer a request, and the agents', rely on.
LEMMA Around ==
    ASSUME IInv, NEW e \in Exchanges
    PROVE  /\ record[<<"prover", e>>] # "none" => record[<<"verifier", e>>] # "none"
           /\ \A kind : <<kind, e>> \in mail => record[<<"verifier", e>>] # "none"
           /\ \A kind : <<kind, e>>[2] = e
           /\ record[<<"verifier", e>>] \in RecordStates
           /\ record[<<"prover", e>>] \in RecordStates
<1>1. \A kind : <<kind, e>>[2] = e
  OBVIOUS
<1>2. Requested(e)
  BY DEF IInv, ExchangesSound
<1>3. \A kind : <<kind, e>> \in mail => record[<<"verifier", e>>] # "none"
  BY <1>1, <1>2, Zenon DEF Requested
<1> QED BY <1>1, <1>2, <1>3, RecordNames DEF Requested, IInv, Types

\* A prover's handler at its calls of the agent.
LEMMA Answering ==
    ASSUME IInv, NEW r \in Requests, req[r].op # "send"
    PROVE  /\ req[r].ex \in Exchanges /\ record[<<"prover", req[r].ex>>] # "none"
           /\ record[<<"verifier", req[r].ex>>] # "none"
BY Handler, Around DEF Sound, Answers

LEMMA PresentStep ==
    ASSUME IInv, NEW r \in Requests, SendPresentation(r)
    PROVE  IInv'
<1> DEFINE e == req[r].ex
           x == <<"prover", e>>
<1>1. /\ e \in Exchanges /\ record[<<"verifier", e>>] # "none" /\ record[x] # "none"
      /\ Stop(r) /\ UNCHANGED <<registry, changes>>
  BY Answering DEF SendPresentation, Op, Outside
<1>2. CASE Mine(r) # "request-received"
  <2>1. UNCHANGED exchanges
    BY <1>2 DEF SendPresentation
  <2> QED BY <1>1, <2>1, Stops
<1>3. CASE Mine(r) = "request-received"
  <2>1. /\ Move(r, "prover", e, "presentation-sent")
        /\ mail' = mail \cup {<<"presentation", e>>}
        /\ presented' = presented \cup {e}
        /\ UNCHANGED <<bound, indy, reported>>
    BY <1>3 DEF SendPresentation
  <2>2. x \in bound => Licensed(r, e)
    BY Handler DEF SendPresentation, At, Op, Licensed, Sound, Cleared
  <2>3. /\ vouched' = vouched \/ vouched' = vouched \cup {x}
        /\ x \in bound => x \in vouched'
        /\ Put("prover", e, "presentation-sent")
    BY <2>1, <2>2 DEF Move
  <2>4. "presentation-sent" \in RecordStates
        /\ "presentation-sent" \notin {"none", "request-received"}
    BY DEF RecordStates
  <2>5. req' \in [Requests -> Request] /\ \A q \in Requests : req'[q] = req[q] \/ Sound(req[q])'
    BY <1>1, Stopped
  <2>6. \A m \in mail' : m \in mail \/ (m \in Messages /\ m[2] = e)
    BY <1>1, <2>1 DEF Messages
  <2> QED BY <1>1, <2>1, <2>3, <2>4, <2>5, <2>6, RecordNames, MoveStep
<1> QED BY <1>2, <1>3

LEMMA RejectSteps ==
    ASSUME IInv, NEW r \in Requests, ReportProblem(r) \/ DeleteRejected(r)
    PROVE  IInv'
<1> DEFINE e == req[r].ex
           x == <<"prover", e>>
<1>1. /\ req[r].op = "reject" /\ UNCHANGED <<registry, changes>>
  BY Handler DEF ReportProblem, DeleteRejected, Op, At, Sound, Asked, Outside
<1>2. /\ e \in Exchanges /\ record[<<"verifier", e>>] # "none" /\ record[x] # "none"
      /\ "abandoned" \in RecordStates /\ "removed" \in RecordStates
  BY <1>1, Answering DEF RecordStates
<1>3. ASSUME NEW R \in Request, req' = [req EXCEPT ![r] = R]
      PROVE  /\ req' \in [Requests -> Request] /\ req'[r] = R
             /\ \A q \in Requests : q # r => req'[q] = req[q]
  BY <1>3 DEF IInv, Types
<1>4. CASE ReportProblem(r) /\ Mine(r) = "removed"
  BY <1>1, <1>4, Stops DEF ReportProblem
<1>5. CASE ReportProblem(r) /\ Mine(r) # "removed"
  <2> DEFINE R == [req[r] EXCEPT !.pc = "delete"]
  <2>1. /\ Put("prover", e, "abandoned")
        /\ mail' = mail \cup {<<"problem", e>>}
        /\ reported' = reported \cup {e}
        /\ Goto(r, "delete") \/ Stop(r)
        /\ UNCHANGED <<bound, indy, presented, vouched>>
    BY <1>5 DEF ReportProblem
  <2>2. /\ R \in Request /\ R.pc = "delete" /\ R.op = "reject" /\ R.ex = e
        /\ R.seen = req[r].seen /\ Holds \subseteq R.seen
    BY <1>1, <1>5, Handler DEF Request, Working, ReportProblem, At
  <2>3. record'[x] = "abandoned"
    BY <1>2, <2>1, RecordNames DEF IInv, Types, Put
  <2>4. ASSUME Goto(r, "delete")
        PROVE  /\ req' \in [Requests -> Request]
               /\ \A q \in Requests : req'[q] = req[q] \/ Sound(req[q])'
    <3>1. req' = [req EXCEPT ![r] = R]
      BY <2>4 DEF Goto
    <3>2. /\ req'[r] = R /\ req' \in [Requests -> Request]
          /\ \A q \in Requests : q # r => req'[q] = req[q]
      BY <1>3, <2>2, <3>1
    <3>3. /\ req'[r].pc = "delete" /\ req'[r].op = "reject" /\ req'[r].ex = e
          /\ Holds \subseteq req'[r].seen
      BY <2>2, <3>2
    <3>4. Sound(req[r])'
      BY <1>1, <1>2, <2>1, <2>3, <3>3
         DEF Sound, Asked, Remembers, Answers, Cleared, Rejecting, Holds, registry
    <3> QED BY <3>2, <3>4
  <2>5. /\ req' \in [Requests -> Request]
        /\ \A q \in Requests : req'[q] = req[q] \/ Sound(req[q])'
    <3>1. CASE Stop(r)
      BY <3>1, Stopped
    <3> QED BY <2>1, <2>4, <3>1
  <2>6. \A m \in mail' : m \in mail \/ (m \in Messages /\ m[2] = e)
    BY <1>2, <2>1 DEF Messages
  <2> QED BY <1>1, <1>2, <2>1, <2>5, <2>6, RecordNames, MoveStep
<1>6. CASE DeleteRejected(r)
  <2>1. /\ Put("prover", e, "removed") /\ Stop(r)
        /\ UNCHANGED <<bound, indy, mail, presented, reported, vouched>>
    BY <1>6 DEF DeleteRejected
  <2>2. /\ req' \in [Requests -> Request]
        /\ \A q \in Requests : req'[q] = req[q] \/ Sound(req[q])'
    BY <2>1, Stopped
  <2> QED BY <1>1, <1>2, <2>1, <2>2, RecordNames, MoveStep
<1> QED BY <1>4, <1>5, <1>6

\* A request that comes to the prover: its record is new, bound to the connection or
\* not.
LEMMA ReceiveRequestStep ==
    ASSUME IInv, NEW e \in Exchanges, ReceiveRequest(e)
    PROVE  IInv'
<1> DEFINE x == <<"prover", e>>
<1>1. /\ record[<<"verifier", e>>] # "none" /\ x \in Records
      /\ UNCHANGED <<registry, req, vouched, changes, indy, presented, reported>>
      /\ mail' = mail \ {<<"request", e>>}
      /\ "done" \in RecordStates /\ "request-received" \in RecordStates
  BY Around, RecordNames DEF ReceiveRequest, Take, Inside, RecordStates
<1>2. req' \in [Requests -> Request] /\ \A q \in Requests : req'[q] = req[q]
  BY <1>1 DEF IInv, Types
<1>3. CASE record[x] # "none"
  <2>1. UNCHANGED <<record, bound>>
    BY <1>3 DEF ReceiveRequest
  <2> QED BY <1>1, <1>2, <2>1, RecordNames, MoveStep
<1>4. CASE record[x] = "none"
  <2>1. record' = [record EXCEPT ![x] = "request-received"]
        /\ bound' \in {bound, bound \cup {x}}
    BY <1>4 DEF ReceiveRequest, Put
  <2>2. \A y \in Records : record'[y] = IF y = x THEN "request-received" ELSE record[y]
    BY <2>1 DEF IInv, Types
  <2>3. Types'
    BY <1>1, <1>2, <2>1 DEF IInv, Types, registry
  <2>4. e \notin presented
    BY <1>4 DEF IInv, ExchangesSound, Requested
  <2>5. \A f \in Exchanges : Requested(f)'
    <3>1. \A m \in mail' : m \in mail \/ m[2] = e
      BY <1>1
    <3>2. record'[<<"verifier", e>>] # "none" /\ e \notin presented'
      BY <1>1, <2>2, <2>4, RecordNames
    <3>3. \A f \in Exchanges : f # e =>
              /\ record'[<<"verifier", f>>] = record[<<"verifier", f>>]
              /\ record'[<<"prover", f>>] = record[<<"prover", f>>]
      BY <2>2, RecordNames
    <3> QED BY <1>1, <3>1, <3>2, <3>3, StillRequested DEF IInv, ExchangesSound
  <2>6. PresentedOnlyToVerifiers' /\ RequestedOnlyByVerifiers'
    BY <1>1, <2>1, <2>4, RecordNames
       DEF IInv, ExchangesSound, PresentedOnlyToVerifiers, RequestedOnlyByVerifiers
  <2>7. \A q \in Requests : Sound(req[q])'
    <3>1. \A f \in Exchanges : record[<<"prover", f>>] # "none" =>
              /\ record'[<<"prover", f>>] = record[<<"prover", f>>]
              /\ <<"prover", f>> \in bound' <=> <<"prover", f>> \in bound
      BY <1>4, <2>1, <2>2, RecordNames
    <3> QED BY <1>1, <1>2, <3>1, Keeping
  <2> QED BY <2>3, <2>5, <2>6, <2>7 DEF IInv, ExchangesSound
<1> QED BY <1>3, <1>4

\* The agents' steps, and those of handlers of one call.
LEMMA AgentSteps ==
    ASSUME IInv, NEW e \in Exchanges, Agents(e)
    PROVE  IInv'
<1>0. /\ {"elsewhere", "request-sent", "done", "removed", "abandoned"} \subseteq RecordStates
      /\ \A kind \in {"presentation", "ack", "problem", "request"} : <<kind, e>> \in Messages
      /\ req \in [Requests -> Request]
  BY DEF RecordStates, Messages, IInv, Types
<1>1. CASE CreateProofRequest(e)
  <2>1. /\ Unused(e) /\ indy' \in {indy, indy \cup {e}} /\ mail' = mail \cup {<<"request", e>>}
        /\ UNCHANGED <<bound, presented, reported, registry, req, vouched, changes>>
        /\ \E st \in {"request-sent", "elsewhere"} : Put("verifier", e, st)
    BY <1>1 DEF CreateProofRequest, Inside
  <2> QED BY <1>0, <2>1, NewRequestStep
<1>2. CASE ReceiveRequest(e)
  BY <1>2, ReceiveRequestStep
<1>3. CASE ReceivePresentation(e)
  <2>1. /\ record[<<"verifier", e>>] # "none"
        /\ UNCHANGED <<bound, indy, presented, reported, registry, req, vouched, changes>>
        /\ Put("verifier", e, "done") \/ Put("verifier", e, "removed") \/ UNCHANGED record
    BY <1>3, Around DEF ReceivePresentation, Inside, Complete
  <2>2. \A m \in mail' : m \in mail \/ (m \in Messages /\ m[2] = e)
    <3>1. mail' \subseteq mail \cup {<<"ack", e>>}
      BY <1>3 DEF ReceivePresentation
    <3> QED BY <1>0, <3>1
  <2> QED BY <1>0, <2>1, <2>2, RecordNames, MoveStep
<1>4. CASE ReceiveAck(e)
  <2>1. /\ record[<<"verifier", e>>] # "none" /\ mail' \subseteq mail
        /\ UNCHANGED <<bound, indy, presented, reported, registry, req, vouched, changes>>
        /\ Put("prover", e, "done") \/ Put("prover", e, "removed") \/ UNCHANGED record
    BY <1>4, Around DEF ReceiveAck, Take, Inside, Complete
  <2> QED BY <1>0, <2>1, RecordNames, MoveStep
<1>5. CASE ReceiveProblem(e)
  <2>1. /\ record[<<"verifier", e>>] # "none" /\ mail' \subseteq mail
        /\ UNCHANGED <<bound, indy, presented, reported, registry, req, vouched, changes>>
        /\ Put("verifier", e, "abandoned") \/ UNCHANGED record
    BY <1>5, Around DEF ReceiveProblem, Take, Inside
  <2> QED BY <1>0, <2>1, RecordNames, MoveStep
<1>6. ASSUME NEW side \in Sides, DeleteProof(side, e) PROVE IInv'
  <2>1. /\ record[<<"verifier", e>>] # "none" /\ Put(side, e, "removed")
        /\ UNCHANGED <<bound, indy, mail, presented, reported, registry, req, vouched, changes>>
    BY <1>6, Around DEF DeleteProof, Inside, Sides
  <2> QED BY <1>0, <2>1, MoveStep
<1> QED BY <1>1, <1>2, <1>3, <1>4, <1>5, <1>6 DEF Agents

\* Operators change what holds, and every handler at work lives through it.
LEMMA OperateStep == ASSUME IInv, Operate PROVE IInv'
<1>1. /\ role' \in Registers /\ schemas' \subseteq Schemas /\ changes' \in 0..MaxChanges
  BY PresentationAssumption DEF IInv, Types, Operate
<1>2. Holds' \subseteq Facts
  BY <1>1 DEF Holds, Facts
<1>3. UNCHANGED <<via, exchanges>>
  BY DEF Operate
<1>4. ASSUME NEW q \in Requests
      PROVE  /\ req'[q] \in Request /\ req'[q].pc = req[q].pc /\ req'[q].op = req[q].op
             /\ req'[q].ex = req[q].ex /\ req'[q].who = req[q].who
             /\ req'[q].reveals = req[q].reveals /\ req[q].seen \subseteq req'[q].seen
             /\ req'[q].pc \in Working => Holds' \subseteq req'[q].seen
  <2>1. req[q] \in Request
    BY DEF IInv, Types
  <2>2. CASE req[q].pc \in Working
    <3>1. req'[q] = [req[q] EXCEPT !.seen = @ \cup Holds']
      BY <2>2 DEF Operate
    <3> QED BY <1>2, <2>1, <3>1 DEF Request
  <2>3. CASE req[q].pc \notin Working
    <3>1. req'[q] = req[q]
      BY <2>3 DEF Operate
    <3> QED BY <2>1, <2>3, <3>1
  <2> QED BY <2>2, <2>3
<1>5. Types'
  <2>1. req' \in [Requests -> Request]
    <3>1. req' = [q \in Requests |-> req'[q]]
      BY DEF Operate
    <3> QED BY <1>4, <3>1
  <2> QED BY <1>1, <1>3, <2>1 DEF IInv, Types, exchanges
<1>6. ExchangesSound'
  BY <1>3 DEF IInv, ExchangesSound, Requested, PresentedOnlyToVerifiers,
     RequestedOnlyByVerifiers, exchanges
<1>7. ASSUME NEW q \in Requests PROVE Sound(req[q])'
  <2>1. Sound(req[q])
    BY DEF IInv
  <2>2. \A ids : Known(req[q].seen, ids) => Known(req'[q].seen, ids)
    BY <1>4 DEF Known
  <2>3. Asked(req[q])'
    BY <1>3, <1>4, <2>1, <2>2 DEF Sound, Asked
  <2>4. Answers(req[q])' /\ Rejecting(req[q])'
    BY <1>3, <1>4, <2>1 DEF Sound, Answers, Rejecting, exchanges
  <2>5. Cleared(req[q])'
    BY <1>3, <1>4, <2>1, <2>2 DEF Sound, Cleared, exchanges
  <2>6. Remembers(req[q])'
    BY <1>4 DEF Remembers
  <2> QED BY <2>3, <2>4, <2>5, <2>6 DEF Sound
<1> QED BY <1>5, <1>6, <1>7 DEF IInv

-----------------------------------------------------------------------------
(* The invariant and its consequences.                                     *)

LEMMA InitInv == Init => IInv
<1> SUFFICES ASSUME Init PROVE IInv
  OBVIOUS
<1>1. Types
  BY PresentationAssumption, IdleIsSound DEF Init, Types, RecordStates
<1>2. ExchangesSound
  BY RecordNames DEF Init, ExchangesSound, Requested, PresentedOnlyToVerifiers,
     RequestedOnlyByVerifiers
<1>3. \A q \in Requests : Sound(req[q])
  BY IdleIsSound DEF Init
<1> QED BY <1>1, <1>2, <1>3 DEF IInv

LEMMA NextInv == IInv /\ [Next]_vars => IInv'
<1> SUFFICES ASSUME IInv, [Next]_vars PROVE IInv'
  OBVIOUS
<1>1. ASSUME NEW r \in Requests, Handle(r) PROVE IInv'
  BY <1>1, AskingSteps, SendStep, PresentStep, RejectSteps DEF Handle
<1>2. ASSUME NEW e \in Exchanges, Agents(e) PROVE IInv'
  BY <1>2, AgentSteps
<1>3. CASE Operate
  BY <1>3, OperateStep
<1>4. CASE UNCHANGED vars
  <2>1. Types'
    BY <1>4 DEF vars, IInv, Types
  <2>2. ExchangesSound'
    BY <1>4 DEF vars, IInv, ExchangesSound, Requested, PresentedOnlyToVerifiers,
       RequestedOnlyByVerifiers
  <2>3. \A q \in Requests : Sound(req[q])'
    BY <1>4 DEF vars, IInv, Sound, Asked, Remembers, Answers, Cleared, Rejecting, Holds, Known
  <2> QED BY <2>1, <2>2, <2>3 DEF IInv
<1> QED BY <1>1, <1>2, <1>3, <1>4 DEF Next

\* A prover's record ends as abandoned only by a rejection of what was open, and a
\* rejection deletes only what it has reported.
LEMMA RejectionStep ==
    ASSUME IInv, [Next]_vars, NEW e \in Exchanges,
           LET x == <<"prover", e>>
           IN record'[x] # record[x]
    PROVE  LET x == <<"prover", e>>
               Rejects(r) == Op(r) = "reject" /\ req[r].ex = e /\ req'[r] # req[r]
           IN /\ record'[x] = "abandoned" =>
                    \E r \in Requests : Rejects(r) /\ <<"open", e>> \in req[r].seen
              /\ (\E r \in Requests : Rejects(r)) /\ record'[x] = "removed" => e \in reported
<1> DEFINE x == <<"prover", e>>
           Rejects(r) == Op(r) = "reject" /\ req[r].ex = e /\ req'[r] # req[r]
           Goal == /\ record'[x] = "abandoned" =>
                        \E r \in Requests : Rejects(r) /\ <<"open", e>> \in req[r].seen
                   /\ (\E r \in Requests : Rejects(r)) /\ record'[x] = "removed" =>
                        e \in reported
<1>0. /\ record'[x] # record[x] /\ x \in Records /\ record \in [Records -> RecordStates]
      /\ req \in [Requests -> Request]
  BY RecordNames DEF IInv, Types
<1>1. ASSUME NEW side, NEW f, NEW st, Put(side, f, st)
     PROVE  side = "prover" /\ f = e /\ record'[x] = st
  <2>1. x = <<side, f>> /\ record'[x] = st
    BY <1>0, <1>1 DEF Put
  <2> QED BY <2>1
<1>2. ASSUME NEW r \in Requests, Handle(r) PROVE Goal
  <2>0. \A q \in Requests : q # r => req'[q] = req[q]
    BY <1>0, <1>2 DEF Handle, Receive, AssertPublicDid, GetRecord, GetConnection, GetActor,
       GetActorByName, CheckSchemas, SendProofRequest, SendPresentation, ReportProblem,
       DeleteRejected, Fails, Stop, Goto, LookUp
  <2>1. CASE \/ Receive(r) \/ AssertPublicDid(r) \/ GetRecord(r) \/ GetConnection(r)
             \/ GetActor(r) \/ GetActorByName(r) \/ CheckSchemas(r) \/ Fails(r)
    BY <1>0, <2>1 DEF Receive, AssertPublicDid, GetRecord, GetConnection, GetActor,
       GetActorByName, CheckSchemas, Fails, OnlyAsks, exchanges
  <2>2. CASE SendProofRequest(r)
    BY <1>0, <2>2, RecordNames DEF SendProofRequest, Move, Put
  <2>3. CASE SendPresentation(r)
    <3>1. record'[x] = "presentation-sent"
      BY <1>0, <2>3, RecordNames DEF SendPresentation, Move, Put, exchanges
    <3> QED BY <3>1
  <2>4. CASE ReportProblem(r)
    <3>1. Mine(r) # "removed"
      BY <1>0, <2>4 DEF ReportProblem, exchanges
    <3>2. /\ Put("prover", req[r].ex, "abandoned")
          /\ Goto(r, "delete") \/ Stop(r)
          /\ req[r].pc = "call" /\ req[r].op = "reject"
      BY <2>4, <3>1 DEF ReportProblem, At, Op
    <3>3. req[r].ex = e /\ record'[x] = "abandoned"
      BY <1>1, <3>2
    <3>4. req'[r].pc # "call"
      BY <1>0, <3>2 DEF Goto, Stop, Idle, Request
    <3>5. <<"open", e>> \in req[r].seen
      BY <3>2, <3>3, Handler DEF Sound, Rejecting
    <3> QED BY <3>2, <3>3, <3>4, <3>5 DEF Op
  <2>5. CASE DeleteRejected(r)
    <3>1. Put("prover", req[r].ex, "removed") /\ req[r].pc = "delete"
      BY <2>5 DEF DeleteRejected, At
    <3>2. req[r].ex = e /\ record'[x] = "removed"
      BY <1>1, <3>1
    <3>3. e \in reported
      BY <3>1, <3>2, Handler DEF Sound, Asked, Rejecting
    <3> QED BY <3>2, <3>3
  <2> QED BY <1>2, <2>1, <2>2, <2>3, <2>4, <2>5 DEF Handle
<1>3. ASSUME NEW f \in Exchanges, Agents(f) PROVE Goal
  <2>1. UNCHANGED req
    BY <1>3 DEF Agents, CreateProofRequest, ReceiveRequest, ReceivePresentation, ReceiveAck,
       ReceiveProblem, DeleteProof, Inside
  <2>2. record'[x] # "abandoned"
    <3>1. ASSUME NEW side, NEW g, NEW st, Put(side, g, st),
                 st \in {"request-received", "done", "removed"} \/ side = "verifier"
          PROVE  record'[x] # "abandoned"
      BY <1>1, <3>1, RecordNames
    <3>2. CASE CreateProofRequest(f) \/ ReceiveRequest(f) \/ ReceiveProblem(f)
      BY <1>0, <3>1, <3>2 DEF CreateProofRequest, ReceiveRequest, ReceiveProblem
    <3>3. CASE ReceivePresentation(f) \/ ReceiveAck(f)
      BY <1>0, <3>1, <3>3 DEF ReceivePresentation, ReceiveAck, Complete
    <3>4. ASSUME NEW side \in Sides, DeleteProof(side, f) PROVE record'[x] # "abandoned"
      BY <3>1, <3>4 DEF DeleteProof
    <3> QED BY <1>3, <3>2, <3>3, <3>4 DEF Agents
  <2> QED BY <2>1, <2>2
<1>4. CASE Operate \/ UNCHANGED vars
  BY <1>0, <1>4 DEF Operate, exchanges, vars
<1>5. Goal
  BY <1>2, <1>3, <1>4 DEF Next
<1> QED BY <1>5

LEMMA Invariant == Spec => []IInv
BY InitInv, NextInv, PTL DEF Spec

\* Every variable keeps its type; an acceptance of an indy proof over a connection
\* reveals something when it is sent (accept_proof_request, are_valid_schemas).
THEOREM TypeCorrect == Spec => []TypeOK
BY Invariant, InvIsTyped, PTL

\* Over a connection, a wallet presents only to a registered verifier and only
\* registered schemas (assert_valid_prover).
THEOREM PresentsOnlyToVerifiers == Spec => []PresentedOnlyToVerifiers
<1>1. IInv => PresentedOnlyToVerifiers
  BY DEF IInv, ExchangesSound
<1> QED BY <1>1, Invariant, PTL

\* Over a connection, a tenant sends proof requests only as a registered verifier
\* (assert_valid_verifier).
THEOREM RequestsOnlyByVerifiers == Spec => []RequestedOnlyByVerifiers
<1>1. IInv => RequestedOnlyByVerifiers
  BY DEF IInv, ExchangesSound
<1> QED BY <1>1, Invariant, PTL

\* A rejection abandons only what was open during it, and deletes only what it has
\* reported (reject_proof_request).
THEOREM RejectsWhatIsOpen == Spec => RejectionsAreTold
<1>1. IInv /\ [Next]_vars =>
        [\A e \in Exchanges :
            LET x == <<"prover", e>>
                Rejects(r) == Op(r) = "reject" /\ req[r].ex = e /\ req'[r] # req[r]
            IN record'[x] # record[x] =>
                /\ record'[x] = "abandoned" =>
                        \E r \in Requests : Rejects(r) /\ <<"open", e>> \in req[r].seen
                /\ (\E r \in Requests : Rejects(r)) /\ record'[x] = "removed" =>
                        e \in reported]_vars
  BY RejectionStep
<1> QED BY <1>1, Invariant, PTL DEF Spec, RejectionsAreTold

-----------------------------------------------------------------------------
(* What becomes of an exchange.                                            *)

\* A wallet presents at most once in an exchange, and never once a rejection of it
\* has been reported to the verifier, though requests that accept and reject it
\* race and the agent takes a report in any state (reject_proof_request).
PresentsAtMostOnce ==
    [][\A e \in Exchanges :
        <<"presentation", e>> \in mail' /\ <<"presentation", e>> \notin mail
            => e \notin presented \cup reported]_vars

\* The prover's record remembers what has become of the exchange.
Settled(e, st) ==
    /\ e \in presented => st \in {"presentation-sent", "done", "abandoned", "removed"}
    /\ e \in reported => st \in {"abandoned", "removed"}

SettledInv == \A e \in Exchanges : Settled(e, record[<<"prover", e>>])

\* A step that settles nothing for e but takes its record further.
LEMMA StaysSettled ==
    ASSUME NEW e \in Exchanges, Settled(e, record[<<"prover", e>>]),
           presented' = presented, reported' = reported,
           \/ record'[<<"prover", e>>] = record[<<"prover", e>>]
           \/ record'[<<"prover", e>>] \in {"abandoned", "removed"}
           \/ record[<<"prover", e>>] = "none"
           \/ record[<<"prover", e>>] = "presentation-sent" /\ record'[<<"prover", e>>] = "done"
    PROVE  Settled(e, record[<<"prover", e>>])'
BY DEF Settled

LEMMA SettledStep ==
    ASSUME IInv, SettledInv, [Next]_vars, NEW e \in Exchanges
    PROVE  /\ Settled(e, record[<<"prover", e>>])'
           /\ <<"presentation", e>> \in mail' /\ <<"presentation", e>> \notin mail
                => e \notin presented \cup reported
<1> DEFINE x == <<"prover", e>>
           News == <<"presentation", e>> \in mail' /\ <<"presentation", e>> \notin mail
           Goal == Settled(e, record[x])' /\ (News => e \notin presented \cup reported)
<1>0. /\ Settled(e, record[x]) /\ x \in Records /\ record \in [Records -> RecordStates]
  BY RecordNames DEF IInv, Types, SettledInv
<1>1. ASSUME NEW side, NEW f, NEW st, Put(side, f, st)
      PROVE  record'[x] = record[x] \/ (side = "prover" /\ f = e /\ record'[x] = st)
  <2>1. CASE x = <<side, f>>
    BY <1>0, <1>1, <2>1 DEF Put
  <2>2. CASE x # <<side, f>>
    BY <1>0, <1>1, <2>2 DEF Put
  <2> QED BY <2>1, <2>2
<1>2. ASSUME NEW r \in Requests, Handle(r) PROVE Goal
  <2>1. CASE \/ Receive(r) \/ AssertPublicDid(r) \/ GetRecord(r) \/ GetConnection(r)
             \/ GetActor(r) \/ GetActorByName(r) \/ CheckSchemas(r) \/ Fails(r)
    <3>1. UNCHANGED exchanges
      BY <2>1 DEF Receive, AssertPublicDid, GetRecord, GetConnection, GetActor,
         GetActorByName, CheckSchemas, Fails, OnlyAsks
    <3> QED BY <1>0, <3>1, StaysSettled DEF exchanges
  <2>2. CASE SendProofRequest(r)
    <3>1. PICK f \in Exchanges : /\ Put("verifier", f, "request-sent")
                                 /\ mail' = mail \cup {<<"request", f>>}
      BY <2>2 DEF SendProofRequest, Move
    <3>2. record'[x] = record[x] /\ ~ News /\ UNCHANGED <<presented, reported>>
      BY <1>1, <2>2, <3>1 DEF SendProofRequest
    <3> QED BY <1>0, <3>2, StaysSettled
  <2>3. CASE SendPresentation(r)
    <3>1. CASE UNCHANGED exchanges
      BY <1>0, <3>1, StaysSettled DEF exchanges
    <3>2. CASE ~ UNCHANGED exchanges
      <4>1. /\ Mine(r) = "request-received" /\ UNCHANGED reported
            /\ Put("prover", req[r].ex, "presentation-sent")
            /\ mail' = mail \cup {<<"presentation", req[r].ex>>}
            /\ presented' = presented \cup {req[r].ex}
        BY <2>3, <3>2 DEF SendPresentation, Move
      <4>2. CASE req[r].ex = e
        <5>1. record[x] = "request-received" /\ record'[x] = "presentation-sent"
          BY <1>0, <4>1, <4>2 DEF Mine, Put
        <5>2. e \notin presented \cup reported
          BY <1>0, <5>1 DEF Settled
        <5> QED BY <4>1, <5>1, <5>2 DEF Settled
      <4>3. CASE req[r].ex # e
        <5>1. record'[x] = record[x] /\ ~ News /\ (e \in presented' <=> e \in presented)
          BY <1>1, <4>1, <4>3
        <5> QED BY <1>0, <4>1, <5>1 DEF Settled
      <4> QED BY <4>2, <4>3
    <3> QED BY <3>1, <3>2
  <2>4. CASE ReportProblem(r)
    <3>1. CASE UNCHANGED exchanges
      BY <1>0, <3>1, StaysSettled DEF exchanges
    <3>2. CASE ~ UNCHANGED exchanges
      <4>1. /\ Put("prover", req[r].ex, "abandoned") /\ UNCHANGED presented
            /\ mail' = mail \cup {<<"problem", req[r].ex>>}
            /\ reported' = reported \cup {req[r].ex}
        BY <2>4, <3>2 DEF ReportProblem
      <4>2. ~ News
        BY <4>1
      <4>3. CASE req[r].ex = e
        <5>1. record'[x] = "abandoned"
          BY <1>0, <4>1, <4>3 DEF Put
        <5> QED BY <4>2, <5>1 DEF Settled
      <4>4. CASE req[r].ex # e
        <5>1. record'[x] = record[x] /\ (e \in reported' <=> e \in reported)
          BY <1>1, <4>1, <4>4
        <5> QED BY <1>0, <4>1, <4>2, <5>1 DEF Settled
      <4> QED BY <4>3, <4>4
    <3> QED BY <3>1, <3>2
  <2>5. CASE DeleteRejected(r)
    <3>1. record'[x] = record[x] \/ record'[x] = "removed"
      BY <1>1, <2>5 DEF DeleteRejected
    <3> QED BY <1>0, <2>5, <3>1, StaysSettled DEF DeleteRejected
  <2> QED BY <1>2, <2>1, <2>2, <2>3, <2>4, <2>5 DEF Handle
<1>3. ASSUME NEW f \in Exchanges, Agents(f) PROVE Goal
  <2>1. UNCHANGED <<presented, reported>> /\ ~ News
    BY <1>3 DEF Agents, CreateProofRequest, ReceiveRequest, ReceivePresentation, ReceiveAck,
       ReceiveProblem, DeleteProof, Take
  <2>2. \/ record'[x] = record[x] \/ record'[x] = "removed" \/ record[x] = "none"
        \/ record[x] = "presentation-sent" /\ record'[x] = "done"
    <3>1. CASE CreateProofRequest(f)
      BY <1>1, <3>1 DEF CreateProofRequest
    <3>2. CASE ReceiveRequest(f)
      BY <1>1, <3>2 DEF ReceiveRequest
    <3>3. CASE ReceivePresentation(f)
      BY <1>1, <3>3 DEF ReceivePresentation, Complete
    <3>4. CASE ReceiveAck(f)
      BY <1>1, <3>4 DEF ReceiveAck, Complete
    <3>5. CASE ReceiveProblem(f)
      BY <1>1, <3>5 DEF ReceiveProblem
    <3>6. ASSUME NEW side \in Sides, DeleteProof(side, f)
          PROVE  record'[x] = record[x] \/ record'[x] = "removed"
      BY <1>1, <3>6 DEF DeleteProof
    <3> QED BY <1>3, <3>1, <3>2, <3>3, <3>4, <3>5, <3>6 DEF Agents
  <2> QED BY <1>0, <2>1, <2>2, StaysSettled
<1>4. CASE Operate \/ UNCHANGED vars
  <2>1. UNCHANGED exchanges
    BY <1>4 DEF Operate, vars, exchanges
  <2> QED BY <1>0, <2>1, StaysSettled DEF exchanges
<1> QED BY <1>2, <1>3, <1>4 DEF Next

\* What has been presented is not presented again, and what has been rejected is
\* not presented.
THEOREM PresentsOnce == Spec => PresentsAtMostOnce
<1>1. Init => SettledInv
  BY DEF Init, SettledInv, Settled
<1>2. IInv /\ SettledInv /\ [Next]_vars => SettledInv'
  BY SettledStep DEF SettledInv
<1>3. IInv /\ SettledInv /\ [Next]_vars =>
        [\A e \in Exchanges :
            <<"presentation", e>> \in mail' /\ <<"presentation", e>> \notin mail
                => e \notin presented \cup reported]_vars
  BY SettledStep
<1> QED BY <1>1, <1>2, <1>3, Invariant, PTL DEF Spec, PresentsAtMostOnce

=============================================================================

-------------------------- MODULE Revocation_proofs --------------------------
(***************************************************************************)
(* Proofs about Revocation for every set of credentials, registries,       *)
(* requests and calls, every bound of the polls and every choice of        *)
(* faults.                                                                 *)
(***************************************************************************)
EXTENDS Revocation, TLAPS

\* The agent's and the ledger's sets fit together.
Coherent ==
    /\ pending \cap Published = {}
    /\ revoked \subseteq Published
    /\ ledger \subseteq Published
    /\ \A t \in acked : sent[t] \subseteq ledger /\ sent[t] # {}

\* Where a handler stands tells what its request asked for.
OpsAt(label) ==
    CASE label \in {"publish", "await_txn"} -> {"publish"}
      [] label = "clear" -> {"clear"}
      [] label = "validate" -> {"publish", "clear"}
      [] label = "revoke" -> {"auto", "mark"}
      [] label = "await_record" -> {"auto"}
      [] label = "read" -> {"record", "pending"}
      [] label = "fix" -> {"fix"}
      [] OTHER -> Ops

\* A request whose call of the agent is still to come has sent nothing.
Before == {"idle", "validate", "publish", "clear", "revoke", "read", "fix"}

\* The transactions of a request are acknowledged or still to be waited for.
Awaits(r) ==
    /\ req[r].todo # {}
    /\ \A g \in Registries :
        sent[<<r, g>>] = {} \/ g \in req[r].todo \/ <<r, g>> \in acked

\* The answer of a request is true.
Truthful(r) ==
    /\ Op(r) = "publish" => req[r].told \subseteq ledger
    /\ Op(r) \in {"publish", "auto"} => req[r].told = Carried(r)
    /\ Op(r) = "record" => req[r].told \subseteq Published
    /\ Op(r) = "clear" => req[r].told \cap Covers(call[r].map) = {}
    /\ Op(r) \notin {"publish", "auto", "record", "clear"} => Carried(r) = {}

Sound(r) ==
    /\ Op(r) \in OpsAt(req[r].pc)
    /\ req[r].pc \in Before => Carried(r) = {}
    /\ At(r, "await_txn") => Awaits(r)
    /\ At(r, "done") => Truthful(r)
    /\ ~ At(r, "done") => req[r].told = {}

IInv == TypeOK /\ Coherent /\ \A r \in Requests : Sound(r)

-----------------------------------------------------------------------------
(* Maps and transactions.                                                  *)

\* The credentials a map names and stands for are credentials.
LEMMA MapType ==
    ASSUME TypeOK, NEW r \in Requests
    PROVE  /\ call[r].op \in Ops /\ Op(r) \in Ops
           /\ call[r].map \in Maps /\ DOMAIN call[r].map \subseteq Registries
           /\ Named(call[r].map) \subseteq Creds
           /\ Covers(call[r].map) \subseteq Creds
<1>1. call[r] \in Calls /\ call[r] \in [op : Ops, map : Maps]
  BY RevocationAssumption DEF TypeOK
<1>2. call[r].op \in Ops /\ call[r].map \in Maps
  BY <1>1
<1>3. PICK G \in SUBSET Registries : call[r].map \in [G -> SUBSET Creds]
  BY <1>2 DEF Maps
<1>4. /\ DOMAIN call[r].map = G
      /\ \A g \in DOMAIN call[r].map : call[r].map[g] \subseteq Creds
  BY <1>3
<1>5. Named(call[r].map) \subseteq Creds
  BY <1>4 DEF Named
<1>6. Covers(call[r].map) \subseteq Creds
  BY <1>4 DEF Covers, CredsOf
<1> QED BY <1>2, <1>3, <1>4, <1>5, <1>6 DEF Op

\* Transactions carry credentials.
LEMMA SentType ==
    ASSUME TypeOK
    PROVE  /\ Published \subseteq Creds
           /\ \A r \in Requests : Carried(r) \subseteq Published
           /\ \A t \in Txns : sent[t] \subseteq Published /\ sent[t] \subseteq Creds
BY DEF TypeOK, Published, Carried, Txns

\* What a publication changes, for a request that has sent nothing yet.
LEMMA Publishing ==
    ASSUME TypeOK, NEW r \in Requests, Carried(r) = {}, NEW S \in SUBSET Creds,
           AgentPublishes(r, S)
    PROVE  /\ sent' \in [Txns -> SUBSET Creds]
           /\ Published' = Published \cup S
           /\ Carried(r)' = S
           /\ \A t \in Txns : sent[t] \subseteq sent'[t]
           /\ \A t \in Txns : t[1] # r => sent'[t] = sent[t]
           /\ \A g \in Registries : sent'[<<r, g>>] = S \cap CredsOf(g)
<1>0. \A g \in Registries : sent[<<r, g>>] = {}
  <2> SUFFICES ASSUME NEW g \in Registries PROVE sent[<<r, g>>] \subseteq Carried(r)
    OBVIOUS
  <2> QED BY DEF Carried
<1>1. /\ sent \in [Txns -> SUBSET Creds]
      /\ \A g \in Registries : <<r, g>> \in Txns /\ <<r, g>>[1] = r /\ <<r, g>>[2] = g
      /\ \A g \in Registries : sent[<<r, g>>] = {}
  BY <1>0 DEF TypeOK, Txns
<1>2. \A t \in Txns : sent'[t] = IF t[1] = r THEN S \cap CredsOf(t[2]) ELSE sent[t]
  BY DEF AgentPublishes
<1>3. sent' \in [Txns -> SUBSET Creds]
  BY <1>1 DEF AgentPublishes
<1>4. \A t \in Txns : t[1] # r => sent'[t] = sent[t]
  BY <1>2
<1>5. \A g \in Registries : sent'[<<r, g>>] = S \cap CredsOf(g)
  BY <1>1, <1>2
<1>6. \A t \in Txns : t[1] = r => t = <<r, t[2]>> /\ t[2] \in Registries
  BY DEF Txns
<1>7. \A t \in Txns : sent[t] \subseteq sent'[t]
  <2> TAKE t \in Txns
  <2>1. CASE t[1] = r
    BY <1>1, <1>6, <2>1
  <2>2. CASE t[1] # r
    BY <1>4, <2>2
  <2> QED BY <2>1, <2>2
<1>8. \A c \in S : RegistryOf[c] \in Registries /\ c \in CredsOf(RegistryOf[c])
  BY RevocationAssumption DEF CredsOf
<1>9. Carried(r)' = S
  <2>1. ASSUME NEW c \in Carried(r)' PROVE c \in S
    BY <1>5, <2>1 DEF Carried
  <2>2. ASSUME NEW c \in S PROVE c \in Carried(r)'
    <3>1. RegistryOf[c] \in Registries /\ c \in sent'[<<r, RegistryOf[c]>>]
      BY <1>5, <1>8
    <3> QED BY <3>1 DEF Carried
  <2> QED BY <2>1, <2>2
<1>10. \A t \in Txns : sent'[t] \subseteq sent[t] \cup S
  <2> TAKE t \in Txns
  <2>1. CASE t[1] = r
    <3>1. sent'[t] = S \cap CredsOf(t[2])
      BY <1>2, <2>1
    <3> QED BY <3>1
  <2>2. CASE t[1] # r
    BY <1>4, <2>2
  <2> QED BY <2>1, <2>2
<1>11. \A c \in S : \E t \in Txns : c \in sent'[t]
  <2> TAKE c \in S
  <2>1. /\ <<r, RegistryOf[c]>> \in Txns
        /\ c \in sent'[<<r, RegistryOf[c]>>]
    BY <1>1, <1>5, <1>8
  <2> QED BY <2>1
<1>12. Published' = Published \cup S
  <2>1. ASSUME NEW c \in Published' PROVE c \in Published \cup S
    <3>1. PICK t \in Txns : c \in sent'[t]
      BY DEF Published
    <3> QED BY <1>10, <3>1 DEF Published
  <2>2. ASSUME NEW c \in Published PROVE c \in Published'
    <3>1. PICK t \in Txns : c \in sent[t]
      BY DEF Published
    <3> QED BY <1>7, <3>1 DEF Published
  <2>3. ASSUME NEW c \in S PROVE c \in Published'
    BY <1>11 DEF Published
  <2> QED BY <2>1, <2>2, <2>3
<1> QED BY <1>3, <1>4, <1>5, <1>7, <1>9, <1>12

-----------------------------------------------------------------------------
(* Steps of handlers.                                                      *)

\* One handler moves, within its type.
Moves(r) ==
    /\ req' \in [Requests -> Request]
    /\ \A s \in Requests \ {r} : req'[s] = req[s]

\* The numbers of polls that are counted.
LEMMA BoundType ==
    /\ Bound \in Nat \ {0} /\ 0 \in 0..(Bound - 1)
    /\ MaxPolls \in Nat /\ MaxTries \in Nat
    /\ MaxPolls <= Bound /\ MaxTries <= Bound
BY RevocationAssumption DEF Bound

\* A handler that goes on or ends without an answer.
LEMMA Going ==
    ASSUME TypeOK, NEW r \in Requests, NEW l \in {"idle"} \cup Working \cup Ended,
           NEW todo \in SUBSET Registries, Goto(r, l, todo)
    PROVE  /\ Moves(r) /\ req'[r].pc = l /\ req'[r].todo = todo
           /\ req'[r].told = req[r].told
<1>1. req \in [Requests -> Request] /\ req[r] \in Request
  BY DEF TypeOK
<1>2. [req[r] EXCEPT !.pc = l, !.todo = todo, !.polls = 0] \in Request
  BY <1>1, BoundType DEF Request
<1> QED BY <1>1, <1>2 DEF Goto, Become, Request, Moves

\* A handler that answers.
LEMMA Answering ==
    ASSUME TypeOK, NEW r \in Requests, NEW S \in SUBSET Creds, Answer(r, S)
    PROVE  Moves(r) /\ req'[r].pc = "done" /\ req'[r].told = S
<1>1. req \in [Requests -> Request] /\ req[r] \in Request
  BY DEF TypeOK
<1>2. [req[r] EXCEPT !.pc = "done", !.todo = {}, !.polls = 0, !.told = S] \in Request
  BY <1>1, BoundType DEF Request, Ended
<1> QED BY <1>1, <1>2 DEF Answer, Become, Request, Moves

\* A handler that tries once more, or gives up.
LEMMA Retrying ==
    ASSUME TypeOK, NEW r \in Requests, NEW l \in {"timeout", "failed"},
           Retry(r, MaxPolls, l) \/ Retry(r, MaxTries, l)
    PROVE  /\ Moves(r) /\ req'[r].told = req[r].told
           /\ \/ req'[r].pc = l
              \/ req'[r].pc = req[r].pc /\ req'[r].todo = req[r].todo
<1>1. req \in [Requests -> Request] /\ req[r] \in Request /\ req[r].polls \in Nat
  BY BoundType DEF TypeOK, Request
<1>2. CASE req[r].polls + 1 < Bound /\ Become(r, [req[r] EXCEPT !.polls = @ + 1])
  <2>1. [req[r] EXCEPT !.polls = @ + 1] \in Request
    BY <1>1, <1>2, BoundType DEF Request
  <2> QED BY <1>1, <1>2, <2>1 DEF Become, Request, Moves
<1>3. CASE End(r, l)
  BY <1>3, Going DEF End, Ended
<1>4. \/ req[r].polls + 1 < Bound /\ Become(r, [req[r] EXCEPT !.polls = @ + 1])
      \/ End(r, l)
  BY <1>1, BoundType DEF Retry
<1> QED BY <1>2, <1>3, <1>4

\* Faults are of the kinds that may happen.
LEMMA FaultsType ==
    ASSUME faults \subseteq Faults, NoFault \/ \E f \in FaultKinds : Fault(f)
    PROVE  faults' \subseteq Faults
BY DEF NoFault, Fault

\* What a step of another request, of the agent or of the endorser leaves alone.
Unmoved(r) ==
    /\ req'[r] = req[r] /\ call' = call
    /\ \A g \in Registries : sent'[<<r, g>>] = sent[<<r, g>>]

Grows ==
    /\ acked \subseteq acked' /\ ledger \subseteq ledger'
    /\ Published \subseteq Published'

LEMMA UnmovedSound ==
    ASSUME NEW r \in Requests, Sound(r), Unmoved(r), Grows
    PROVE  Sound(r)'
<1>1. Carried(r)' = Carried(r)
  BY DEF Unmoved, Carried
<1>2. Awaits(r) => Awaits(r)'
  BY DEF Awaits, Unmoved, Grows
<1>3. Truthful(r) => Truthful(r)'
  BY <1>1 DEF Truthful, Unmoved, Grows, Op
<1> QED BY <1>1, <1>2, <1>3 DEF Sound, Unmoved, Op, At

\* A step of one request that keeps the types and the sets, and leaves the
\* request sound.
LEMMA HandlerStep ==
    ASSUME IInv, NEW r \in Requests, TypeOK', Coherent', Moves(r), Grows,
           call' = call, Sound(r)',
           \A t \in Txns : t[1] # r => sent'[t] = sent[t]
    PROVE  IInv'
<1>1. ASSUME NEW s \in Requests PROVE Sound(s)'
  <2>1. CASE s = r
    BY <2>1
  <2>2. CASE s # r
    <3>1. \A g \in Registries : sent'[<<s, g>>] = sent[<<s, g>>]
      BY <2>2 DEF Txns
    <3>2. Unmoved(s)
      BY <2>2, <3>1 DEF Unmoved, Moves
    <3> QED BY <3>2, UnmovedSound DEF IInv
  <2> QED BY <2>1, <2>2
<1> QED BY <1>1 DEF IInv

\* A step of one request that changes nothing but the faults.
LEMMA QuietStep ==
    ASSUME IInv, NEW r \in Requests, Moves(r), Sound(r)',
           NoFault \/ \E f \in FaultKinds : Fault(f),
           UNCHANGED <<agent, acked, ledger, call>>
    PROVE  IInv'
<1>1. TypeOK'
  BY FaultsType DEF IInv, TypeOK, Moves, agent
<1>2. Published' = Published
  BY DEF Published, agent
<1>3. Grows /\ Coherent'
  BY <1>2 DEF Grows, IInv, Coherent, agent
<1> QED BY <1>1, <1>3, HandlerStep DEF agent

-----------------------------------------------------------------------------
(* The invariant.                                                          *)

\* Every initial state satisfies it.
LEMMA InitInv == Init => IInv
<1> SUFFICES ASSUME Init PROVE IInv OBVIOUS
<1>1. TypeOK
  BY BoundType DEF Init, TypeOK, Request
<1>2. Published = {} /\ \A r \in Requests : Carried(r) = {}
  <2>1. \A t \in Txns : sent[t] = {}
    BY DEF Init
  <2>2. \A r \in Requests : \A g \in Registries : <<r, g>> \in Txns
    BY DEF Txns
  <2>3. \A r \in Requests : \A g \in Registries : sent[<<r, g>>] = {}
    BY <2>1, <2>2
  <2> QED BY <2>1, <2>3 DEF Published, Carried
<1>3. Coherent
  BY <1>2 DEF Init, Coherent
<1>4. ASSUME NEW r \in Requests PROVE Sound(r)
  <2>1. At(r, "idle") /\ req[r].told = {}
    BY DEF Init, At
  <2>2. Op(r) \in Ops
    BY <1>1, MapType
  <2> QED BY <1>2, <2>1, <2>2 DEF Sound, OpsAt, At, Op
<1> QED BY <1>1, <1>3, <1>4 DEF IInv

\* A handler that ends without an answer, or has another registry to validate,
\* changes nothing else.
LEMMA EndsSound ==
    ASSUME IInv, NEW r \in Requests, ~ At(r, "done"), NEW l \in Ended \ {"done"},
           End(r, l)
    PROVE  Moves(r) /\ (call' = call => Sound(r)')
<1>1. Moves(r) /\ req'[r].pc = l /\ req'[r].told = req[r].told
  BY Going DEF IInv, End
<1>2. Op(r) \in Ops /\ req[r].told = {}
  BY MapType DEF IInv, Sound
<1> QED BY <1>1, <1>2 DEF Sound, OpsAt, Before, Ended, At, Op

\* Requests that begin, and the validation of what they name.
LEMMA BeginStep ==
    ASSUME IInv, NEW r \in Requests, Begin(r) PROVE IInv'
<1>1. /\ TypeOK /\ Sound(r) /\ Op(r) \in Ops /\ DOMAIN call[r].map \subseteq Registries
      /\ UNCHANGED <<agent, acked, ledger, call>> /\ NoFault /\ At(r, "idle")
  BY MapType DEF IInv, Begin, NoFault
<1>2. PICK l \in Before, todo \in SUBSET Registries : Goto(r, l, todo) /\ Op(r) \in OpsAt(l)
  <2>1. CASE Op(r) \in {"auto", "mark"}
    <3>1. Goto(r, "revoke", {})
      BY <2>1 DEF Begin
    <3> QED BY <2>1, <3>1 DEF Before, OpsAt
  <2>2. CASE Op(r) \in {"publish", "clear"}
    <3>1. \/ Goto(r, Op(r), DOMAIN call[r].map)
          \/ Goto(r, "validate", DOMAIN call[r].map)
      BY <2>2 DEF Begin
    <3> QED BY <1>1, <2>2, <3>1 DEF Before, OpsAt
  <2>3. CASE Op(r) \in {"record", "pending"}
    <3>1. Goto(r, "read", {})
      BY <2>3 DEF Begin
    <3> QED BY <2>3, <3>1 DEF Before, OpsAt
  <2>4. CASE Op(r) = "fix"
    <3>1. Goto(r, "fix", {})
      BY <2>4 DEF Begin
    <3> QED BY <2>4, <3>1 DEF Before, OpsAt
  <2> QED BY <1>1, <2>1, <2>2, <2>3, <2>4 DEF Ops
<1>3. Moves(r) /\ req'[r].pc = l /\ req'[r].told = req[r].told
  BY <1>1, <1>2, Going DEF Before, Working
<1>4. Carried(r)' = Carried(r)
  BY <1>1 DEF Carried, agent
<1>5. Sound(r)'
  BY <1>1, <1>2, <1>3, <1>4 DEF Sound, Op, At, Before
<1> QED BY <1>1, <1>3, <1>5, QuietStep

LEMMA ValidateStep ==
    ASSUME IInv, NEW r \in Requests, Validate(r) PROVE IInv'
<1>1. /\ TypeOK /\ Sound(r) /\ Op(r) \in {"publish", "clear"} /\ At(r, "validate")
      /\ UNCHANGED <<agent, acked, ledger, call>>
      /\ NoFault \/ \E f \in FaultKinds : Fault(f)
      /\ req[r].todo \subseteq Registries
  BY DEF IInv, Sound, Validate, OpsAt, At, FaultKinds, TypeOK, Request
<1>2. CASE \E l \in {"not_found", "failed"} : End(r, l)
  BY <1>1, <1>2, EndsSound, Going, QuietStep DEF End, Ended, At
<1>3. CASE \E todo \in SUBSET Registries :
             Goto(r, IF todo = {} THEN Op(r) ELSE "validate", todo)
  <2>1. PICK todo \in SUBSET Registries : Goto(r, IF todo = {} THEN Op(r) ELSE "validate", todo)
    BY <1>3
  <2>2. PICK l \in {"publish", "clear", "validate"} :
            Goto(r, l, todo) /\ Op(r) \in OpsAt(l)
    BY <1>1, <2>1 DEF OpsAt
  <2>3. Moves(r) /\ req'[r].pc = l /\ req'[r].told = req[r].told
    BY <1>1, <2>2, Going DEF Working
  <2>4. Carried(r)' = Carried(r)
    BY <1>1 DEF Carried, agent
  <2>5. Sound(r)'
    BY <1>1, <2>2, <2>3, <2>4 DEF Sound, Op, At, Before
  <2> QED BY <1>1, <2>3, <2>5, QuietStep
<1> QED BY <1>1, <1>2, <1>3 DEF Validate

\* A publication keeps the sets together.
LEMMA PublishingKeeps ==
    ASSUME IInv, NEW r \in Requests, Carried(r) = {}, Moves(r),
           NEW S \in SUBSET Creds, S \cap Published = {}, AgentPublishes(r, S),
           NoFault \/ \E f \in FaultKinds : Fault(f),
           UNCHANGED <<acked, ledger, call>>
    PROVE  /\ TypeOK' /\ Coherent' /\ Grows
           /\ \A t \in Txns : t[1] # r => sent'[t] = sent[t]
           /\ Carried(r)' = S
           /\ \A g \in Registries : sent'[<<r, g>>] = S \cap CredsOf(g)
<1>1. /\ sent' \in [Txns -> SUBSET Creds]
      /\ Published' = Published \cup S
      /\ \A t \in Txns : t[1] # r => sent'[t] = sent[t]
      /\ Carried(r)' = S
      /\ \A g \in Registries : sent'[<<r, g>>] = S \cap CredsOf(g)
  BY Publishing DEF IInv
<1>2. pending' = pending \ S /\ revoked' = revoked
  BY DEF AgentPublishes
<1>3. TypeOK'
  BY <1>1, <1>2, FaultsType DEF IInv, TypeOK, Moves
<1>4. ASSUME NEW t \in acked PROVE t[1] # r
  <2>1. t \in Txns /\ sent[t] # {}
    BY DEF IInv, TypeOK, Coherent
  <2>2. SUFFICES ASSUME t[1] = r PROVE FALSE
    OBVIOUS
  <2>3. t[2] \in Registries /\ t = <<r, t[2]>>
    BY <2>1, <2>2 DEF Txns
  <2>4. sent[<<r, t[2]>>] \subseteq Carried(r)
    BY <2>3 DEF Carried
  <2> QED BY <2>1, <2>3, <2>4
<1>5. Coherent'
  BY <1>1, <1>2, <1>4 DEF Coherent, IInv, TypeOK
<1> QED BY <1>1, <1>3, <1>5 DEF Grows

\* A call of the agent that publishes and fails, for its answer was lost.
LEMMA LostPublication ==
    ASSUME IInv, NEW r \in Requests, Carried(r) = {}, ~ At(r, "done"),
           NEW S \in SUBSET Creds, S \cap Published = {},
           Fails(r, AgentPublishes(r, S)), UNCHANGED <<acked, ledger, call>>
    PROVE  IInv'
<1>1. Moves(r) /\ Sound(r)'
  BY EndsSound DEF Fails, Ended
<1>2. CASE Fault("agent") /\ UNCHANGED agent
  BY <1>1, <1>2, QuietStep DEF FaultKinds
<1>3. CASE Fault("lost") /\ AgentPublishes(r, S)
  <2>1. \E f \in FaultKinds : Fault(f)
    BY <1>3 DEF FaultKinds
  <2> QED BY <1>1, <1>3, <2>1, PublishingKeeps, HandlerStep
<1> QED BY <1>2, <1>3 DEF Fails

LEMMA PublishStep ==
    ASSUME IInv, NEW r \in Requests, PublishRevocations(r) PROVE IInv'
<1> DEFINE S == Covers(call[r].map) \cap pending
<1>1. /\ TypeOK /\ Coherent /\ Op(r) = "publish" /\ At(r, "publish") /\ ~ At(r, "done")
      /\ Carried(r) = {} /\ req[r].told = {}
      /\ UNCHANGED <<acked, ledger, call>>
  BY DEF IInv, Sound, PublishRevocations, OpsAt, At, Before
<1>2. S \in SUBSET Creds /\ S \cap Published = {}
  BY <1>1, MapType DEF Coherent
<1>3. CASE Fails(r, AgentPublishes(r, S))
  BY <1>1, <1>2, <1>3, LostPublication
<1>4. CASE NoFault /\ AgentPublishes(r, S) /\ S = {} /\ Answer(r, {})
  <2>1. Moves(r) /\ req'[r].pc = "done" /\ req'[r].told = {}
    BY <1>1, <1>4, Answering
  <2>2. /\ TypeOK' /\ Coherent' /\ Grows /\ Carried(r)' = S
        /\ \A t \in Txns : t[1] # r => sent'[t] = sent[t]
    BY <1>1, <1>2, <1>4, <2>1, PublishingKeeps
  <2>3. Sound(r)'
    BY <1>1, <1>4, <2>1, <2>2 DEF Sound, Truthful, OpsAt, Ops, Before, At, Op
  <2> QED BY <1>1, <2>1, <2>2, <2>3, HandlerStep
<1>5. CASE /\ NoFault /\ AgentPublishes(r, S) /\ S # {}
           /\ Goto(r, "await_txn", {RegistryOf[c] : c \in S})
  <2> DEFINE todo == {RegistryOf[c] : c \in S}
  <2>1. todo \in SUBSET Registries /\ todo # {}
    BY <1>2, <1>5, RevocationAssumption
  <2>2. Moves(r) /\ req'[r].pc = "await_txn" /\ req'[r].told = {} /\ req'[r].todo = todo
    BY <1>1, <1>5, <2>1, Going DEF Working
  <2>3. /\ TypeOK' /\ Coherent' /\ Grows /\ Carried(r)' = S
        /\ \A t \in Txns : t[1] # r => sent'[t] = sent[t]
        /\ \A g \in Registries : sent'[<<r, g>>] = S \cap CredsOf(g)
    BY <1>1, <1>2, <1>5, <2>2, PublishingKeeps
  <2>4. Awaits(r)'
    <3>1. \A g \in Registries : S \cap CredsOf(g) # {} => g \in todo
      BY DEF CredsOf
    <3> QED BY <2>1, <2>2, <2>3, <3>1 DEF Awaits
  <2>5. Sound(r)'
    BY <1>1, <2>2, <2>4 DEF Sound, OpsAt, Before, At, Op
  <2> QED BY <1>1, <2>2, <2>3, <2>5, HandlerStep
<1> QED BY <1>3, <1>4, <1>5 DEF PublishRevocations, Body

\* An answer about the publication comes when the last transaction is on the
\* ledger.
LEMMA AwaitTransactionStep ==
    ASSUME IInv, NEW r \in Requests, AwaitTransaction(r) PROVE IInv'
<1>1. /\ TypeOK /\ Coherent /\ Op(r) = "publish" /\ ~ At(r, "done")
      /\ req[r].pc = "await_txn" /\ req[r].told = {} /\ Awaits(r)
      /\ UNCHANGED <<agent, acked, ledger, call>>
      /\ NoFault \/ \E f \in FaultKinds : Fault(f)
      /\ req[r].todo \in SUBSET Registries
  BY DEF IInv, Sound, AwaitTransaction, OpsAt, At, FaultKinds, TypeOK, Request
<1>2. Carried(r)' = Carried(r) /\ Current(r) \in req[r].todo
  BY <1>1 DEF Carried, agent, Awaits, Current
<1>3. CASE /\ <<r, Current(r)>> \in acked /\ AfterAck(r) = {}
           /\ Answer(r, Carried(r))
  <2>1. Carried(r) \subseteq ledger
    <3>1. \A g \in Registries : sent[<<r, g>>] = {} \/ <<r, g>> \in acked
      BY <1>1, <1>2, <1>3 DEF Awaits, AfterAck
    <3>2. \A g \in Registries : sent[<<r, g>>] \subseteq ledger
      BY <1>1, <3>1 DEF Coherent
    <3> QED BY <3>2 DEF Carried
  <2>2. Carried(r) \in SUBSET Creds
    BY <1>1, SentType
  <2>3. Moves(r) /\ req'[r].pc = "done" /\ req'[r].told = Carried(r)
    BY <1>1, <1>3, <2>2, Answering
  <2>4. Sound(r)'
    BY <1>1, <1>2, <2>1, <2>3 DEF Sound, Truthful, OpsAt, Ops, Before, At, Op
  <2> QED BY <1>1, <2>3, <2>4, QuietStep
<1>4. CASE /\ <<r, Current(r)>> \in acked /\ AfterAck(r) # {}
           /\ Goto(r, "await_txn", AfterAck(r))
  <2>1. AfterAck(r) \in SUBSET Registries
    BY <1>1 DEF AfterAck
  <2>2. /\ Moves(r) /\ req'[r].pc = "await_txn" /\ req'[r].told = {}
        /\ req'[r].todo = AfterAck(r)
    BY <1>1, <1>4, <2>1, Going DEF Working
  <2>3. Awaits(r)'
    BY <1>1, <1>4, <2>2 DEF Awaits, AfterAck, agent
  <2>4. Sound(r)'
    BY <1>1, <2>2, <2>3 DEF Sound, OpsAt, Before, At, Op
  <2> QED BY <1>1, <2>2, <2>4, QuietStep
<1>5. CASE Retry(r, MaxPolls, "timeout")
  <2>1. /\ Moves(r) /\ req'[r].told = {}
        /\ \/ req'[r].pc = "timeout"
           \/ req'[r].pc = "await_txn" /\ req'[r].todo = req[r].todo
    BY <1>1, <1>5, Retrying
  <2>2. req'[r].pc = "await_txn" => Awaits(r)'
    BY <1>1, <2>1 DEF Awaits, agent
  <2>3. Sound(r)'
    BY <1>1, <2>1, <2>2 DEF Sound, OpsAt, Ops, Before, At, Op
  <2> QED BY <1>1, <2>1, <2>3, QuietStep
<1> QED BY <1>3, <1>4, <1>5 DEF AwaitTransaction, RevokedInfo, IsAcked

\* A step of one request that changes the pending credentials only.
LEMMA PendingStep ==
    ASSUME IInv, NEW r \in Requests, Moves(r), Sound(r)',
           NoFault \/ \E f \in FaultKinds : Fault(f),
           pending' \subseteq Creds, pending' \cap Published = {},
           UNCHANGED <<revoked, sent, acked, ledger, call>>
    PROVE  IInv'
<1>1. TypeOK'
  BY FaultsType DEF IInv, TypeOK, Moves
<1>2. Published' = Published
  BY DEF Published
<1>3. Grows /\ Coherent'
  BY <1>2 DEF Grows, IInv, Coherent
<1> QED BY <1>1, <1>3, HandlerStep

LEMMA ClearStep ==
    ASSUME IInv, NEW r \in Requests, ClearPendingRevocations(r) PROVE IInv'
<1> DEFINE Purge == /\ pending' = pending \ Covers(call[r].map)
                    /\ UNCHANGED <<revoked, sent>>
<1>1. /\ TypeOK /\ Coherent /\ Op(r) = "clear" /\ ~ At(r, "done")
      /\ Carried(r) = {} /\ req[r].told = {}
      /\ UNCHANGED <<acked, ledger, call>>
  BY DEF IInv, Sound, ClearPendingRevocations, OpsAt, At, Before
<1>2. Purge => pending' \subseteq Creds /\ pending' \cap Published = {}
  BY <1>1 DEF TypeOK, Coherent
<1>3. CASE NoFault /\ Purge /\ Answer(r, pending')
  <2>1. Moves(r) /\ req'[r].pc = "done" /\ req'[r].told = pending'
    BY <1>1, <1>2, <1>3, Answering
  <2>2. req'[r].told \cap Covers(call[r].map) = {}
    BY <1>3, <2>1
  <2>3. Sound(r)'
    BY <1>1, <2>1, <2>2 DEF Sound, Truthful, OpsAt, Ops, Before, At, Op
  <2> QED BY <1>1, <1>2, <1>3, <2>1, <2>3, PendingStep
<1>4. CASE Fails(r, Purge)
  <2>1. Moves(r) /\ Sound(r)'
    BY <1>1, <1>4, EndsSound DEF Fails, Ended
  <2>2. CASE Fault("agent") /\ UNCHANGED agent
    BY <1>1, <2>1, <2>2, QuietStep DEF FaultKinds
  <2>3. CASE Fault("lost") /\ Purge
    BY <1>1, <1>2, <2>1, <2>3, PendingStep DEF FaultKinds
  <2> QED BY <1>4, <2>2, <2>3 DEF Fails
<1> QED BY <1>3, <1>4 DEF ClearPendingRevocations, Outstanding, Body

LEMMA RevokeStep ==
    ASSUME IInv, NEW r \in Requests, RevokeCredential(r) PROVE IInv'
<1> DEFINE S == (Named(call[r].map) \cup TakenAlong(r)) \ Published
           Marks == pending' = pending \cup S /\ UNCHANGED <<revoked, sent>>
<1>1. /\ TypeOK /\ Coherent /\ Op(r) \in {"auto", "mark"} /\ ~ At(r, "done")
      /\ Carried(r) = {} /\ req[r].told = {}
      /\ UNCHANGED <<acked, ledger, call>>
  BY DEF IInv, Sound, RevokeCredential, OpsAt, At, Before
<1>2. S \in SUBSET Creds /\ S \cap Published = {}
  BY <1>1, MapType DEF TakenAlong, TypeOK
<1>3. Marks => pending' \subseteq Creds /\ pending' \cap Published = {}
  BY <1>1, <1>2 DEF TypeOK, Coherent
<1>4. CASE /\ Op(r) = "auto" /\ NoFault /\ AgentPublishes(r, S)
           /\ Goto(r, "await_record", {})
  <2>1. Moves(r) /\ req'[r].pc = "await_record" /\ req'[r].told = {}
    BY <1>1, <1>4, Going DEF Working
  <2>2. Sound(r)'
    BY <1>1, <1>4, <2>1 DEF Sound, OpsAt, Before, At, Op
  <2> QED BY <1>1, <1>2, <1>4, <2>1, <2>2, PublishingKeeps, HandlerStep
<1>5. CASE Op(r) = "auto" /\ Fails(r, AgentPublishes(r, S))
  BY <1>1, <1>2, <1>5, LostPublication
<1>6. CASE Op(r) = "mark" /\ NoFault /\ Marks /\ Answer(r, {})
  <2>1. Moves(r) /\ req'[r].pc = "done" /\ req'[r].told = {}
    BY <1>1, <1>6, Answering
  <2>2. Carried(r)' = {}
    BY <1>1, <1>6 DEF Carried
  <2>3. Sound(r)'
    BY <1>1, <1>6, <2>1, <2>2 DEF Sound, Truthful, OpsAt, Ops, Before, At, Op
  <2> QED BY <1>1, <1>3, <1>6, <2>1, <2>3, PendingStep
<1>7. CASE Op(r) = "mark" /\ Fails(r, Marks)
  <2>1. Moves(r) /\ Sound(r)'
    BY <1>1, <1>7, EndsSound DEF Fails, Ended
  <2>2. CASE Fault("agent") /\ UNCHANGED agent
    BY <1>1, <2>1, <2>2, QuietStep DEF FaultKinds
  <2>3. CASE Fault("lost") /\ Marks
    BY <1>1, <1>3, <2>1, <2>3, PendingStep DEF FaultKinds
  <2> QED BY <1>7, <2>2, <2>3 DEF Fails
<1> QED BY <1>1, <1>4, <1>5, <1>6, <1>7 DEF RevokeCredential, Fails

LEMMA AwaitRecordStep ==
    ASSUME IInv, NEW r \in Requests, AwaitRecord(r) PROVE IInv'
<1>1. /\ TypeOK /\ Op(r) = "auto" /\ ~ At(r, "done")
      /\ req[r].pc = "await_record" /\ req[r].told = {}
      /\ UNCHANGED <<agent, acked, ledger, call>>
      /\ NoFault \/ \E f \in FaultKinds : Fault(f)
  BY DEF IInv, Sound, AwaitRecord, OpsAt, At, FaultKinds
<1>2. Carried(r)' = Carried(r) /\ Carried(r) \in SUBSET Creds
  BY <1>1, SentType DEF Carried, agent
<1>3. CASE Answer(r, Carried(r))
  <2>1. Moves(r) /\ req'[r].pc = "done" /\ req'[r].told = Carried(r)
    BY <1>1, <1>2, <1>3, Answering
  <2>2. Sound(r)'
    BY <1>1, <1>2, <2>1 DEF Sound, Truthful, OpsAt, Ops, Before, At, Op
  <2> QED BY <1>1, <2>1, <2>2, QuietStep
<1>4. CASE End(r, "failed")
  <2>1. Moves(r) /\ Sound(r)'
    BY <1>1, <1>4, EndsSound DEF Ended
  <2> QED BY <1>1, <2>1, QuietStep
<1>5. CASE Retry(r, MaxTries, "failed")
  <2>1. /\ Moves(r) /\ req'[r].told = {}
        /\ req'[r].pc = "failed" \/ req'[r].pc = "await_record"
    BY <1>1, <1>5, Retrying
  <2>2. Sound(r)'
    BY <1>1, <2>1 DEF Sound, OpsAt, Ops, Before, At, Op
  <2> QED BY <1>1, <2>1, <2>2, QuietStep
<1> QED BY <1>3, <1>4, <1>5 DEF AwaitRecord, RevokedInfo

LEMMA ReadStep ==
    ASSUME IInv, NEW r \in Requests, ReadRecord(r) \/ ReadPending(r) PROVE IInv'
<1>1. /\ TypeOK /\ Coherent /\ Op(r) \in {"record", "pending"} /\ ~ At(r, "done")
      /\ Carried(r) = {}
      /\ UNCHANGED <<agent, acked, ledger, call>>
      /\ NoFault \/ \E f \in FaultKinds : Fault(f)
  BY DEF IInv, Sound, ReadRecord, ReadPending, Read, OpsAt, At, FaultKinds, Before
<1>2. Carried(r)' = {} /\ Published' = Published
  BY <1>1 DEF Carried, Published, agent
<1>3. CASE End(r, "failed")
  <2>1. Moves(r) /\ Sound(r)'
    BY <1>1, <1>3, EndsSound DEF Ended
  <2> QED BY <1>1, <2>1, QuietStep
<1>4. CASE \E S \in SUBSET Creds : Answer(r, S) /\ (Op(r) = "record" => S \subseteq revoked)
  <2>1. PICK S \in SUBSET Creds : Answer(r, S) /\ (Op(r) = "record" => S \subseteq revoked)
    BY <1>4
  <2>2. Moves(r) /\ req'[r].pc = "done" /\ req'[r].told = S
    BY <1>1, <2>1, Answering
  <2>3. Op(r) = "record" => S \subseteq Published
    BY <1>1, <2>1 DEF Coherent
  <2>4. Sound(r)'
    BY <1>1, <1>2, <2>2, <2>3 DEF Sound, Truthful, OpsAt, Ops, Before, At, Op
  <2> QED BY <1>1, <2>2, <2>4, QuietStep
<1> DEFINE found == IF Op(r) = "record" THEN Named(call[r].map) \cap revoked
                    ELSE Covers(call[r].map) \cap pending
<1>5. found \in SUBSET Creds /\ (Op(r) = "record" => found \subseteq revoked)
  BY <1>1, MapType
<1>6. Answer(r, found) \/ End(r, "failed")
  BY DEF ReadRecord, ReadPending, Read, RevocationRecord, PendingPub
<1> QED BY <1>3, <1>4, <1>5, <1>6

LEMMA FixStep ==
    ASSUME IInv, NEW r \in Requests, FixRegistry(r) PROVE IInv'
<1>1. /\ TypeOK /\ Coherent /\ Op(r) = "fix" /\ ~ At(r, "done")
      /\ Carried(r) = {} /\ UNCHANGED <<agent, acked, call>>
      /\ NoFault \/ \E f \in FaultKinds : Fault(f)
      /\ ledger \subseteq ledger' /\ ledger' \subseteq ledger \cup revoked
  BY DEF IInv, Sound, FixRegistry, OpsAt, At, FaultKinds, Before
<1>2. Carried(r)' = {} /\ Published' = Published
  BY <1>1 DEF Carried, Published, agent
<1>3. Moves(r) /\ Sound(r)'
  <2>1. CASE End(r, "failed")
    BY <1>1, <2>1, EndsSound DEF Ended
  <2>2. CASE Answer(r, {})
    <3>1. Moves(r) /\ req'[r].pc = "done" /\ req'[r].told = {}
      BY <1>1, <2>2, Answering
    <3> QED BY <1>1, <1>2, <3>1 DEF Sound, Truthful, OpsAt, Ops, Before, At, Op
  <2> QED BY <2>1, <2>2 DEF FixRegistry
<1>4. TypeOK'
  BY <1>1, <1>3, FaultsType DEF TypeOK, Moves, agent
<1>5. Coherent' /\ Grows
  BY <1>1, <1>2 DEF Coherent, Grows, agent
<1> QED BY <1>1, <1>3, <1>4, <1>5, HandlerStep DEF agent

\* A step of the agent or of the endorser.
LEMMA WorldStep ==
    ASSUME IInv, NEW t \in Txns, UpdateRecords(t) \/ Endorse(t)
    PROVE  IInv'
<1>1. /\ TypeOK /\ Coherent /\ UNCHANGED <<pending, sent, call, req, faults>>
      /\ revoked' = revoked \cup sent[t] /\ sent[t] \subseteq Creds
      /\ sent[t] \subseteq Published
      /\ \/ UNCHANGED <<acked, ledger>>
         \/ /\ acked' = acked \cup {t} /\ sent[t] # {}
            /\ ledger' = ledger \cup sent[t]
  BY SentType DEF IInv, UpdateRecords, Endorse
<1>2. Published' = Published
  BY <1>1 DEF Published
<1>3. TypeOK'
  BY <1>1 DEF TypeOK
<1>4. Coherent' /\ Grows
  BY <1>1, <1>2 DEF Coherent, Grows
<1>5. ASSUME NEW r \in Requests PROVE Sound(r)'
  BY <1>1, <1>4, UnmovedSound DEF IInv, Unmoved
<1> QED BY <1>3, <1>4, <1>5 DEF IInv

LEMMA CrashStep ==
    ASSUME IInv, NEW r \in Requests, Crash(r) PROVE IInv'
<1>1. ~ At(r, "done") /\ UNCHANGED <<agent, acked, ledger, call>>
  BY DEF Crash, At, Working
<1>2. Moves(r) /\ Sound(r)'
  BY <1>1, EndsSound DEF Crash, Ended
<1> QED BY <1>1, <1>2, QuietStep DEF Crash, FaultKinds

\* Steps that change nothing keep it.
LEMMA StutterInv ==
    ASSUME IInv, UNCHANGED vars PROVE IInv'
<1>1. Published' = Published /\ Grows
  BY DEF vars, Published, Grows
<1>2. TypeOK' /\ Coherent'
  BY <1>1 DEF vars, IInv, TypeOK, Coherent
<1>3. ASSUME NEW r \in Requests PROVE Sound(r)'
  BY <1>1, UnmovedSound DEF IInv, Unmoved, vars
<1> QED BY <1>2, <1>3 DEF IInv

LEMMA StepInv == IInv /\ [Next]_vars => IInv'
<1> SUFFICES ASSUME IInv, [Next]_vars PROVE IInv' OBVIOUS
<1>1. ASSUME NEW r \in Requests, Handle(r) PROVE IInv'
  BY <1>1, BeginStep, ValidateStep, PublishStep, AwaitTransactionStep, ClearStep,
     RevokeStep, AwaitRecordStep, ReadStep, FixStep DEF Handle
<1>2. ASSUME NEW r \in Requests, Crash(r) PROVE IInv'
  BY <1>2, CrashStep
<1>3. ASSUME NEW t \in Txns, UpdateRecords(t) \/ Endorse(t) PROVE IInv'
  BY <1>3, WorldStep
<1>4. CASE UNCHANGED vars
  BY <1>4, StutterInv
<1> QED BY <1>1, <1>2, <1>3, <1>4 DEF Next

\* Every reachable state satisfies it.
LEMMA Invariance == Spec => []IInv
BY InitInv, StepInv, PTL DEF Spec

-----------------------------------------------------------------------------
(* What holds of every instance.                                           *)

\* Every variable keeps its type, whatever the requests do.
THEOREM TypeCorrect == Spec => []TypeOK
BY Invariance, PTL DEF IInv

\* publish-revocations answers only with credentials that the ledger has.
THEOREM PublishAnswers == Spec => []PublishAnswersAreOnLedger
<1>1. IInv => PublishAnswersAreOnLedger
  BY DEF IInv, Sound, Truthful, PublishAnswersAreOnLedger
<1> QED BY <1>1, Invariance, PTL

\* What every answer names is true.
THEOREM AnswersTrue == Spec => []AnswersAreTrue
<1>1. IInv => AnswersAreTrue
  <2> SUFFICES ASSUME IInv, NEW r \in Requests, At(r, "done")
               PROVE  CASE Op(r) \in {"publish", "auto"} -> req[r].told = Carried(r)
                        [] Op(r) = "record" -> req[r].told \subseteq Published
                        [] Op(r) = "clear" -> req[r].told \cap Covers(call[r].map) = {}
                        [] OTHER -> Carried(r) = {}
    BY DEF AnswersAreTrue
  <2>1. Truthful(r)
    BY DEF IInv, Sound
  <2> QED BY <2>1 DEF Truthful
<1> QED BY <1>1, Invariance, PTL

-----------------------------------------------------------------------------
(* Steps.                                                                  *)

Takes(c) == \E r \in Requests :
    /\ req[r].pc \in {"publish", "clear", "revoke"} /\ req'[r].pc # req[r].pc
    /\ c \in (IF Op(r) = "auto" THEN Registry(r) ELSE Covers(call[r].map))

\* A handler that leaves the label it stands at.
LEMMA Leaves ==
    ASSUME IInv, NEW r \in Requests, req[r].pc \in {"publish", "clear", "revoke"},
           \/ End(r, "failed") \/ \E S \in SUBSET Creds : Answer(r, S)
           \/ \E l \in {"await_txn", "await_record"}, todo \in SUBSET Registries :
                Goto(r, l, todo)
    PROVE  req'[r].pc # req[r].pc
BY Going, Answering DEF IInv, End, Ended, Working

LEMMA StepTakes ==
    ASSUME IInv, [Next]_vars, NEW c \in pending \ pending'
    PROVE  Takes(c)
<1>1. CASE UNCHANGED vars
  BY <1>1 DEF vars
<1>2. ASSUME NEW t \in Txns, UpdateRecords(t) \/ Endorse(t) PROVE FALSE
  BY <1>2 DEF UpdateRecords, Endorse
<1>3. ASSUME NEW r \in Requests,
             \/ Crash(r) \/ Begin(r) \/ Validate(r) \/ AwaitTransaction(r)
             \/ AwaitRecord(r) \/ ReadRecord(r) \/ ReadPending(r) \/ FixRegistry(r)
      PROVE  FALSE
  BY <1>3 DEF Crash, Begin, Validate, AwaitTransaction, AwaitRecord, Read, ReadRecord, ReadPending,
      FixRegistry, agent
<1>4. ASSUME NEW r \in Requests, PublishRevocations(r) PROVE Takes(c)
  <2> DEFINE S == Covers(call[r].map) \cap pending
  <2>1. At(r, "publish") /\ S \subseteq Creds /\ Op(r) # "auto"
    BY <1>4, MapType DEF PublishRevocations, IInv, Sound, OpsAt, At
  <2>2. c \in S
    BY <1>4 DEF PublishRevocations, Fails, AgentPublishes, agent, Body
  <2>3. {RegistryOf[d] : d \in S} \in SUBSET Registries
    BY <2>1, RevocationAssumption
  <2>4. \/ End(r, "failed") \/ Answer(r, {})
        \/ Goto(r, "await_txn", {RegistryOf[d] : d \in S})
    BY <1>4 DEF PublishRevocations, Fails, Body
  <2>5. req'[r].pc # req[r].pc
    BY <2>1, <2>3, <2>4, Leaves DEF At
  <2> QED BY <2>1, <2>2, <2>5 DEF Takes, At
<1>5. ASSUME NEW r \in Requests, ClearPendingRevocations(r) PROVE Takes(c)
  <2>1. At(r, "clear") /\ c \in Covers(call[r].map) /\ Op(r) # "auto"
    BY <1>5 DEF ClearPendingRevocations, Fails, agent, Outstanding, Body, IInv, Sound, OpsAt, At
  <2>2. pending' \subseteq Creds
    BY <1>5 DEF ClearPendingRevocations, Fails, agent, Outstanding, IInv, TypeOK
  <2>3. End(r, "failed") \/ Answer(r, pending')
    BY <1>5 DEF ClearPendingRevocations, Fails
  <2>4. req'[r].pc # req[r].pc
    BY <2>1, <2>2, <2>3, Leaves DEF At
  <2> QED BY <2>1, <2>4 DEF Takes, At
<1>6. ASSUME NEW r \in Requests, RevokeCredential(r) PROVE Takes(c)
  <2>1. /\ At(r, "revoke") /\ Op(r) = "auto"
        /\ c \in Named(call[r].map) \cup TakenAlong(r)
    BY <1>6 DEF RevokeCredential, Fails, AgentPublishes, agent, IInv, Sound, OpsAt, At
  <2>2. c \in Registry(r)
    BY <2>1, MapType DEF TakenAlong, Registry, CredsOf, IInv
  <2>3. End(r, "failed") \/ Answer(r, {}) \/ Goto(r, "await_record", {})
    BY <1>6 DEF RevokeCredential, Fails
  <2>4. req'[r].pc # req[r].pc
    BY <2>1, <2>3, Leaves DEF At
  <2> QED BY <2>1, <2>2, <2>4 DEF Takes, At
<1> QED BY <1>1, <1>2, <1>3, <1>4, <1>5, <1>6 DEF Next, Handle

\* Only a request whose map stands for a credential, or that publishes a
\* revocation of the same registry, takes it from the pending ones.
THEOREM PendingLeaves == Spec => PendingLeavesOnRequest
<1>1. IInv /\ [Next]_vars =>
        [\A c \in pending \ pending' : \E r \in Requests :
            /\ req[r].pc \in {"publish", "clear", "revoke"} /\ req'[r].pc # req[r].pc
            /\ c \in (IF Op(r) = "auto" THEN Registry(r) ELSE Covers(call[r].map))]_vars
  BY StepTakes DEF Takes
<1> QED BY <1>1, Invariance, PTL DEF Spec, PendingLeavesOnRequest

-----------------------------------------------------------------------------
(* Revocation implements CredentialStatus.                                 *)

Told == Toldby({"publish"})

\* A step that leaves the answers of all other requests alone tells at most what
\* this one answers.
LEMMA Telling ==
    ASSUME IInv, NEW r \in Requests, Moves(r), call' = call, ~ At(r, "done")
    PROVE  Told' = Told \cup (IF Op(r) = "publish" THEN req'[r].told ELSE {})
<1> DEFINE asked == {s \in Requests : Op(s) \in {"publish"}}
<1>1. Told = UNION {req[s].told : s \in asked} /\ asked' = asked
  BY DEF Told, Toldby, Op
<1>2. Told' = UNION {req'[s].told : s \in asked}
  BY <1>1 DEF Told, Toldby
<1>3. req[r].told = {} /\ \A s \in asked : s # r => req'[s].told = req[s].told
  BY DEF IInv, Sound, Moves
<1>4. \A s \in asked : req[s].told \subseteq req'[s].told
  BY <1>3
<1>5. r \in asked <=> Op(r) = "publish"
  OBVIOUS
<1>6. ASSUME NEW c \in Told' PROVE c \in Told \/ (r \in asked /\ c \in req'[r].told)
  BY <1>1, <1>2, <1>3, <1>6
<1>7. ASSUME NEW c \in Told PROVE c \in Told'
  BY <1>1, <1>2, <1>4, <1>7
<1>8. ASSUME r \in asked, NEW c \in req'[r].told PROVE c \in Told'
  BY <1>2, <1>8
<1> QED BY <1>5, <1>6, <1>7, <1>8

\* A handler that moves without an answer tells nothing.
LEMMA TellsNothing ==
    ASSUME IInv, NEW r \in Requests, ~ At(r, "done"), Moves(r), call' = call,
           req'[r].told = {} \/ Op(r) # "publish"
    PROVE  Told' = Told
BY Telling

\* Every way a handler moves.
LEMMA Movements ==
    ASSUME IInv, NEW r \in Requests, ~ At(r, "done"),
           \/ \E l \in Working \cup (Ended \ {"done"}), todo \in SUBSET Registries :
                Goto(r, l, todo)
           \/ \E l \in Ended \ {"done"} : End(r, l)
           \/ Answer(r, {})
           \/ Retry(r, MaxPolls, "timeout") \/ Retry(r, MaxTries, "failed")
    PROVE  Moves(r) /\ req'[r].told = {}
<1>1. TypeOK /\ req[r].told = {}
  BY DEF IInv, Sound
<1>2. CASE \E l \in Working \cup (Ended \ {"done"}), todo \in SUBSET Registries :
             Goto(r, l, todo)
  BY <1>1, <1>2, Going
<1>3. CASE \E l \in Ended \ {"done"} : End(r, l)
  BY <1>1, <1>3, Going DEF End
<1>4. CASE Answer(r, {})
  BY <1>1, <1>4, Answering
<1>5. CASE Retry(r, MaxPolls, "timeout") \/ Retry(r, MaxTries, "failed")
  BY <1>1, <1>5, Retrying
<1> QED BY <1>2, <1>3, <1>4, <1>5

\* A step that changes none of the four sets, or one of them as it may.
LEMMA StatusStep ==
    ASSUME \/ UNCHANGED <<pending, Published, ledger, Told>>
           \/ \E S \in SUBSET Creds :
                \/ /\ S \cap Published = {} /\ pending' = pending \cup S
                   /\ UNCHANGED <<Published, ledger, Told>>
                \/ /\ pending' = pending \ S
                   /\ UNCHANGED <<Published, ledger, Told>>
                \/ /\ S \cap Published = {} /\ Published' = Published \cup S
                   /\ pending' = pending \ S /\ UNCHANGED <<ledger, Told>>
                \/ /\ S \subseteq Published /\ ledger' = ledger \cup S
                   /\ UNCHANGED <<pending, Published, Told>>
                \/ /\ S \subseteq ledger /\ Told' = Told \cup S
                   /\ UNCHANGED <<pending, Published, ledger>>
    PROVE  [Status!Next]_(Status!vars)
BY DEF Status!Next, Status!vars, Status!Mark, Status!Unmark, Status!Send,
    Status!Write, Status!Tell, Told

\* A handler that changes nothing of the agent or the ledger.
LEMMA QuietMaps ==
    ASSUME IInv, NEW r \in Requests, ~ At(r, "done"), Moves(r),
           req'[r].told = {} \/ Op(r) # "publish",
           UNCHANGED <<pending, sent, ledger, call>>
    PROVE  [Status!Next]_(Status!vars)
<1>1. Told' = Told /\ Published' = Published
  BY TellsNothing DEF Published
<1> QED BY <1>1, StatusStep

\* A call of the agent that publishes, whatever becomes of its answer.
LEMMA PublishingMaps ==
    ASSUME IInv, NEW r \in Requests, ~ At(r, "done"), Carried(r) = {},
           Moves(r), req'[r].told = {}, UNCHANGED <<ledger, call>>,
           NEW S \in SUBSET Creds, S \cap Published = {}, AgentPublishes(r, S)
    PROVE  [Status!Next]_(Status!vars)
<1>1. Told' = Told /\ Published' = Published \cup S /\ pending' = pending \ S
  BY TellsNothing, Publishing DEF IInv, AgentPublishes
<1> QED BY <1>1, StatusStep

LEMMA PublishMaps ==
    ASSUME IInv, NEW r \in Requests, PublishRevocations(r)
    PROVE  [Status!Next]_(Status!vars)
<1> DEFINE S == Covers(call[r].map) \cap pending
<1>1. /\ ~ At(r, "done") /\ Carried(r) = {} /\ S \in SUBSET Creds
      /\ S \cap Published = {} /\ UNCHANGED <<ledger, call>>
  BY MapType DEF IInv, Sound, Coherent, PublishRevocations, At, Before
<1>2. Moves(r) /\ req'[r].told = {}
  <2>1. {RegistryOf[c] : c \in S} \in SUBSET Registries
    BY <1>1, RevocationAssumption
  <2>2. \/ End(r, "failed") \/ Answer(r, {})
        \/ Goto(r, "await_txn", {RegistryOf[c] : c \in S})
    BY DEF PublishRevocations, Fails, Body
  <2> QED BY <1>1, <2>1, <2>2, Movements DEF Working, Ended
<1>3. AgentPublishes(r, S) \/ UNCHANGED agent
  BY DEF PublishRevocations, Fails, Body
<1> QED BY <1>1, <1>2, <1>3, PublishingMaps, QuietMaps DEF agent

LEMMA AwaitTransactionMaps ==
    ASSUME IInv, NEW r \in Requests, AwaitTransaction(r)
    PROVE  [Status!Next]_(Status!vars)
<1>1. /\ ~ At(r, "done") /\ UNCHANGED <<agent, ledger, call>> /\ IInv'
      /\ Op(r) = "publish" /\ req[r].todo \in SUBSET Registries
      /\ Published' = Published
  BY AwaitTransactionStep DEF IInv, Sound, OpsAt, TypeOK, Request, AwaitTransaction,
      At, agent, Published
<1>2. CASE Answer(r, Carried(r))
  <2>1. Carried(r) \in SUBSET Creds
    BY SentType DEF IInv
  <2>2. Moves(r) /\ req'[r].pc = "done" /\ req'[r].told = Carried(r)
    BY <1>2, <2>1, Answering DEF IInv
  <2>3. Carried(r) \subseteq ledger
    BY <1>1, <2>2 DEF IInv, Sound, Truthful, At, Op
  <2>4. Told' = Told \cup Carried(r)
    BY <1>1, <2>2, Telling
  <2> QED BY <1>1, <2>1, <2>3, <2>4, StatusStep DEF agent
<1>3. CASE \/ Goto(r, "await_txn", AfterAck(r)) \/ Retry(r, MaxPolls, "timeout")
  <2>1. Moves(r) /\ req'[r].told = {}
    BY <1>1, <1>3, Movements DEF Working, AfterAck
  <2> QED BY <1>1, <2>1, QuietMaps DEF agent
<1> QED BY <1>2, <1>3 DEF AwaitTransaction, RevokedInfo

LEMMA ClearMaps ==
    ASSUME IInv, NEW r \in Requests, ClearPendingRevocations(r)
    PROVE  [Status!Next]_(Status!vars)
<1>1. /\ ~ At(r, "done") /\ UNCHANGED <<ledger, call>> /\ Op(r) = "clear"
      /\ UNCHANGED sent /\ Published' = Published
      /\ pending' = pending \ Covers(call[r].map) \/ pending' = pending
      /\ Covers(call[r].map) \in SUBSET Creds /\ pending' \in SUBSET Creds
  BY MapType DEF IInv, Sound, OpsAt, TypeOK, ClearPendingRevocations, At, agent,
      Published, Fails, Outstanding, Body
<1>2. Moves(r)
  <2>1. CASE End(r, "failed")
    BY <1>1, <2>1, Movements DEF Ended
  <2>2. CASE Answer(r, pending')
    BY <1>1, <2>2, Answering DEF IInv
  <2> QED BY <2>1, <2>2 DEF ClearPendingRevocations, Fails
<1>3. Told' = Told
  BY <1>1, <1>2, TellsNothing
<1> QED BY <1>1, <1>3, StatusStep

LEMMA RevokeMaps ==
    ASSUME IInv, NEW r \in Requests, RevokeCredential(r)
    PROVE  [Status!Next]_(Status!vars)
<1> DEFINE S == (Named(call[r].map) \cup TakenAlong(r)) \ Published
<1>1. /\ ~ At(r, "done") /\ Carried(r) = {} /\ S \in SUBSET Creds
      /\ S \cap Published = {} /\ UNCHANGED <<ledger, call>>
  BY MapType DEF IInv, TypeOK, Sound, RevokeCredential, TakenAlong, At, Before
<1>2. Moves(r) /\ req'[r].told = {}
  <2>1. End(r, "failed") \/ Answer(r, {}) \/ Goto(r, "await_record", {})
    BY DEF RevokeCredential, Fails
  <2> QED BY <1>1, <2>1, Movements DEF Working, Ended
<1>3. \/ AgentPublishes(r, S) \/ UNCHANGED agent
      \/ pending' = pending \cup S /\ UNCHANGED <<revoked, sent>>
  BY DEF RevokeCredential, Fails
<1>4. CASE pending' = pending \cup S /\ UNCHANGED <<revoked, sent>>
  <2>1. Told' = Told /\ Published' = Published
    BY <1>1, <1>2, <1>4, TellsNothing DEF Published
  <2> QED BY <1>1, <1>4, <2>1, StatusStep
<1> QED BY <1>1, <1>2, <1>3, <1>4, PublishingMaps, QuietMaps DEF agent

LEMMA OtherMaps ==
    ASSUME IInv, NEW r \in Requests,
           \/ Begin(r) \/ Validate(r) \/ AwaitRecord(r) \/ Crash(r)
           \/ ReadRecord(r) \/ ReadPending(r)
    PROVE  [Status!Next]_(Status!vars)
<1>1. ~ At(r, "done") /\ UNCHANGED <<pending, sent, ledger, call>>
  BY DEF Begin, Validate, AwaitRecord, Read, ReadRecord, ReadPending, Crash, At,
         agent, Working
<1>2. /\ Op(r) \in Ops /\ DOMAIN call[r].map \in SUBSET Registries
      /\ req[r].todo \in SUBSET Registries
      /\ Covers(call[r].map) \in SUBSET Creds /\ Named(call[r].map) \in SUBSET Creds
      /\ Carried(r) \in SUBSET Creds
  BY MapType, SentType DEF IInv, TypeOK, Request
<1>3. CASE Begin(r)
  <2>1. \E l \in Working, todo \in SUBSET Registries : Goto(r, l, todo)
    <3>1. CASE Op(r) \in {"auto", "mark"}
      BY <1>3, <3>1 DEF Begin, Working
    <3>2. CASE Op(r) \in {"publish", "clear"}
      <4>1. \/ Goto(r, Op(r), DOMAIN call[r].map)
            \/ Goto(r, "validate", DOMAIN call[r].map)
        BY <1>3, <3>2 DEF Begin
      <4> QED BY <1>2, <3>2, <4>1 DEF Working
    <3>3. CASE Op(r) \in {"record", "pending"}
      BY <1>3, <3>3 DEF Begin, Working
    <3>4. CASE Op(r) = "fix"
      BY <1>3, <3>4 DEF Begin, Working
    <3> QED BY <1>2, <3>1, <3>2, <3>3, <3>4 DEF Ops
  <2> QED BY <1>1, <2>1, Movements, QuietMaps
<1>4. CASE Validate(r)
  <2>1. Op(r) \in {"publish", "clear"}
    BY <1>4 DEF Validate, IInv, Sound, OpsAt, At
  <2>2. \/ End(r, "not_found") \/ End(r, "failed")
        \/ \E todo \in SUBSET Registries : Goto(r, IF todo = {} THEN Op(r) ELSE "validate", todo)
    BY <1>2, <1>4 DEF Validate
  <2>3. \/ \E l \in Ended \ {"done"} : End(r, l)
        \/ \E l \in Working, todo \in SUBSET Registries : Goto(r, l, todo)
    BY <2>1, <2>2 DEF Ended, Working
  <2> QED BY <1>1, <2>3, Movements, QuietMaps
<1>5. CASE AwaitRecord(r)
  <2>1. Op(r) = "auto"
    BY <1>5 DEF AwaitRecord, IInv, Sound, OpsAt, At
  <2>2. CASE Answer(r, Carried(r))
    BY <1>1, <1>2, <2>1, <2>2, Answering, QuietMaps DEF IInv
  <2>3. CASE End(r, "failed") \/ Retry(r, MaxTries, "failed")
    BY <1>1, <2>3, Movements, QuietMaps DEF Ended
  <2> QED BY <1>5, <2>2, <2>3 DEF AwaitRecord, RevokedInfo
<1>6. CASE ReadRecord(r) \/ ReadPending(r)
  <2>1. Op(r) \in {"record", "pending"}
    BY <1>6 DEF ReadRecord, ReadPending
  <2>2. CASE End(r, "failed")
    BY <1>1, <2>2, Movements, QuietMaps DEF Ended
  <2>3. CASE \E S \in SUBSET Creds : Answer(r, S)
    BY <1>1, <2>1, <2>3, Answering, QuietMaps DEF IInv
  <2>4. \/ End(r, "failed")
        \/ Answer(r, Named(call[r].map) \cap revoked)
        \/ Answer(r, Covers(call[r].map) \cap pending)
    BY <1>6 DEF ReadRecord, ReadPending, Read, RevocationRecord, PendingPub
  <2>5. /\ Named(call[r].map) \cap revoked \in SUBSET Creds
        /\ Covers(call[r].map) \cap pending \in SUBSET Creds
    BY <1>2
  <2> QED BY <2>2, <2>3, <2>4, <2>5
<1>7. CASE Crash(r)
  BY <1>1, <1>7, Movements, QuietMaps DEF Crash, Ended
<1> QED BY <1>3, <1>4, <1>5, <1>6, <1>7

LEMMA FixMaps ==
    ASSUME IInv, NEW r \in Requests, FixRegistry(r)
    PROVE  [Status!Next]_(Status!vars)
<1> DEFINE S(g) == revoked \cap CredsOf(g)
<1>1. /\ ~ At(r, "done") /\ UNCHANGED <<pending, sent, call>> /\ Published' = Published
      /\ \A g : S(g) \in SUBSET Creds /\ S(g) \subseteq Published
  BY DEF FixRegistry, At, agent, Published, IInv, TypeOK, Coherent
<1>2. Moves(r) /\ req'[r].told = {}
  <2>1. End(r, "failed") \/ Answer(r, {})
    BY DEF FixRegistry
  <2> QED BY <1>1, <2>1, Movements DEF Ended
<1>3. Told' = Told
  BY <1>1, <1>2, TellsNothing
<1>4. UNCHANGED ledger \/ \E g : ledger' = ledger \cup S(g)
  BY DEF FixRegistry
<1> QED BY <1>1, <1>3, <1>4, StatusStep

LEMMA WorldMaps ==
    ASSUME IInv, NEW t \in Txns, UpdateRecords(t) \/ Endorse(t)
    PROVE  [Status!Next]_(Status!vars)
<1>1. /\ UNCHANGED <<pending, sent, call, req>> /\ Published' = Published
      /\ sent[t] \in SUBSET Creds /\ sent[t] \subseteq Published
      /\ UNCHANGED ledger \/ ledger' = ledger \cup sent[t]
  BY SentType DEF UpdateRecords, Endorse, Published, IInv
<1>2. Told' = Told
  BY <1>1 DEF Told, Toldby, Op
<1> QED BY <1>1, <1>2, StatusStep

LEMMA StepMaps == IInv /\ [Next]_vars => [Status!Next]_(Status!vars)
<1> SUFFICES ASSUME IInv, [Next]_vars PROVE [Status!Next]_(Status!vars) OBVIOUS
<1>1. ASSUME NEW r \in Requests, Handle(r) \/ Crash(r)
      PROVE  [Status!Next]_(Status!vars)
  BY <1>1, PublishMaps, AwaitTransactionMaps, ClearMaps, RevokeMaps, FixMaps, OtherMaps
  DEF Handle
<1>2. ASSUME NEW t \in Txns, UpdateRecords(t) \/ Endorse(t)
      PROVE  [Status!Next]_(Status!vars)
  BY <1>2, WorldMaps
<1>3. CASE UNCHANGED vars
  <2>1. UNCHANGED <<pending, Published, ledger, Told>>
    BY <1>3 DEF vars, Published, Told, Toldby, Op
  <2> QED BY <2>1, StatusStep
<1> QED BY <1>1, <1>2, <1>3 DEF Next

LEMMA InitMaps == Init => Status!Init
<1> SUFFICES ASSUME Init PROVE Status!Init OBVIOUS
<1>1. Published = {}
  BY DEF Init, Published
<1>2. Toldby({"publish"}) = {}
  BY DEF Init, Toldby
<1> QED BY <1>1, <1>2 DEF Init, Status!Init

\* Revocations go one way, and nobody is told of one before the ledger has it:
\* the requests, the agent and the endorser together implement CredentialStatus.
THEOREM RevocationImplementsStatus == Spec => ImplementsCredentialStatus
BY InitMaps, StepMaps, Invariance, PTL DEF Spec, Status!Spec, ImplementsCredentialStatus

-----------------------------------------------------------------------------
(* A request comes nearer its end with every step.                         *)

\* How far a handler has come.
Labels == {"idle"} \cup Working \cup Ended

Stage == [l \in Labels |->
    CASE l = "idle" -> 0 [] l = "validate" -> 1
      [] l \in {"await_txn", "await_record"} -> 3
      [] l \in Ended -> 4 [] OTHER -> 2]

\* A handler comes nearer its end: it goes on to a later stage, or to the next of
\* its registries, or it polls once more.
Nearer(p, q) ==
    \/ Stage[p.pc] < Stage[q.pc]
    \/ /\ q.pc = p.pc
       /\ \/ q.todo \subseteq p.todo /\ q.todo # p.todo
          \/ q.todo = p.todo /\ p.polls < q.polls

\* Every step of a request's handler, a crash included, brings it nearer its
\* end; no step of anything else moves it.
EachStepIsNearer ==
    [][\A r \in Requests :
        Handle(r) \/ req'[r] # req[r] => Nearer(req[r], req'[r])]_vars

LEMMA Stages ==
    /\ Stage["idle"] = 0 /\ Stage["validate"] = 1
    /\ \A l \in {"publish", "clear", "revoke", "read", "fix"} : Stage[l] = 2
    /\ Stage["await_txn"] = 3 /\ Stage["await_record"] = 3
    /\ \A l \in Ended : Stage[l] = 4
BY DEF Stage, Labels, Working, Ended

\* A handler that ends, whatever it answers.
LEMMA EndsNearer ==
    ASSUME TypeOK, NEW r \in Requests, req[r].pc \in {"idle"} \cup Working,
           \/ \E l \in Ended : End(r, l)
           \/ \E S \in SUBSET Creds : Answer(r, S)
    PROVE  Nearer(req[r], req'[r])
<1>1. req'[r].pc \in Ended
  BY Going, Answering DEF End, Ended
<1> QED BY <1>1, Stages DEF Nearer, Working

\* A handler that goes on to another stage.
LEMMA GoesNearer ==
    ASSUME TypeOK, NEW r \in Requests, NEW l \in Labels,
           NEW todo \in SUBSET Registries, Goto(r, l, todo),
           Stage[req[r].pc] < Stage[l]
    PROVE  Nearer(req[r], req'[r])
BY Going DEF Nearer, Labels

\* A handler that polls.
LEMMA RetriesNearer ==
    ASSUME TypeOK, NEW r \in Requests, req[r].pc \in {"await_txn", "await_record"},
           NEW l \in {"timeout", "failed"},
           Retry(r, MaxPolls, l) \/ Retry(r, MaxTries, l)
    PROVE  Nearer(req[r], req'[r])
<1>1. req \in [Requests -> Request] /\ req[r] \in Request /\ req[r].polls \in Nat
  BY BoundType DEF TypeOK, Request
<1>2. CASE Become(r, [req[r] EXCEPT !.polls = @ + 1])
  <2>1. /\ req'[r].pc = req[r].pc /\ req'[r].todo = req[r].todo
        /\ req'[r].polls = req[r].polls + 1
    BY <1>1, <1>2 DEF Become, Request
  <2> QED BY <1>1, <2>1 DEF Nearer
<1>3. CASE End(r, l)
  BY <1>3, EndsNearer DEF Ended, Working
<1> QED BY <1>2, <1>3 DEF Retry

LEMMA BeginNearer ==
    ASSUME TypeOK, NEW r \in Requests, Begin(r) PROVE Nearer(req[r], req'[r])
<1>1. At(r, "idle") /\ Op(r) \in Ops /\ DOMAIN call[r].map \in SUBSET Registries
  BY MapType DEF Begin
<1>2. PICK l \in Working, todo \in SUBSET Registries : Goto(r, l, todo)
  <2>1. CASE Op(r) \in {"auto", "mark"}
    BY <2>1 DEF Begin, Working
  <2>2. CASE Op(r) \in {"publish", "clear"}
    <3>1. \/ Goto(r, Op(r), DOMAIN call[r].map)
          \/ Goto(r, "validate", DOMAIN call[r].map)
      BY <2>2 DEF Begin
    <3> QED BY <1>1, <2>2, <3>1 DEF Working
  <2>3. CASE Op(r) \in {"record", "pending"}
    BY <2>3 DEF Begin, Working
  <2>4. CASE Op(r) = "fix"
    BY <2>4 DEF Begin, Working
  <2> QED BY <1>1, <2>1, <2>2, <2>3, <2>4 DEF Ops
<1>3. Stage[req[r].pc] < Stage[l]
  BY <1>1, Stages DEF Working, At
<1> QED BY <1>2, <1>3, GoesNearer DEF Labels

\* The next registry is one fewer, and after the last comes the call.
LEMMA ValidateNearer ==
    ASSUME IInv, NEW r \in Requests, Validate(r) PROVE Nearer(req[r], req'[r])
<1> DEFINE g == CHOOSE h \in req[r].todo : TRUE
           todo == req[r].todo \ {g}
<1>1. /\ TypeOK /\ req[r].pc = "validate" /\ Op(r) \in {"publish", "clear"}
      /\ todo \in SUBSET Registries
  BY DEF IInv, Sound, Validate, OpsAt, At, TypeOK, Request
<1>2. CASE \E l \in {"not_found", "failed"} : End(r, l)
  BY <1>1, <1>2, EndsNearer DEF Ended, Working
<1>3. CASE todo = {} /\ Goto(r, Op(r), todo)
  <2>1. Stage[req[r].pc] < Stage[Op(r)] /\ Op(r) \in Labels
    BY <1>1, Stages DEF Labels, Working
  <2> QED BY <1>1, <1>3, <2>1, GoesNearer
<1>4. CASE todo # {} /\ Goto(r, "validate", todo)
  <2>1. g \in req[r].todo
    BY <1>4
  <2>2. req'[r].pc = "validate" /\ req'[r].todo = todo
    BY <1>1, <1>4, Going DEF Working
  <2> QED BY <1>1, <2>1, <2>2 DEF Nearer
<1> QED BY <1>2, <1>3, <1>4 DEF Validate

\* The calls of the agent lead to an end, or to a wait for what they did.
LEMMA CallsNearer ==
    ASSUME IInv, NEW r \in Requests,
           \/ PublishRevocations(r) \/ ClearPendingRevocations(r)
           \/ RevokeCredential(r) \/ ReadRecord(r) \/ ReadPending(r) \/ FixRegistry(r)
    PROVE  Nearer(req[r], req'[r])
<1>1. TypeOK /\ req[r].pc \in {"publish", "clear", "revoke", "read", "fix"}
  BY DEF IInv, PublishRevocations, ClearPendingRevocations, RevokeCredential,
      ReadRecord, ReadPending, Read, FixRegistry, At
<1>2. /\ pending \in SUBSET Creds /\ revoked \in SUBSET Creds
      /\ Outstanding(r) \in SUBSET Creds /\ RevocationRecord(r) \in SUBSET Creds
      /\ PendingPub(r) \in SUBSET Creds
      /\ {RegistryOf[c] : c \in Covers(Body(r)) \cap pending} \in SUBSET Registries
  BY RevocationAssumption DEF IInv, TypeOK, Outstanding, RevocationRecord, PendingPub
<1>3. \/ End(r, "failed") \/ \E S \in SUBSET Creds : Answer(r, S)
      \/ \E l \in {"await_txn", "await_record"}, todo \in SUBSET Registries :
            Goto(r, l, todo)
  <2>1. CASE PublishRevocations(r)
    BY <1>2, <2>1 DEF PublishRevocations, Fails
  <2>2. CASE ClearPendingRevocations(r)
    BY <1>2, <2>2 DEF ClearPendingRevocations, Fails
  <2>3. CASE RevokeCredential(r)
    BY <1>2, <2>3 DEF RevokeCredential, Fails
  <2>4. CASE ReadRecord(r) \/ ReadPending(r)
    BY <1>2, <2>4 DEF ReadRecord, ReadPending, Read
  <2>5. CASE FixRegistry(r)
    BY <1>2, <2>5 DEF FixRegistry
  <2> QED BY <2>1, <2>2, <2>3, <2>4, <2>5
<1>4. CASE \E l \in {"await_txn", "await_record"}, todo \in SUBSET Registries :
             Goto(r, l, todo)
  <2>1. \A l \in {"await_txn", "await_record"} :
            l \in Labels /\ Stage[req[r].pc] < Stage[l]
    BY <1>1, Stages DEF Labels, Working
  <2> QED BY <1>1, <1>4, <2>1, GoesNearer
<1>5. CASE End(r, "failed") \/ \E S \in SUBSET Creds : Answer(r, S)
  BY <1>1, <1>5, EndsNearer DEF Ended, Working
<1> QED BY <1>3, <1>4, <1>5

\* A wait goes on to the next transaction, polls once more, or ends.
LEMMA WaitsNearer ==
    ASSUME IInv, NEW r \in Requests, AwaitTransaction(r) \/ AwaitRecord(r)
    PROVE  Nearer(req[r], req'[r])
<1>1. /\ TypeOK /\ req[r].pc \in {"await_txn", "await_record"}
      /\ Carried(r) \in SUBSET Creds /\ req[r].todo \in SUBSET Registries
  BY SentType DEF IInv, AwaitTransaction, AwaitRecord, At, TypeOK, Request
<1>2. CASE \/ Answer(r, RevokedInfo(r)) \/ End(r, "failed")
           \/ Retry(r, MaxPolls, "timeout") \/ Retry(r, MaxTries, "failed")
  BY <1>1, <1>2, EndsNearer, RetriesNearer DEF RevokedInfo, Ended, Working
<1>3. CASE At(r, "await_txn") /\ Goto(r, "await_txn", AfterAck(r))
  <2>1. Current(r) \in req[r].todo
    BY <1>3 DEF IInv, Sound, Awaits, Current
  <2>2. req'[r].pc = "await_txn" /\ req'[r].todo = AfterAck(r)
    BY <1>1, <1>3, Going DEF AfterAck, Working
  <2> QED BY <1>3, <2>1, <2>2 DEF Nearer, AfterAck, At
<1> QED BY <1>2, <1>3 DEF AwaitTransaction, AwaitRecord

\* A handler's step moves this handler alone.
Alone(r) == \E q : Become(r, q)

LEMMA MovesAlone ==
    ASSUME TypeOK, NEW r \in Requests, Handle(r) \/ Crash(r) PROVE Alone(r)
<1>1. /\ \A l, todo : Goto(r, l, todo) => Alone(r)
      /\ \A l : End(r, l) => Alone(r)
      /\ \A S : Answer(r, S) => Alone(r)
      /\ \A max, l : Retry(r, max, l) => Alone(r)
  BY DEF Goto, End, Answer, Retry, Alone
<1>2. CASE Begin(r)
  <2>1. Op(r) \in Ops
    BY MapType
  <2>2. CASE Op(r) \in {"auto", "mark"}
    BY <1>1, <1>2, <2>2 DEF Begin
  <2>3. CASE Op(r) \in {"publish", "clear"}
    BY <1>1, <1>2, <2>3 DEF Begin
  <2>4. CASE Op(r) \in {"record", "pending"}
    BY <1>1, <1>2, <2>4 DEF Begin
  <2>5. CASE Op(r) = "fix"
    BY <1>1, <1>2, <2>5 DEF Begin
  <2> QED BY <2>1, <2>2, <2>3, <2>4, <2>5 DEF Ops
<1>3. CASE Validate(r)
  BY <1>1, <1>3 DEF Validate
<1>4. CASE PublishRevocations(r)
  BY <1>1, <1>4 DEF PublishRevocations, Fails
<1>5. CASE AwaitTransaction(r)
  BY <1>1, <1>5 DEF AwaitTransaction
<1>6. CASE ClearPendingRevocations(r)
  BY <1>1, <1>6 DEF ClearPendingRevocations, Fails
<1>7. CASE RevokeCredential(r)
  BY <1>1, <1>7 DEF RevokeCredential, Fails
<1>8. CASE AwaitRecord(r)
  BY <1>1, <1>8 DEF AwaitRecord
<1>9. CASE ReadRecord(r) \/ ReadPending(r)
  BY <1>1, <1>9 DEF ReadRecord, ReadPending, Read
<1>10. CASE FixRegistry(r)
  BY <1>1, <1>10 DEF FixRegistry
<1>11. CASE Crash(r)
  BY <1>1, <1>11 DEF Crash
<1> QED BY <1>2, <1>3, <1>4, <1>5, <1>6, <1>7, <1>8, <1>9, <1>10, <1>11 DEF Handle

LEMMA StepNearer ==
    ASSUME IInv, [Next]_vars, NEW r \in Requests, Handle(r) \/ req'[r] # req[r]
    PROVE  Nearer(req[r], req'[r])
<1>1. CASE Handle(r)
  BY <1>1, BeginNearer, ValidateNearer, CallsNearer, WaitsNearer DEF Handle, IInv
<1>2. CASE Crash(r)
  BY <1>2, EndsNearer DEF Crash, IInv, Ended
<1>3. ASSUME NEW s \in Requests, s # r, Handle(s) \/ Crash(s) PROVE req'[r] = req[r]
  <2>1. Alone(s)
    BY <1>3, MovesAlone DEF IInv
  <2> QED BY <1>3, <2>1 DEF Alone, Become, IInv, TypeOK
<1>4. ASSUME UNCHANGED vars \/ \E t \in Txns : UpdateRecords(t) \/ Endorse(t)
      PROVE  req' = req
  BY <1>4 DEF UpdateRecords, Endorse, vars
<1> QED BY <1>1, <1>2, <1>3, <1>4 DEF Next

\* Each step of a request brings it nearer its end, whatever the endorser and
\* the agent do or leave undone: what RequestsEnd rests on, for a request names
\* finitely many registries and polls are at most MaxPolls or MaxTries.
THEOREM RequestsComeNearerTheirEnd == Spec => EachStepIsNearer
<1>1. IInv /\ [Next]_vars =>
        [\A r \in Requests :
            Handle(r) \/ req'[r] # req[r] => Nearer(req[r], req'[r])]_vars
  BY StepNearer
<1> QED BY <1>1, Invariance, PTL DEF Spec, EachStepIsNearer

=============================================================================

----------------------- MODULE IssuerOnboarding_proofs -----------------------
(***************************************************************************)
(* Proofs about IssuerOnboarding for every set of attempts, every bound of *)
(* the polls and every choice of faults.                                   *)
(***************************************************************************)
EXTENDS IssuerOnboarding, TLAPS

Published == ToSet(public)

Answering == {"invite", "done"}

\* What an attempt may rely on, wherever its handler stands.
Knows(a) ==
    /\ a \in Published => task[a].pc \in {"await_attrib"} \cup Answering \cup Ended
    /\ At(a, "await_attrib") => a \in Published
    /\ task[a].pc \in Answering =>
        /\ task[a].did \in Published
        /\ a \in Published => task[a].did = a
        /\ task[a].did = a /\ via[Attrib(a)] = a => Attrib(a) \in acked
    /\ task[a].pc \in {"set_public_did", "await_attrib"} /\ via[Nym(a)] = a =>
        Nym(a) \in acked

KnowsInv == \A a \in Attempts : Knows(a)

IInv == TypeOK /\ KnowsInv

-----------------------------------------------------------------------------
(* Sequences of DIDs as sets.                                              *)

\* A sequence holds what is appended to it, and what it held.
LEMMA PublishedAppend ==
    ASSUME NEW s \in Seq(Attempts), NEW a \in Attempts
    PROVE  ToSet(Append(s, a)) = ToSet(s) \cup {a}
<1>1. /\ Len(Append(s, a)) = Len(s) + 1 /\ Len(s) \in Nat
      /\ \A i \in 1..Len(s) : Append(s, a)[i] = s[i]
      /\ Append(s, a)[Len(s) + 1] = a
      /\ DOMAIN s = 1..Len(s) /\ DOMAIN Append(s, a) = 1..(Len(s) + 1)
  OBVIOUS
<1>2. ASSUME NEW x PROVE x \in ToSet(Append(s, a)) <=> x \in ToSet(s) \cup {a}
  <2>1. ASSUME NEW i \in 1..(Len(s) + 1), x = Append(s, a)[i]
        PROVE  x \in ToSet(s) \cup {a}
    BY <1>1, <2>1 DEF ToSet
  <2>2. ASSUME NEW i \in 1..Len(s), x = s[i] PROVE x \in ToSet(Append(s, a))
    <3>1. i \in 1..(Len(s) + 1) /\ x = Append(s, a)[i]
      BY <1>1, <2>2
    <3> QED BY <1>1, <3>1 DEF ToSet
  <2>3. a \in ToSet(Append(s, a))
    <3>1. Len(s) + 1 \in 1..(Len(s) + 1)
      BY <1>1
    <3> QED BY <1>1, <3>1 DEF ToSet
  <2> QED BY <1>1, <2>1, <2>2, <2>3 DEF ToSet
<1> QED BY <1>2

\* The last DID made public is one that was made public.
LEMMA PublishedLast ==
    ASSUME NEW s \in Seq(Attempts), s # <<>>
    PROVE  Last(s) \in ToSet(s)
<1>1. Len(s) \in Nat /\ Len(s) # 0 /\ DOMAIN s = 1..Len(s)
  OBVIOUS
<1>2. Len(s) \in DOMAIN s
  BY <1>1
<1> QED BY <1>2 DEF ToSet, Last

\* They are DIDs of attempts.
LEMMA PublishedType ==
    ASSUME NEW s \in Seq(Attempts)
    PROVE  ToSet(s) \subseteq Attempts
BY DEF ToSet

-----------------------------------------------------------------------------
(* Steps.                                                                  *)

\* Nothing a step of another attempt does takes away what an attempt relies on.
Unmoved(b) ==
    /\ task'[b] = task[b]
    /\ via'[Nym(b)] = via[Nym(b)] /\ via'[Attrib(b)] = via[Attrib(b)]
    /\ b \in Published' <=> b \in Published

Grows == acked \subseteq acked' /\ Published \subseteq Published'

\* An attempt that does not move keeps its knowledge.
LEMMA UnmovedKnows ==
    ASSUME NEW b \in Attempts, Knows(b), Unmoved(b), Grows
    PROVE  Knows(b)'
BY DEF Knows, Unmoved, Grows, At

\* The two transactions of an attempt are its own.
LEMMA TxnsDiffer ==
    ASSUME NEW a \in Attempts, NEW b \in Attempts
    PROVE  /\ Nym(a) \in Txns /\ Attrib(a) \in Txns
           /\ Nym(a) # Attrib(b)
           /\ a # b => Nym(a) # Nym(b) /\ Attrib(a) # Attrib(b)
BY DEF Nym, Attrib, Txns

\* One handler moves, within its type.
Moves(a) ==
    /\ task' \in [Attempts -> Task]
    /\ \A b \in Attempts \ {a} : task'[b] = task[b]

\* A handler that goes on or gives up.
LEMMA Going ==
    ASSUME TypeOK, NEW a \in Attempts, NEW l \in Working \cup Ended, Goto(a, l)
    PROVE  Moves(a) /\ task'[a].pc = l /\ task'[a].did = task[a].did
<1>1. task \in [Attempts -> Task] /\ task[a] \in Task /\ 0 \in 0..(MaxPolls - 1)
  BY OnboardingAssumption DEF TypeOK
<1>2. [task[a] EXCEPT !.pc = l, !.polls = 0] \in Task
  BY <1>1 DEF Task
<1> QED BY <1>1, <1>2 DEF Goto, Become, Task, Moves

\* A handler that polls once more, or gives up.
LEMMA Retrying ==
    ASSUME TypeOK, NEW a \in Attempts, Retry(a)
    PROVE  /\ Moves(a) /\ task'[a].pc \in {task[a].pc, "failed"}
           /\ task'[a].did = task[a].did
<1>1. /\ task \in [Attempts -> Task] /\ task[a] \in Task
      /\ task[a].polls \in 0..(MaxPolls - 1)
  BY DEF TypeOK, Task
<1>2. CASE task[a].polls + 1 < MaxPolls
  <2>1. [task[a] EXCEPT !.polls = @ + 1] \in Task
    BY <1>1, <1>2, OnboardingAssumption DEF Task
  <2> QED BY <1>1, <1>2, <2>1 DEF Retry, Become, Task, Moves
<1>3. CASE ~ (task[a].polls + 1 < MaxPolls)
  <2>1. Goto(a, "failed")
    BY <1>3 DEF Retry, Fail
  <2> QED BY <2>1, Going DEF Ended
<1> QED BY <1>2, <1>3

\* A handler that ends with an answer.
LEMMA Answered ==
    ASSUME TypeOK, NEW a \in Attempts, NEW d \in Attempts,
           \/ Become(a, [task[a] EXCEPT !.pc = "invite", !.did = d])
           \/ Become(a, [task[a] EXCEPT !.pc = "invite", !.polls = 0, !.did = d])
    PROVE  Moves(a) /\ task'[a].pc = "invite" /\ task'[a].did = d
<1>1. task \in [Attempts -> Task] /\ task[a] \in Task /\ 0 \in 0..(MaxPolls - 1)
  BY OnboardingAssumption DEF TypeOK
<1>2. ASSUME NEW t \in Task, Become(a, t), t.pc = "invite", t.did = d
      PROVE  Moves(a) /\ task'[a].pc = "invite" /\ task'[a].did = d
  BY <1>1, <1>2 DEF Become, Moves
<1>3. ASSUME NEW t, \/ t = [task[a] EXCEPT !.pc = "invite", !.did = d]
                    \/ t = [task[a] EXCEPT !.pc = "invite", !.polls = 0, !.did = d]
      PROVE  t \in Task /\ t.pc = "invite" /\ t.did = d
  BY <1>1, <1>3 DEF Task, Working
<1> QED BY <1>2, <1>3

-----------------------------------------------------------------------------
(* The invariant.                                                          *)

\* Every initial state satisfies it.
LEMMA InitInv == Init => IInv
<1> SUFFICES ASSUME Init PROVE IInv OBVIOUS
<1>1. TypeOK
  BY OnboardingAssumption DEF Init, TypeOK, Connections, Task
<1>2. Published = {}
  BY DEF Init, Published, ToSet
<1>3. KnowsInv
  BY <1>2 DEF Init, KnowsInv, Knows, At, Answering
<1> QED BY <1>1, <1>2, <1>3 DEF IInv

\* Faults are of the kinds that may happen.
LEMMA FaultsType ==
    ASSUME faults \subseteq Faults, \/ NoFault \/ \E f \in FaultKinds : Fault(f)
    PROVE  faults' \subseteq Faults
BY DEF NoFault, Fault

\* A step of one handler that keeps the types and what the others rely on, and
\* leaves this one with what it must know.
LEMMA HandlerStep ==
    ASSUME IInv, NEW a \in Attempts, TypeOK', Moves(a), Grows, Knows(a)',
           \A b \in Attempts \ {a} :
               /\ via'[Nym(b)] = via[Nym(b)] /\ via'[Attrib(b)] = via[Attrib(b)]
               /\ b \in Published' <=> b \in Published
    PROVE  IInv'
<1>1. ASSUME NEW b \in Attempts PROVE Knows(b)'
  <2>1. CASE b = a
    BY <2>1
  <2>2. CASE b # a
    <3>1. Unmoved(b)
      BY <2>2 DEF Unmoved, Moves
    <3> QED BY <3>1, UnmovedKnows DEF IInv, KnowsInv
  <2> QED BY <2>1, <2>2
<1> QED BY <1>1 DEF IInv, KnowsInv

\* A step that moves one handler and changes nothing but the faults.
LEMMA QuietStep ==
    ASSUME IInv, NEW a \in Attempts, Moves(a), Knows(a)',
           NoFault \/ \E f \in FaultKinds : Fault(f),
           UNCHANGED <<connection, via, acked, public>>
    PROVE  IInv'
<1>1. TypeOK'
  BY FaultsType DEF IInv, TypeOK, Moves
<1>2. Grows
  BY DEF Grows, Published
<1> QED BY <1>1, <1>2, HandlerStep DEF Published

\* The steps of the handler and of its environment that change nothing else.
LEMMA QuietSteps ==
    ASSUME IInv, NEW a \in Attempts,
           \/ Begin(a) \/ Crash(a) \/ GetPublicDid(a) \/ AwaitConnection(a)
           \/ AwaitNym(a) \/ AwaitAttrib(a) \/ CreateInvitation(a)
    PROVE  IInv'
<1>1. /\ TypeOK /\ Knows(a)
      /\ task[a] \in Task /\ public \in Seq(Attempts) /\ Published \subseteq Attempts
  BY PublishedType DEF IInv, KnowsInv, TypeOK, Published
<1>2. /\ UNCHANGED <<connection, via, acked, public>>
      /\ NoFault \/ \E f \in FaultKinds : Fault(f)
  BY DEF Begin, Crash, GetPublicDid, AwaitConnection, AwaitNym, AwaitAttrib,
      AwaitEndorsed, CreateInvitation, NoFault, FaultKinds
<1>3. Published' = Published
  BY <1>2 DEF Published
<1>4. ASSUME Moves(a), Knows(a)' PROVE IInv'
  BY <1>2, <1>4, QuietStep
<1>5. ASSUME NEW l \in {"failed", "crashed"}, Goto(a, l) PROVE IInv'
  <2>1. Moves(a) /\ task'[a].pc = l
    BY <1>1, <1>5, Going DEF Ended
  <2>2. Knows(a)'
    BY <1>1, <1>2, <1>3, <2>1 DEF Knows, At, Answering, Ended
  <2> QED BY <1>4, <2>1, <2>2
<1>6. ASSUME Retry(a), task[a].pc \in Working PROVE IInv'
  <2>1. Moves(a) /\ task'[a].pc \in {task[a].pc, "failed"} /\ task'[a].did = task[a].did
    BY <1>1, <1>6, Retrying
  <2>2. Knows(a)'
    BY <1>1, <1>2, <1>3, <2>1 DEF Knows, At, Answering, Ended
  <2> QED BY <1>4, <2>1, <2>2
<1>7. CASE Begin(a)
  <2>1. Moves(a) /\ task'[a].pc = "get_public_did" /\ At(a, "idle")
    BY <1>1, <1>7, Going DEF Begin, Working
  <2>2. Knows(a)'
    BY <1>1, <1>2, <1>3, <2>1 DEF Knows, At, Answering, Ended
  <2> QED BY <1>4, <2>1, <2>2
<1>8. CASE Crash(a)
  BY <1>5, <1>8 DEF Crash
<1>9. CASE GetPublicDid(a)
  <2>1. CASE /\ public # <<>>
             /\ Become(a, [task[a] EXCEPT !.pc = "invite", !.did = Last(public)])
    <3>1. Last(public) \in Published
      BY <1>1, <2>1, PublishedLast DEF Published
    <3>2. Moves(a) /\ task'[a].pc = "invite" /\ task'[a].did = Last(public)
      BY <1>1, <2>1, <3>1, Answered
    <3>3. Knows(a)'
      BY <1>1, <1>2, <1>3, <1>9, <3>1, <3>2
         DEF Knows, At, Answering, Ended, GetPublicDid
    <3> QED BY <1>4, <3>2, <3>3
  <2>2. CASE Goto(a, "connect")
    <3>1. Moves(a) /\ task'[a].pc = "connect"
      BY <1>1, <2>2, Going DEF Working
    <3>2. Knows(a)'
      BY <1>1, <1>2, <1>3, <1>9, <3>1
         DEF Knows, At, Answering, Ended, GetPublicDid
    <3> QED BY <1>4, <3>1, <3>2
  <2> QED BY <1>9, <2>1, <2>2 DEF GetPublicDid
<1>10. CASE AwaitConnection(a)
  <2>1. CASE Goto(a, "set_endorser_role")
    <3>1. Moves(a) /\ task'[a].pc = "set_endorser_role"
      BY <1>1, <2>1, Going DEF Working
    <3>2. Knows(a)'
      BY <1>1, <1>2, <1>3, <1>10, <3>1
         DEF Knows, At, Answering, Ended, AwaitConnection
    <3> QED BY <1>4, <3>1, <3>2
  <2> QED BY <1>6, <1>10, <2>1 DEF AwaitConnection, At, Working
<1>11. CASE AwaitNym(a)
  <2>1. CASE AllAcked(a) /\ Goto(a, "set_public_did")
    <3>1. Moves(a) /\ task'[a].pc = "set_public_did"
      BY <1>1, <2>1, Going DEF Working
    <3>2. via[Nym(a)] = a => Nym(a) \in acked
      BY <2>1, TxnsDiffer DEF AllAcked
    <3>3. Knows(a)'
      BY <1>1, <1>2, <1>3, <1>11, <3>1, <3>2
         DEF Knows, At, Answering, Ended, AwaitNym, AwaitEndorsed
    <3> QED BY <1>4, <3>1, <3>3
  <2> QED BY <1>6, <1>11, <2>1 DEF AwaitNym, AwaitEndorsed, At, Working
<1>12. CASE AwaitAttrib(a)
  <2>1. CASE /\ AllAcked(a)
             /\ Become(a, [task[a] EXCEPT !.pc = "invite", !.polls = 0, !.did = a])
    <3>1. Moves(a) /\ task'[a].pc = "invite" /\ task'[a].did = a
      BY <1>1, <2>1, Answered
    <3>2. via[Attrib(a)] = a => Attrib(a) \in acked
      BY <2>1, TxnsDiffer DEF AllAcked
    <3>3. Knows(a)'
      BY <1>1, <1>2, <1>3, <1>12, <3>1, <3>2
         DEF Knows, At, Answering, Ended, AwaitAttrib
    <3> QED BY <1>4, <3>1, <3>3
  <2> QED BY <1>6, <1>12, <2>1 DEF AwaitAttrib, At, Working
<1>13. CASE CreateInvitation(a)
  <2>1. CASE Goto(a, "done")
    <3>1. Moves(a) /\ task'[a].pc = "done" /\ task'[a].did = task[a].did
      BY <1>1, <2>1, Going DEF Ended
    <3>2. Knows(a)'
      BY <1>1, <1>2, <1>3, <1>13, <3>1
         DEF Knows, At, Answering, Ended, CreateInvitation
    <3> QED BY <1>4, <3>1, <3>2
  <2> QED BY <1>5, <1>13, <2>1 DEF CreateInvitation, Fail
<1> QED BY <1>7, <1>8, <1>9, <1>10, <1>11, <1>12, <1>13

\* The steps that change the connection or send the registration of the DID.
LEMMA ConnectingSteps ==
    ASSUME IInv, NEW a \in Attempts, Connect(a) \/ Configure(a) \/ RegisterNym(a)
    PROVE  IInv'
<1>1. /\ TypeOK /\ Knows(a) /\ task[a] \in Task
      /\ NoFault \/ \E f \in FaultKinds : Fault(f)
      /\ UNCHANGED <<acked, public>>
  BY DEF IInv, KnowsInv, TypeOK, Connect, Configure, SetMetadata, RegisterNym,
         Refused, NoFault, FaultKinds
<1>2. /\ connection' \in [Attempts -> Connections]
      /\ via' \in [Txns -> Attempts \cup {NoDid}]
      /\ \A b \in Attempts : via'[Attrib(b)] = via[Attrib(b)]
      /\ \A b \in Attempts \ {a} : via'[Nym(b)] = via[Nym(b)]
  BY <1>1, TxnsDiffer DEF TypeOK, Connections, Connect, Configure,
                          SetMetadata, RegisterNym, Send
<1>3. PICK l \in {"await_connection", "set_author_role", "set_endorser_info",
             "register_nym", "await_nym", "failed"} : Goto(a, l)
  BY DEF Connect, Configure, SetMetadata, RegisterNym, Fail
<1>4. Moves(a) /\ task'[a].pc = l
  BY <1>1, <1>3, Going DEF Working, Ended
<1>5. Published' = Published /\ Grows
  BY <1>1 DEF Published, Grows
<1>6. TypeOK'
  BY <1>1, <1>2, <1>4, FaultsType DEF TypeOK, Moves
<1>7. Knows(a)'
  BY <1>1, <1>4, <1>5
     DEF Knows, At, Answering, Ended, Connect, Configure, SetMetadata, RegisterNym
<1> QED BY <1>2, <1>4, <1>5, <1>6, <1>7, HandlerStep

\* The step that makes the DID public.
LEMMA SetPublicDidStep ==
    ASSUME IInv, NEW a \in Attempts, SetPublicDid(a)
    PROVE  IInv'
<1>1. /\ TypeOK /\ Knows(a) /\ task[a] \in Task /\ At(a, "set_public_did")
      /\ public \in Seq(Attempts)
      /\ NoFault \/ \E f \in FaultKinds : Fault(f)
      /\ UNCHANGED <<connection, acked>>
  BY DEF IInv, KnowsInv, TypeOK, SetPublicDid, Refused, NoFault, FaultKinds
<1>2. CASE UNCHANGED <<via, public>> /\ Fail(a)
  <2>1. Moves(a) /\ task'[a].pc = "failed"
    BY <1>1, <1>2, Going DEF Fail, Ended
  <2>2. Knows(a)'
    BY <1>1, <1>2, <2>1 DEF Knows, At, Answering, Ended, Published
  <2> QED BY <1>1, <1>2, <2>1, <2>2, QuietStep
<1>3. CASE /\ Send(Attrib(a)) /\ public' = Append(public, a)
           /\ Goto(a, "await_attrib") \/ Fail(a)
  <2>1. Published' = Published \cup {a}
    BY <1>1, <1>3, PublishedAppend DEF Published
  <2>2. /\ via' \in [Txns -> Attempts \cup {NoDid}] /\ public' \in Seq(Attempts)
        /\ \A b \in Attempts : via'[Nym(b)] = via[Nym(b)]
        /\ \A b \in Attempts \ {a} : via'[Attrib(b)] = via[Attrib(b)]
    BY <1>1, <1>3, TxnsDiffer DEF TypeOK, Send
  <2>3. PICK l \in {"await_attrib", "failed"} : Goto(a, l)
    BY <1>3 DEF Fail
  <2>4. Moves(a) /\ task'[a].pc = l
    BY <1>1, <2>3, Going DEF Working, Ended
  <2>5. TypeOK'
    BY <1>1, <2>2, <2>4, FaultsType DEF TypeOK, Moves
  <2>6. Knows(a)'
    BY <1>1, <2>1, <2>2, <2>4 DEF Knows, At, Answering, Ended
  <2> QED BY <1>1, <2>1, <2>2, <2>4, <2>5, <2>6, HandlerStep DEF Grows
<1> QED BY <1>2, <1>3 DEF SetPublicDid

\* The steps of the agents and of the endorser.
LEMMA EnvironmentSteps ==
    ASSUME IInv, \/ \E a \in Attempts : CompleteConnection(a)
                 \/ \E t \in Txns : Endorse(t)
    PROVE  IInv'
<1>1. TypeOK'
  BY DEF IInv, TypeOK, Connections, CompleteConnection, Endorse
<1>2. UNCHANGED <<via, public, task>> /\ acked \subseteq acked'
  BY DEF CompleteConnection, Endorse
<1>3. ASSUME NEW b \in Attempts PROVE Unmoved(b) /\ Grows
  BY <1>2 DEF Unmoved, Grows, Published
<1>4. KnowsInv'
  BY <1>3, UnmovedKnows DEF IInv, KnowsInv
<1> QED BY <1>1, <1>4 DEF IInv

\* The invariant is inductive.
LEMMA StepInv == IInv /\ [Next]_vars => IInv'
<1> SUFFICES ASSUME IInv, [Next]_vars PROVE IInv' OBVIOUS
<1>1. CASE Next
  BY <1>1, QuietSteps, ConnectingSteps, SetPublicDidStep, EnvironmentSteps
     DEF Next, Handle
<1>2. CASE UNCHANGED vars
  BY <1>2 DEF vars, IInv, TypeOK, KnowsInv, Knows, At, Published
<1> QED BY <1>1, <1>2

\* It holds in every reachable state.
LEMMA Invariance == Spec => []IInv
BY InitInv, StepInv, PTL DEF Spec

-----------------------------------------------------------------------------
\* Every variable keeps its type: no handler polls more often than its bound.
THEOREM TypeCorrect == Spec => []TypeOK
<1>1. IInv => TypeOK
  BY DEF IInv
<1> QED BY <1>1, Invariance, PTL

\* An attempt goes on only when what it waits for is endorsed.
THEOREM WaitsExact == Spec => []WaitsAreExact
<1>1. IInv => WaitsAreExact
  BY DEF IInv, KnowsInv, Knows, WaitsAreExact, At, Answering
<1> QED BY <1>1, Invariance, PTL

-----------------------------------------------------------------------------
(* The refinement.                                                         *)

\* What DidPublication sees of an attempt.
AnswerOf(a) == IF At(a, "done") THEN task[a].did ELSE NoDid
statuses == [a \in Attempts |-> Status(a)]
answers  == [a \in Attempts |-> AnswerOf(a)]

\* The status of an attempt, and its answer, by its label.
LEMMA StatusOf ==
    ASSUME NEW a \in Attempts
    PROVE  /\ task[a].pc = "idle" => Status(a) = "idle"
           /\ task[a].pc = "done" => Status(a) = "done" /\ AnswerOf(a) = task[a].did
           /\ task[a].pc # "done" => AnswerOf(a) = NoDid
           /\ task[a].pc \in Working => Status(a) = "running"
           /\ task[a].pc \in {"failed", "crashed"} => Status(a) = "failed"
BY DEF Status, At, Working, AnswerOf

\* Initially no attempt has begun.
LEMMA PromiseInit == Init => Promise!Init
<1> SUFFICES ASSUME Init PROVE Promise!Init OBVIOUS
<1>1. ASSUME NEW a \in Attempts PROVE Status(a) = "idle" /\ AnswerOf(a) = NoDid
  BY StatusOf DEF Init
<1> QED BY <1>1 DEF Init, Promise!Init, AnswerOf

\* A step of one handler changes what DidPublication sees of that attempt only.
LEMMA OneMoves ==
    ASSUME NEW a \in Attempts, Moves(a)
    PROVE  /\ statuses' = [statuses EXCEPT ![a] = Status(a)']
           /\ answers' = [answers EXCEPT ![a] = AnswerOf(a)']
<1>1. \A b \in Attempts \ {a} : Status(b)' = Status(b) /\ AnswerOf(b)' = AnswerOf(b)
  BY DEF Moves, Status, AnswerOf, At
<1> QED BY <1>1 DEF statuses, answers

\* A handler that goes on, without an answer, is not seen to.
LEMMA GoesOn ==
    ASSUME NEW a \in Attempts, Moves(a), task[a].pc \in Working, task'[a].pc \in Working
    PROVE  statuses' = statuses /\ answers' = answers /\ statuses[a] = "running"
<1>1. /\ Status(a) = "running" /\ AnswerOf(a) = NoDid
      /\ Status(a)' = "running" /\ AnswerOf(a)' = NoDid
  <2>1. "done" \notin Working
    BY DEF Working
  <2> QED BY <2>1, StatusOf DEF Status, AnswerOf, At, Working
<1> QED BY <1>1, OneMoves DEF statuses, answers

\* A handler that fails is seen to fail.
LEMMA Fails ==
    ASSUME NEW a \in Attempts, Moves(a), task[a].pc \in Working,
           task'[a].pc \in {"failed", "crashed"}
    PROVE  /\ statuses[a] = "running" /\ statuses' = [statuses EXCEPT ![a] = "failed"]
           /\ answers' = answers
<1>1. /\ Status(a) = "running" /\ AnswerOf(a) = NoDid
      /\ Status(a)' = "failed" /\ AnswerOf(a)' = NoDid
  <2>1. "done" \notin Working
    BY DEF Working
  <2> QED BY <2>1, StatusOf DEF Status, AnswerOf, At, Working
<1> QED BY <1>1, OneMoves DEF statuses, answers

\* Most steps of a handler go on or fail, and publish nothing.
LEMMA Silent ==
    ASSUME IInv, NEW a \in Attempts,
           \/ Crash(a) \/ GetPublicDid(a) \/ Connect(a) \/ AwaitConnection(a)
           \/ Configure(a) \/ RegisterNym(a) \/ AwaitNym(a) \/ AwaitAttrib(a)
    PROVE  /\ Moves(a) /\ task[a].pc \in Working /\ UNCHANGED public
           /\ task'[a].pc \in Working \cup {"failed", "crashed"}
<1>1. TypeOK /\ public \in Seq(Attempts) /\ Published \subseteq Attempts
  BY PublishedType DEF IInv, TypeOK, Published
<1>2. task[a].pc \in Working /\ UNCHANGED public
  BY DEF Crash, GetPublicDid, Connect, AwaitConnection, Configure, SetMetadata,
         RegisterNym, AwaitNym, AwaitAttrib, AwaitEndorsed, At, Working
<1>3. ASSUME NEW l \in Working \cup {"failed", "crashed"}, Goto(a, l)
      PROVE  Moves(a) /\ task'[a].pc \in Working \cup {"failed", "crashed"}
  BY <1>1, <1>3, Going DEF Ended
<1>4. ASSUME Retry(a)
      PROVE  Moves(a) /\ task'[a].pc \in Working \cup {"failed", "crashed"}
  BY <1>1, <1>2, <1>4, Retrying
<1>5. CASE \E l \in Working \cup {"failed", "crashed"} : Goto(a, l)
  BY <1>2, <1>3, <1>5
<1>6. CASE Retry(a)
  BY <1>2, <1>4, <1>6
<1>7. CASE GetPublicDid(a)
  <2>1. CASE /\ public # <<>>
             /\ Become(a, [task[a] EXCEPT !.pc = "invite", !.did = Last(public)])
    <3>1. Last(public) \in Attempts
      BY <1>1, <2>1, PublishedLast DEF Published
    <3> QED BY <1>1, <1>2, <2>1, <3>1, Answered DEF Working
  <2> QED BY <1>5, <1>7, <2>1 DEF GetPublicDid, Working
<1>8. CASE AwaitAttrib(a)
  <2>1. CASE Become(a, [task[a] EXCEPT !.pc = "invite", !.polls = 0, !.did = a])
    BY <1>1, <1>2, <2>1, Answered DEF Working
  <2> QED BY <1>6, <1>8, <2>1 DEF AwaitAttrib
<1> QED BY <1>5, <1>6, <1>7, <1>8
        DEF Crash, Connect, AwaitConnection, Configure, SetMetadata, RegisterNym,
            AwaitNym, AwaitEndorsed, Fail, Working

\* Every step is one that DidPublication allows, or is not seen.
LEMMA PromiseStep ==
    ASSUME IInv, [Next]_vars
    PROVE  [Promise!Next]_(Promise!vars)
<1> USE DEF AnswerOf
<1>1. CASE UNCHANGED vars \/ (\E a \in Attempts : CompleteConnection(a))
           \/ (\E t \in Txns : Endorse(t))
  BY <1>1 DEF vars, CompleteConnection, Endorse, Promise!vars, Status, At
<1>2. ASSUME NEW a \in Attempts, Begin(a) PROVE Promise!Next
  <2>1. Moves(a) /\ task[a].pc = "idle" /\ task'[a].pc = "get_public_did"
    BY <1>2, Going DEF IInv, Begin, At, Working
  <2>2. /\ Status(a) = "idle" /\ Status(a)' = "running"
        /\ AnswerOf(a) = NoDid /\ AnswerOf(a)' = NoDid
    BY <2>1, StatusOf DEF Status, At, Working
  <2>3. Promise!Begin(a)
    BY <1>2, <2>1, <2>2, OneMoves
       DEF Promise!Begin, Promise!Move, Begin, statuses, answers
  <2> QED BY <2>3 DEF Promise!Next
<1>3. ASSUME NEW a \in Attempts, Moves(a), task[a].pc \in Working, UNCHANGED public,
             task'[a].pc \in Working
      PROVE  UNCHANGED Promise!vars
  BY <1>3, GoesOn DEF Promise!vars, statuses, answers
<1>4. ASSUME NEW a \in Attempts, Moves(a), task[a].pc \in Working, UNCHANGED public,
             task'[a].pc \in {"failed", "crashed"}
      PROVE  Promise!Next
  <2>1. Promise!Fail(a)
    BY <1>4, Fails DEF Promise!Fail, Promise!Move, statuses, answers
  <2> QED BY <2>1 DEF Promise!Next
<1>5. ASSUME NEW a \in Attempts, SetPublicDid(a)
      PROVE  Promise!Next \/ UNCHANGED Promise!vars
  <2>1. /\ At(a, "set_public_did") /\ task[a].pc \in Working /\ TypeOK
        /\ a \notin Published
    BY <1>5 DEF SetPublicDid, At, Working, IInv, KnowsInv, Knows,
                Answering, Ended
  <2>2. CASE UNCHANGED public /\ Fail(a)
    BY <1>4, <2>1, <2>2, Going DEF Fail, Ended
  <2>3. CASE public' = Append(public, a) /\ Goto(a, "await_attrib")
    <3>1. Promise!Publish(a)
      BY <2>1, <2>3, Going, GoesOn
         DEF Working, Promise!Publish, statuses, answers, Published,
             ToSet, Promise!ToSet
    <3> QED BY <3>1 DEF Promise!Next
  <2>4. CASE public' = Append(public, a) /\ Fail(a)
    <3>1. Promise!PublishAndFail(a)
      BY <2>1, <2>4, Going, Fails
         DEF Fail, Ended, Promise!PublishAndFail, Promise!Move, statuses, answers,
             Published, ToSet, Promise!ToSet
    <3> QED BY <3>1 DEF Promise!Next
  <2> QED BY <1>5, <2>2, <2>3, <2>4 DEF SetPublicDid
<1>6. ASSUME NEW a \in Attempts, CreateInvitation(a) PROVE Promise!Next
  <2>1. /\ At(a, "invite") /\ task[a].pc \in Working /\ TypeOK /\ UNCHANGED public
        /\ task[a].did \in Published /\ (a \in Published => task[a].did = a)
    BY <1>6 DEF CreateInvitation, At, Working, IInv, KnowsInv,
                Knows, Answering
  <2>2. CASE Fail(a)
    BY <1>4, <2>1, <2>2, Going DEF Fail, Ended
  <2>3. CASE Goto(a, "done")
    <3>1. Moves(a) /\ task'[a].pc = "done" /\ task'[a].did = task[a].did
      BY <2>1, <2>3, Going DEF Ended
    <3>2. /\ Status(a) = "running" /\ Status(a)' = "done"
          /\ AnswerOf(a)' = task[a].did
      BY <2>1, <3>1 DEF Status, At, Working
    <3>3. Promise!Answer(a)
      BY <2>1, <3>1, <3>2, OneMoves
         DEF Promise!Answer, Promise!Move, statuses, answers, Published, ToSet,
             Promise!ToSet
    <3> QED BY <3>3 DEF Promise!Next
  <2> QED BY <1>6, <2>2, <2>3 DEF CreateInvitation
<1> QED BY <1>1, <1>2, <1>3, <1>4, <1>5, <1>6, Silent DEF Next, Handle

\* What onboarding does is what DidPublication allows: an attempt makes at most
\* one DID public and answers with it, or with one that was public already.
THEOREM OnboardingPublishes == Spec => Promise!Init /\ [][Promise!Next]_(Promise!vars)
BY PromiseInit, PromiseStep, Invariance, PTL DEF Spec

-----------------------------------------------------------------------------
(* An attempt comes nearer its end with every step, and is never without one. *)

\* The order in which a handler takes its steps.
Stage == [l \in {"idle"} \cup Working \cup Ended |->
    CASE l = "idle" -> 0 [] l = "get_public_did" -> 1 [] l = "connect" -> 2
      [] l = "await_connection" -> 3 [] l = "set_endorser_role" -> 4
      [] l = "set_author_role" -> 5 [] l = "set_endorser_info" -> 6
      [] l = "register_nym" -> 7 [] l = "await_nym" -> 8
      [] l = "set_public_did" -> 9 [] l = "await_attrib" -> 10
      [] l = "invite" -> 11 [] OTHER -> 12]

\* A handler goes on, or it polls once more.
Nearer(t, u) ==
    \/ Stage[t.pc] < Stage[u.pc]
    \/ u.pc = t.pc /\ t.polls < u.polls

\* Every step of an attempt's handler, a crash included, brings it nearer its
\* end; no step of another attempt, of the agents or of the endorser moves it.
EachStepIsNearer ==
    [][\A a \in Attempts :
        Handle(a) \/ task'[a] # task[a] => Nearer(task[a], task'[a])]_vars

LEMMA Stages ==
    /\ Stage["idle"] = 0 /\ Stage["get_public_did"] = 1 /\ Stage["connect"] = 2
    /\ Stage["await_connection"] = 3 /\ Stage["set_endorser_role"] = 4
    /\ Stage["set_author_role"] = 5 /\ Stage["set_endorser_info"] = 6
    /\ Stage["register_nym"] = 7 /\ Stage["await_nym"] = 8
    /\ Stage["set_public_did"] = 9 /\ Stage["await_attrib"] = 10
    /\ Stage["invite"] = 11 /\ \A l \in Ended : Stage[l] = 12
BY DEF Stage, Working, Ended

\* A handler that goes on.
LEMMA GoesNearer ==
    ASSUME TypeOK, NEW a \in Attempts, NEW l \in Working \cup Ended,
           Stage[task[a].pc] < Stage[l], Goto(a, l)
    PROVE  Moves(a) /\ Nearer(task[a], task'[a])
<1>1. Moves(a) /\ task'[a].pc = l
  BY Going
<1> QED BY <1>1 DEF Nearer

\* A handler that has a DID to answer with.
LEMMA InvitesNearer ==
    ASSUME TypeOK, NEW a \in Attempts, NEW d \in Attempts,
           task[a].pc \in {"get_public_did", "await_attrib"},
           \/ Become(a, [task[a] EXCEPT !.pc = "invite", !.did = d])
           \/ Become(a, [task[a] EXCEPT !.pc = "invite", !.polls = 0, !.did = d])
    PROVE  Moves(a) /\ Nearer(task[a], task'[a])
<1>1. Moves(a) /\ task'[a].pc = "invite"
  BY Answered
<1> QED BY <1>1, Stages DEF Nearer

\* A handler that polls.
LEMMA RetriesNearer ==
    ASSUME TypeOK, NEW a \in Attempts, task[a].pc \in Working, Retry(a)
    PROVE  Moves(a) /\ Nearer(task[a], task'[a])
<1>1. /\ task \in [Attempts -> Task] /\ task[a] \in Task /\ task[a].polls \in Nat
      /\ Moves(a)
  BY OnboardingAssumption, Retrying DEF TypeOK, Task
<1>2. CASE Become(a, [task[a] EXCEPT !.polls = @ + 1])
  <2>1. task'[a].pc = task[a].pc /\ task'[a].polls = task[a].polls + 1
    BY <1>1, <1>2 DEF Become, Task
  <2> QED BY <1>1, <2>1 DEF Nearer
<1>3. CASE Goto(a, "failed")
  <2>1. Stage[task[a].pc] < 12 /\ Stage["failed"] = 12 /\ "failed" \in Ended
    BY Stages DEF Working, Ended
  <2> QED BY <1>3, <2>1, GoesNearer
<1> QED BY <1>2, <1>3 DEF Retry, Fail

LEMMA StepNearer ==
    ASSUME IInv, NEW a \in Attempts, Begin(a) \/ Handle(a) \/ Crash(a)
    PROVE  Moves(a) /\ Nearer(task[a], task'[a])
<1>1. TypeOK /\ public \in Seq(Attempts) /\ Published \subseteq Attempts
  BY PublishedType DEF IInv, TypeOK, Published
<1>2. ASSUME task[a].pc \in Working, NEW l \in {"failed", "crashed"}, Goto(a, l)
      PROVE  Moves(a) /\ Nearer(task[a], task'[a])
  <2>1. Stage[task[a].pc] < 12 /\ Stage[l] = 12 /\ l \in Ended
    BY <1>2, Stages DEF Working, Ended
  <2> QED BY <1>1, <1>2, <2>1, GoesNearer
<1>3. CASE Begin(a)
  BY <1>1, <1>3, GoesNearer, Stages DEF Begin, At, Working
<1>4. CASE Crash(a)
  BY <1>2, <1>4 DEF Crash
<1>5. CASE GetPublicDid(a)
  <2>1. CASE public # <<>>
             /\ Become(a, [task[a] EXCEPT !.pc = "invite", !.did = Last(public)])
    <3>1. Last(public) \in Attempts
      BY <1>1, <2>1, PublishedLast DEF Published
    <3> QED BY <1>1, <1>5, <2>1, <3>1, InvitesNearer DEF GetPublicDid, At
  <2>2. CASE Goto(a, "connect")
    BY <1>1, <1>5, <2>2, GoesNearer, Stages DEF GetPublicDid, At, Working
  <2> QED BY <1>5, <2>1, <2>2 DEF GetPublicDid
<1>6. CASE Connect(a)
  BY <1>1, <1>2, <1>6, GoesNearer, Stages DEF Connect, Fail, At, Working
<1>7. CASE AwaitConnection(a)
  BY <1>1, <1>7, GoesNearer, RetriesNearer, Stages DEF AwaitConnection, At,
                                                       Working
<1>8. CASE Configure(a)
  BY <1>1, <1>2, <1>8, GoesNearer, Stages DEF Configure, SetMetadata, Fail, At,
                                              Working
<1>9. CASE RegisterNym(a)
  BY <1>1, <1>2, <1>9, GoesNearer, Stages DEF RegisterNym, Fail, At, Working
<1>10. CASE AwaitNym(a)
  BY <1>1, <1>10, GoesNearer, RetriesNearer, Stages DEF AwaitNym, AwaitEndorsed,
                                                        At, Working
<1>11. CASE SetPublicDid(a)
  BY <1>1, <1>2, <1>11, GoesNearer, Stages DEF SetPublicDid, Fail, At, Working
<1>12. CASE AwaitAttrib(a)
  BY <1>1, <1>12, InvitesNearer, RetriesNearer DEF AwaitAttrib, At, Working
<1>13. CASE CreateInvitation(a)
  BY <1>1, <1>2, <1>13, GoesNearer, Stages DEF CreateInvitation, Fail, At,
                                               Working, Ended
<1> QED BY <1>3, <1>4, <1>5, <1>6, <1>7, <1>8, <1>9, <1>10, <1>11, <1>12, <1>13 DEF Handle

\* Each step of an attempt brings it nearer its end, whether or not the
\* connection completes and the endorser endorses: with polls below MaxPolls, at
\* most twelve stages of MaxPolls steps.
THEOREM AttemptsComeNearerTheirEnd == Spec => EachStepIsNearer
<1>1. ASSUME IInv, [Next]_vars, NEW a \in Attempts, Handle(a) \/ task'[a] # task[a]
      PROVE  Nearer(task[a], task'[a])
  <2>1. CASE Begin(a) \/ Handle(a) \/ Crash(a)
    BY <1>1, <2>1, StepNearer
  <2>2. ASSUME NEW b \in Attempts, b # a, Begin(b) \/ Handle(b) \/ Crash(b)
        PROVE  task'[a] = task[a]
    BY <1>1, <2>2, StepNearer DEF Moves
  <2>3. CASE \/ UNCHANGED vars \/ \E t \in Txns : Endorse(t)
             \/ \E b \in Attempts : CompleteConnection(b)
    <3>1. UNCHANGED task
      BY <2>3 DEF vars, Endorse, CompleteConnection
    <3> QED BY <1>1, <2>1, <3>1
  <2> QED BY <1>1, <2>1, <2>2, <2>3 DEF Next
<1>2. IInv /\ [Next]_vars =>
        [\A a \in Attempts :
            Handle(a) \/ task'[a] # task[a] => Nearer(task[a], task'[a])]_vars
  BY <1>1
<1> QED BY <1>2, Invariance, PTL DEF Spec, EachStepIsNearer

\* An attempt that sends a transaction has a connection to send it by, and what
\* it configures is a connection that is completed and has what is set before:
\* the guard of Send never leaves a handler without a next step.
Needs(l) ==
    CASE l = "set_endorser_role" -> {"completed"}
      [] l = "set_author_role" -> {"endorser"}
      [] l = "set_endorser_info" -> {"author"}
      [] l \in {"register_nym", "await_nym", "set_public_did", "await_attrib"}
            -> {"configured"}
      [] OTHER -> Connections

HandlersAreConnected == \A a \in Attempts : connection[a] \in Needs(task[a].pc)

LEMMA Needed ==
    /\ Needs("set_endorser_role") = {"completed"}
    /\ Needs("set_author_role") = {"endorser"}
    /\ Needs("set_endorser_info") = {"author"}
    /\ \A l \in {"register_nym", "await_nym", "set_public_did", "await_attrib"} :
        Needs(l) = {"configured"}
    /\ \A l \in {"idle", "get_public_did", "connect", "await_connection", "invite"}
              \cup Ended :
        Needs(l) = Connections
BY DEF Needs, Ended

LEMMA StepConnected ==
    ASSUME IInv, HandlersAreConnected, NEW a \in Attempts,
           Begin(a) \/ Handle(a) \/ Crash(a)
    PROVE  /\ connection'[a] \in Needs(task'[a].pc)
           /\ \A b \in Attempts \ {a} : connection'[b] = connection[b]
<1> DEFINE states == Connections
<1>1. TypeOK /\ connection \in [Attempts -> states] /\ connection[a] \in Needs(task[a].pc)
  BY DEF IInv, TypeOK, HandlersAreConnected
<1>2. /\ Needs("idle") = states /\ Needs("get_public_did") = states
      /\ Needs("connect") = states /\ Needs("await_connection") = states
      /\ Needs("invite") = states /\ \A l \in Ended : Needs(l) = states
      /\ "failed" \in Ended /\ "crashed" \in Ended /\ "done" \in Ended
  BY Needed DEF Ended
<1>3. ASSUME NEW l \in Working \cup Ended, Goto(a, l) PROVE task'[a].pc = l
  BY <1>1, <1>3, Going
<1>4. ASSUME Retry(a) PROVE task'[a].pc \in {task[a].pc, "failed"}
  BY <1>1, <1>4, Retrying
<1>5. CASE Begin(a) \/ Crash(a)
  BY <1>1, <1>2, <1>3, <1>5 DEF Begin, Crash, Working
<1>6. CASE GetPublicDid(a)
  <2>1. task'[a].pc \in {"invite", "connect"} /\ UNCHANGED connection
    <3>1. CASE public # <<>>
               /\ Become(a, [task[a] EXCEPT !.pc = "invite", !.did = Last(public)])
      BY <1>1, <1>6, <3>1 DEF GetPublicDid, Become, TypeOK, Task
    <3> QED BY <1>3, <1>6, <3>1 DEF GetPublicDid, Working
  <2> QED BY <1>1, <1>2, <2>1
<1>7. CASE Connect(a)
  <2>1. task'[a].pc \in {"await_connection", "failed"} /\ connection'[a] \in states
    BY <1>1, <1>2, <1>3, <1>7 DEF Connect, Connections, Fail, Working
  <2> QED BY <1>1, <1>2, <1>7, <2>1 DEF Connect
<1>8. CASE AwaitConnection(a)
  <2>1. /\ task[a].pc = "await_connection" /\ UNCHANGED connection
        /\ \/ task'[a].pc = "set_endorser_role" /\ connection[a] = "completed"
           \/ task'[a].pc \in {"await_connection", "failed"}
    BY <1>3, <1>4, <1>8 DEF AwaitConnection, At, Working
  <2> QED BY <1>1, <1>2, <2>1, Needed
<1>9. CASE Configure(a)
  <2>1. \/ task'[a].pc = "set_author_role" /\ connection'[a] = "endorser"
        \/ task'[a].pc = "set_endorser_info" /\ connection'[a] = "author"
        \/ task'[a].pc = "register_nym" /\ connection'[a] = "configured"
        \/ task'[a].pc = "failed" /\ connection'[a] \in states
    BY <1>1, <1>2, <1>3, <1>9
       DEF Configure, SetMetadata, Connections, Fail, Working
  <2> QED BY <1>1, <1>2, <1>9, <2>1, Needed DEF Configure, SetMetadata
<1>10. CASE RegisterNym(a) \/ AwaitNym(a) \/ SetPublicDid(a)
  <2>1. /\ task[a].pc \in {"register_nym", "await_nym", "set_public_did"}
        /\ UNCHANGED connection
        /\ task'[a].pc \in {"await_nym", "set_public_did", "await_attrib", "failed"}
    BY <1>2, <1>3, <1>4, <1>10
    DEF RegisterNym, AwaitNym, AwaitEndorsed, SetPublicDid, Fail, At, Working
  <2> QED BY <1>1, <1>2, <2>1, Needed
<1>11. CASE AwaitAttrib(a)
  <2>1. /\ task[a].pc = "await_attrib" /\ UNCHANGED connection
        /\ task'[a].pc \in {"await_attrib", "invite", "failed"}
    <3>1. CASE Become(a, [task[a] EXCEPT !.pc = "invite", !.polls = 0, !.did = a])
      BY <1>1, <1>11, <3>1 DEF AwaitAttrib, At, Become, TypeOK, Task
    <3> QED BY <1>4, <1>11, <3>1 DEF AwaitAttrib, At
  <2> QED BY <1>1, <1>2, <2>1, Needed
<1>12. CASE CreateInvitation(a)
  <2>1. task'[a].pc \in {"done", "failed"} /\ UNCHANGED connection
    BY <1>2, <1>3, <1>12 DEF CreateInvitation, Fail
  <2> QED BY <1>1, <1>2, <2>1
<1> QED BY <1>5, <1>6, <1>7, <1>8, <1>9, <1>10, <1>11, <1>12 DEF Handle

LEMMA ConnectedKept == IInv /\ HandlersAreConnected /\ [Next]_vars => HandlersAreConnected'
<1> SUFFICES ASSUME IInv, HandlersAreConnected, [Next]_vars, NEW a \in Attempts
             PROVE  connection'[a] \in Needs(task'[a].pc)
  BY DEF HandlersAreConnected
<1> DEFINE states == Connections
<1>1. /\ connection \in [Attempts -> states] /\ connection[a] \in Needs(task[a].pc)
      /\ task[a].pc \in {"idle"} \cup Working \cup Ended
  BY DEF IInv, TypeOK, Task, HandlersAreConnected
<1>2. CASE Begin(a) \/ Handle(a) \/ Crash(a)
  BY <1>2, StepConnected
<1>3. ASSUME NEW b \in Attempts, b # a, Begin(b) \/ Handle(b) \/ Crash(b)
      PROVE  connection'[a] \in Needs(task'[a].pc)
  <2>1. task'[a] = task[a] /\ connection'[a] = connection[a]
    BY <1>3, StepNearer, StepConnected DEF Moves
  <2> QED BY <1>1, <2>1
<1>4. ASSUME NEW b \in Attempts, CompleteConnection(b)
      PROVE  connection'[a] \in Needs(task'[a].pc)
  <2>1. /\ task' = task
        /\ \/ connection'[a] = connection[a]
           \/ connection[a] = "received" /\ connection'[a] = "completed"
    BY <1>1, <1>4 DEF CompleteConnection
  <2>2. ASSUME "received" \in Needs(task[a].pc) PROVE Needs(task[a].pc) = states
    BY <2>2 DEF Needs
  <2> QED BY <1>1, <2>1, <2>2 DEF Connections
<1>5. CASE UNCHANGED vars \/ \E t \in Txns : Endorse(t)
  BY <1>1, <1>5 DEF vars, Endorse
<1> QED BY <1>2, <1>3, <1>4, <1>5 DEF Next

\* An attempt that comes to send a transaction has configured its own connection,
\* one that was completed, whatever failed before and whatever other attempts do:
\* it never stands before a transaction that it has no connection to send by.
THEOREM AttemptsAreConnected == Spec => []HandlersAreConnected
<1>1. Init => HandlersAreConnected
  BY Needed DEF Init, HandlersAreConnected, Connections
<1> QED BY <1>1, ConnectedKept, Invariance, PTL DEF Spec

=============================================================================

----------------------- MODULE TenantLifecycle_proofs -----------------------
(***************************************************************************)
(* Proofs about TenantLifecycle for every set of requests, wallets and     *)
(* labels, every choice of faults and any number of them.                  *)
(***************************************************************************)
EXTENDS TenantLifecycle, TLAPS

\* Where the handlers' control can be: what a handler knows at each label.
Shape(t) ==
    /\ t.pc \in {"assert_name", "create_wallet"} => t.op = "create" /\ t.wallet = NoWallet
    /\ t.pc \in Onboarding => t.op \in {"create", "update"} /\ t.wallet \in Wallets
    /\ t.pc \in {"register", "cleanup"} => t.op = "create" /\ t.wallet \in Wallets
    /\ t.pc \in {"get_wallet", "fetch_actor"} => t.op \in {"update", "delete"}
    /\ t.pc \in {"remove_actor", "delete_wallet"} => t.op = "delete"
    /\ t.pc \in {"put_actor", "update_wallet"} => t.op = "update"
    /\ t.op \in {"update", "delete"} => t.wallet \in Wallets
    /\ t.op = "create" => t.granting = t.roles /\ t.label \in Labels
    /\ t.op = "create" /\ t.pc \in Onboarding \cup {"register"} => t.roles # {}
    /\ t.seen # NoActor => t.op \in {"update", "delete"}
    /\ t.op = "update" /\ t.pc \in Onboarding \cup {"put_actor"} =>
            t.seen # NoActor /\ t.roles \subseteq t.seen.roles \cup t.granting

ShapeInv == \A r \in Requests : Shape(task[r])
TypeInv  == TypeOK /\ ShapeInv

\* The initial states are well typed.
LEMMA TypeInvInit == Init => TypeInv
<1> SUFFICES ASSUME Init PROVE TypeInv OBVIOUS
<1>1. task \in [Requests -> Task]
  BY TenantAssumption DEF Init, Idle, Handler, Task, Labelled
<1>2. actors \in [Wallets -> Actor \cup {NoActor}] /\ dids \in [Wallets -> Nat]
  <2>1. PICK roles \in [Wallets -> SUBSET Roles] :
          /\ \A w \in Wallets : wallets[w] = "unused" => roles[w] = {}
          /\ dids = [w \in Wallets |-> IF "issuer" \in roles[w] THEN 1 ELSE 0]
          /\ actors = [w \in Wallets |->
                        IF roles[w] = {} THEN NoActor
                        ELSE [name |-> wallets[w], roles |-> roles[w],
                              did |-> IF "issuer" \in roles[w] THEN 1 ELSE 0]]
    BY DEF Init
  <2>2. dids \in [Wallets -> Nat]
    BY <2>1
  <2>3. ASSUME NEW w \in Wallets, roles[w] # {}
        PROVE  [name |-> wallets[w], roles |-> roles[w],
                did |-> IF "issuer" \in roles[w] THEN 1 ELSE 0] \in Actor
    <3>1. wallets \in [Wallets -> Labels \cup {"unused"}]
      BY DEF Init
    <3>2. wallets[w] \in Labels /\ roles[w] \in (SUBSET Roles) \ {{}}
      BY <2>1, <2>3, <3>1
    <3> QED BY <3>2 DEF Actor
  <2> QED BY <2>1, <2>2, <2>3
<1> QED BY <1>1, <1>2, TenantAssumption DEF Init, TypeInv, TypeOK, ShapeInv, Shape, Idle, Handler, Onboarding


\* The type of everything but the handlers.
DataOK ==
    /\ wallets \in [Wallets -> Labels \cup {"unused", "deleted"}]
    /\ dids \in [Wallets -> Nat]
    /\ actors \in [Wallets -> Actor \cup {NoActor}]
    /\ faults \in Nat

WellFormed(t) == t \in Task /\ Shape(t)

\* A step that moves one handler to a well-formed state is well typed.
LEMMA Moved ==
    ASSUME TypeInv, NEW r \in Requests, NEW t, WellFormed(t), Become(r, t), DataOK'
    PROVE  TypeInv'
<1>1. task' \in [Requests -> Task]
  BY DEF TypeInv, TypeOK, Become, WellFormed
<1>2. \A q \in Requests : Shape(task'[q])
  BY DEF TypeInv, TypeOK, ShapeInv, Become, WellFormed
<1> QED BY <1>1, <1>2 DEF TypeInv, TypeOK, ShapeInv, DataOK

\* Where a handler may go without learning anything.
LEMMA PcShape ==
    ASSUME NEW t, WellFormed(t)
    PROVE  /\ WellFormed([t EXCEPT !.pc = "failed"])
           /\ WellFormed([t EXCEPT !.pc = "stray"])
           /\ WellFormed([t EXCEPT !.pc = "crashed"])
           /\ WellFormed([t EXCEPT !.pc = "done"])
           /\ t.op = "create" /\ t.wallet \in Wallets =>
                WellFormed([t EXCEPT !.pc = "cleanup"])
           /\ t.pc = "assert_name" => WellFormed([t EXCEPT !.pc = "create_wallet"])
           /\ t.pc \in Onboarding => /\ WellFormed([t EXCEPT !.pc = "publish_did"])
                                     /\ WellFormed([t EXCEPT !.pc = "invite"])
           /\ t.pc = "get_wallet" => WellFormed([t EXCEPT !.pc = "fetch_actor"])
           /\ t.op = "delete" => WellFormed([t EXCEPT !.pc = "delete_wallet"])
           /\ t.op = "update" => WellFormed([t EXCEPT !.pc = "update_wallet"])
<1> USE DEF WellFormed, Task, Labelled, Shape, Onboarding, Ended
<1>1. \A l \in Ended : WellFormed([t EXCEPT !.pc = l])
  OBVIOUS
<1>2. t.op = "create" /\ t.wallet \in Wallets => WellFormed([t EXCEPT !.pc = "cleanup"])
  OBVIOUS
<1>3. t.pc = "assert_name" => WellFormed([t EXCEPT !.pc = "create_wallet"])
  OBVIOUS
<1>4. ASSUME t.pc \in Onboarding, NEW l \in {"publish_did", "invite"}
      PROVE  WellFormed([t EXCEPT !.pc = l])
  BY <1>4
<1>5. t.pc = "get_wallet" => WellFormed([t EXCEPT !.pc = "fetch_actor"])
  OBVIOUS
<1>6. t.op = "delete" => WellFormed([t EXCEPT !.pc = "delete_wallet"])
  OBVIOUS
<1>7. t.op = "update" => WellFormed([t EXCEPT !.pc = "update_wallet"])
  OBVIOUS
<1> HIDE DEF WellFormed
<1> QED BY <1>1, <1>2, <1>3, <1>4, <1>5, <1>6, <1>7 DEF Ended

\* Where it goes with something learnt.
LEMMA LearningShape ==
    ASSUME NEW t, WellFormed(t)
    PROVE  /\ \A w \in Wallets : t.pc = "create_wallet" =>
                WellFormed([t EXCEPT !.wallet = w, !.pc =
                                IF t.roles = {} THEN "done" ELSE "public_did"])
           /\ \A did \in Nat : t.pc \in Onboarding =>
                /\ WellFormed([t EXCEPT !.did = did, !.pc =
                                IF t.op = "create" THEN "register" ELSE "put_actor"])
                /\ WellFormed([t EXCEPT !.pc = "invite", !.did = did])
           /\ \A actor \in Actor \cup {NoActor} : t.op = "delete" =>
                WellFormed([t EXCEPT !.seen = actor, !.pc =
                    IF actor = NoActor THEN "delete_wallet" ELSE "remove_actor"])
           /\ \A actor \in Actor : t.op = "update" =>
                WellFormed([t EXCEPT !.seen = actor, !.granting = t.roles \ actor.roles,
                    !.pc = IF t.roles \ actor.roles # {} THEN "public_did"
                           ELSE "put_actor"])
           /\ \A actor \in Actor : t.op = "update" =>
                WellFormed([t EXCEPT !.seen = actor, !.granting = t.roles \ actor.roles,
                    !.pc = IF t.roles \ actor.roles # {} THEN "public_did"
                           ELSE "update_wallet"])
<1> USE TenantAssumption DEF WellFormed, Task, Labelled, Shape, Onboarding, Ended
<1>1. ASSUME NEW w \in Wallets, t.pc = "create_wallet"
      PROVE  WellFormed([t EXCEPT !.wallet = w, !.pc =
                                IF t.roles = {} THEN "done" ELSE "public_did"])
  BY <1>1
<1>2. ASSUME NEW did \in Nat, t.pc \in Onboarding
      PROVE  /\ WellFormed([t EXCEPT !.did = did, !.pc =
                                IF t.op = "create" THEN "register" ELSE "put_actor"])
             /\ WellFormed([t EXCEPT !.pc = "invite", !.did = did])
  BY <1>2
<1>3. ASSUME NEW actor \in Actor \cup {NoActor}, t.op = "delete"
      PROVE  WellFormed([t EXCEPT !.seen = actor, !.pc =
                    IF actor = NoActor THEN "delete_wallet" ELSE "remove_actor"])
  BY <1>3
<1>4. ASSUME NEW actor \in Actor, t.op = "update",
             NEW l \in {"put_actor", "update_wallet"}
      PROVE  WellFormed([t EXCEPT !.seen = actor, !.granting = t.roles \ actor.roles,
                    !.pc = IF t.roles \ actor.roles # {} THEN "public_did" ELSE l])
  BY <1>4 DEF Actor
<1> HIDE DEF WellFormed
<1> QED BY <1>1, <1>2, <1>3, <1>4

\* The steps of a request.
Step(r) ==
    \/ Receive(r) \/ Crash(r)
    \/ AssertActorName(r) \/ CreateWallet(r) \/ Register(r) \/ CleanUp(r)
    \/ GetPublicDid(r) \/ PublishDid(r) \/ CreateInvitation(r)
    \/ GetWallet(r) \/ FetchActorToDelete(r) \/ RemoveActor(r) \/ DeleteWallet(r)
    \/ FetchActorToUpdate(r) \/ PutActor(r) \/ UpdateWallet(r)

\* The row that is written is an actor.
LEMMA RowsAreActors ==
    ASSUME TypeInv, NEW r \in Requests
    PROVE  /\ At(r, "register") =>
                [name |-> task[r].label, roles |-> task[r].roles,
                 did |-> task[r].did] \in Actor
           /\ At(r, "put_actor") => UpdatedActor(r) \in Actor
<1>1. task[r] \in Task /\ Shape(task[r])
  BY DEF TypeInv, TypeOK, ShapeInv
<1>2. CASE At(r, "register")
  BY <1>1, <1>2 DEF At, Task, Shape, Actor
<1>3. CASE At(r, "put_actor")
  <2>1. task[r].seen \in Actor /\ task[r].op = "update" /\ task[r].did \in Nat
    BY <1>1, <1>3 DEF At, Task, Shape
  <2>2. task[r].label \in Labels \cup {NoLabel} /\ task[r].roles \subseteq Roles
    BY <1>1 DEF Task
  <2>3. /\ task[r].seen.name \in Labels /\ task[r].seen.did \in Nat
        /\ task[r].seen.roles \in (SUBSET Roles) \ {{}}
    BY <2>1 DEF Actor
  <2> DEFINE name == IF task[r].label # NoLabel THEN task[r].label ELSE task[r].seen.name
             roles == task[r].seen.roles \cup task[r].roles
             did  == IF task[r].granting # {} THEN task[r].did ELSE task[r].seen.did
  <2>4. name \in Labels /\ did \in Nat
    BY <2>1, <2>2, <2>3
  <2>5. roles \in (SUBSET Roles) \ {{}}
    BY <2>2, <2>3
  <2>6. UpdatedActor(r) = [name |-> name, roles |-> roles, did |-> did]
    BY DEF UpdatedActor
  <2> HIDE DEF name, roles, did
  <2>7. [name |-> name, roles |-> roles, did |-> did] \in Actor
    BY <2>4, <2>5 DEF Actor
  <2> QED BY <1>3, <2>6, <2>7 DEF At
<1> QED BY <1>2, <1>3 DEF At

\* No step leaves the types of the agent's and the registry's tables.
LEMMA DataStep ==
    ASSUME TypeInv, NEW r \in Requests, Step(r)
    PROVE  DataOK'
<1> USE TenantAssumption DEF DataOK
<1>1. DataOK /\ task[r] \in Task /\ Shape(task[r])
  BY DEF TypeInv, TypeOK, ShapeInv
<1>2. faults' \in Nat
  <2>1. CASE Receive(r) \/ Crash(r) \/ AssertActorName(r) \/ GetWallet(r)
    BY <1>1, <2>1 DEF Receive, Crash, AssertActorName, GetWallet, Fault, NoFault, Refused
  <2>2. CASE CreateWallet(r) \/ Register(r) \/ CleanUp(r)
    <3>1. NoFault \/ \E f \in {"agent", "lost", "registry", "connect_timeout"} : Fault(f)
      BY <2>2 DEF CreateWallet, Register, CleanUp, Refused
    <3> QED BY <1>1, <3>1 DEF Fault, NoFault
  <2>3. CASE GetPublicDid(r) \/ PublishDid(r) \/ CreateInvitation(r)
    BY <1>1, <2>3 DEF GetPublicDid, PublishDid, CreateInvitation, Fault, NoFault
  <2>4. CASE FetchActorToDelete(r) \/ RemoveActor(r) \/ DeleteWallet(r)
    BY <1>1, <2>4 DEF FetchActorToDelete, RemoveActor, DeleteWallet, Fault, NoFault, Refused
  <2>5. CASE FetchActorToUpdate(r) \/ PutActor(r) \/ UpdateWallet(r)
    <3>1. NoFault \/ \E f \in {"agent", "lost", "registry", "connect_timeout"} : Fault(f)
      BY <2>5 DEF FetchActorToUpdate, PutActor, UpdateWallet, Refused
    <3> QED BY <1>1, <3>1 DEF Fault, NoFault
  <2> QED BY <2>1, <2>2, <2>3, <2>4, <2>5 DEF Step
<1>3. dids' \in [Wallets -> Nat]
  <2>1. PublishDid(r) \/ dids' = dids
    BY DEF Step, Receive, Crash, AssertActorName, CreateWallet, Register, CleanUp,
        GetPublicDid, CreateInvitation, GetWallet, FetchActorToDelete,
        RemoveActor, DeleteWallet, FetchActorToUpdate, PutActor, UpdateWallet
  <2>2. CASE PublishDid(r)
    <3>1. dids' = dids \/ dids' = [dids EXCEPT ![WalletOf(r)] = @ + 1]
      BY <2>2 DEF PublishDid
    <3> QED BY <1>1, <3>1
  <2> QED BY <1>1, <2>1, <2>2
<1>4. actors' \in [Wallets -> Actor \cup {NoActor}]
  <2>1. Register(r) \/ RemoveActor(r) \/ PutActor(r) \/ actors' = actors
    BY DEF Step, Receive, Crash, AssertActorName, CreateWallet, CleanUp,
        GetPublicDid, PublishDid, CreateInvitation, GetWallet, FetchActorToDelete,
        DeleteWallet, FetchActorToUpdate, UpdateWallet
  <2>2. CASE Register(r)
    BY <1>1, <2>2, RowsAreActors DEF Register
  <2>3. CASE RemoveActor(r)
    BY <1>1, <2>3 DEF RemoveActor
  <2>4. CASE PutActor(r)
    BY <1>1, <2>4, RowsAreActors DEF PutActor
  <2> QED BY <1>1, <2>1, <2>2, <2>3, <2>4
<1>5. wallets' \in [Wallets -> Labels \cup {"unused", "deleted"}]
  <2>1. At(r, "create_wallet") => task[r].label \in Labels
    BY <1>1 DEF At, Shape
  <2>2. task[r].label \in Labels \cup {NoLabel}
    BY <1>1 DEF Task
  <2> QED
    BY <1>1, <2>1, <2>2 DEF Step, Receive, Crash, AssertActorName, CreateWallet,
        Register, CleanUp, GetPublicDid, PublishDid, CreateInvitation, GetWallet,
        FetchActorToDelete, RemoveActor, DeleteWallet, FetchActorToUpdate, PutActor,
        UpdateWallet
<1> QED BY <1>2, <1>3, <1>4, <1>5

\* No step leaves a handler in a state that is not well formed.
LEMMA TypeInvStep ==
    ASSUME TypeInv, NEW r \in Requests, Step(r)
    PROVE  TypeInv'
<1>1. WellFormed(task[r])
  BY DEF TypeInv, TypeOK, ShapeInv, WellFormed
<1>2. ASSUME NEW t, WellFormed(t), Become(r, t)
      PROVE  TypeInv'
  BY <1>2, DataStep, Moved
<1>3. task[r].op = "create" => task[r].seen = NoActor
  BY <1>1 DEF WellFormed, Shape
<1> USE DEF At, Goto, Fail, WalletOf
<1>4. CASE Receive(r)
  <2>1. ASSUME NEW w \in Wallets, NEW label \in Labels \cup {NoLabel},
               NEW roles \in SUBSET Roles
        PROVE  /\ WellFormed(Handler("get_wallet", "update", w, label, roles))
               /\ WellFormed(Handler("get_wallet", "delete", w, NoLabel, {}))
    BY DEF WellFormed, Handler, Task, Labelled, Shape, Onboarding
  <2>2. ASSUME NEW label \in Labels, NEW roles \in SUBSET Roles
        PROVE  WellFormed(Handler("assert_name", "create", NoWallet, label, roles))
    BY DEF WellFormed, Handler, Task, Labelled, Shape, Onboarding
  <2> QED BY <1>2, <1>4, <2>1, <2>2 DEF Receive
<1>5. CASE Crash(r)
  BY <1>1, <1>2, <1>5, PcShape DEF Crash
<1>6. CASE AssertActorName(r)
  BY <1>1, <1>2, <1>6, PcShape DEF AssertActorName
<1>7. CASE CreateWallet(r)
  <2>1. \A w \in Wallets :
            WellFormed([task[r] EXCEPT !.wallet = w, !.pc =
                            IF task[r].roles = {} THEN "done" ELSE "public_did"])
    BY <1>1, <1>7, LearningShape DEF CreateWallet
  <2> QED BY <1>1, <1>2, <1>7, <2>1, PcShape DEF CreateWallet
<1>8. CASE Register(r)
  <2>1. task[r].op = "create" /\ task[r].wallet \in Wallets
    BY <1>1, <1>8 DEF Register, WellFormed, Shape
  <2> QED BY <1>1, <1>2, <1>8, <2>1, PcShape DEF Register
<1>9. CASE CleanUp(r)
  BY <1>1, <1>2, <1>9, PcShape DEF CleanUp
<1>10. ASSUME task[r].pc \in Onboarding
       PROVE  /\ OnboardingFails(r) => TypeInv'
              /\ \A did \in Nat : Onboarded(r, did) => TypeInv'
              /\ task[r].wallet \in Wallets /\ dids[task[r].wallet] \in Nat
              /\ task[r].did \in Nat
  <2>1. task[r].wallet \in Wallets /\ task[r].did \in Nat
    BY <1>1, <1>10 DEF WellFormed, Shape, Task
  <2>2. dids[task[r].wallet] \in Nat
    BY <2>1 DEF TypeInv, TypeOK
  <2>3. OnboardingFails(r) => TypeInv'
    BY <1>1, <1>2, <2>1, PcShape DEF OnboardingFails
  <2>4. \A did \in Nat : Onboarded(r, did) => TypeInv'
    <3>1. \A did \in Nat :
            WellFormed([task[r] EXCEPT !.did = did, !.pc =
                    IF task[r].op = "create" THEN "register" ELSE "put_actor"])
      BY <1>1, <1>10, LearningShape
    <3> QED BY <1>2, <3>1 DEF Onboarded
  <2> QED BY <2>1, <2>2, <2>3, <2>4
<1>11. CASE GetPublicDid(r)
  <2>1. task[r].pc \in Onboarding
    BY <1>11 DEF GetPublicDid, Onboarding
  <2> QED BY <1>1, <1>2, <1>10, <1>11, <2>1, PcShape, LearningShape DEF GetPublicDid
<1>12. CASE PublishDid(r)
  <2>1. task[r].pc \in Onboarding
    BY <1>12 DEF PublishDid, Onboarding
  <2>2. WellFormed([task[r] EXCEPT !.pc = "invite", !.did = dids[task[r].wallet] + 1])
    <3>1. dids[task[r].wallet] + 1 \in Nat
      BY <1>10, <2>1
    <3> QED BY <1>1, <2>1, <3>1, LearningShape
  <2> QED BY <1>2, <1>10, <1>12, <2>1, <2>2 DEF PublishDid
<1>13. CASE CreateInvitation(r)
  <2>1. task[r].pc \in Onboarding
    BY <1>13 DEF CreateInvitation, Onboarding
  <2> QED BY <1>10, <1>13, <2>1 DEF CreateInvitation
<1>14. CASE GetWallet(r)
  BY <1>1, <1>2, <1>14, PcShape DEF GetWallet
<1>15. ASSUME At(r, "fetch_actor")
       PROVE  actors[WalletOf(r)] \in Actor \cup {NoActor}
  BY <1>1, <1>15 DEF WellFormed, Shape, TypeInv, TypeOK
<1>16. CASE FetchActorToDelete(r)
  <2>1. LET actor == actors[WalletOf(r)]
        IN  WellFormed([task[r] EXCEPT !.seen = actor, !.pc =
                        IF actor = NoActor THEN "delete_wallet" ELSE "remove_actor"])
    BY <1>1, <1>15, <1>16, LearningShape DEF FetchActorToDelete
  <2> QED BY <1>1, <1>2, <1>16, <2>1, PcShape DEF FetchActorToDelete
<1>17. CASE RemoveActor(r)
  <2>1. task[r].op = "delete"
    BY <1>1, <1>17 DEF RemoveActor, WellFormed, Shape
  <2> QED BY <1>1, <1>2, <1>17, <2>1, PcShape DEF RemoveActor
<1>18. CASE DeleteWallet(r)
  BY <1>1, <1>2, <1>18, PcShape DEF DeleteWallet
<1>19. CASE FetchActorToUpdate(r)
  <2> DEFINE actor == actors[WalletOf(r)]
             Next3(l) == [task[r] EXCEPT !.seen = actor,
                            !.granting = task[r].roles \ actor.roles,
                            !.pc = IF task[r].roles \ actor.roles # {}
                                   THEN "public_did" ELSE l]
  <2>1. actor # NoActor => WellFormed(Next3("put_actor"))
                           /\ WellFormed(Next3("update_wallet"))
    BY <1>1, <1>15, <1>19, LearningShape DEF FetchActorToUpdate
  <2>2. \/ Goto(r, "failed") \/ Goto(r, "update_wallet")
        \/ actor # NoActor /\ Become(r, Next3("put_actor"))
        \/ actor # NoActor /\ Become(r, Next3("update_wallet"))
    BY <1>19 DEF FetchActorToUpdate
  <2>3. task[r].op = "update"
    BY <1>19 DEF FetchActorToUpdate
  <2> HIDE DEF Next3
  <2> QED BY <1>1, <1>2, <2>1, <2>2, <2>3, PcShape
<1>20. CASE PutActor(r)
  <2>1. task[r].op = "update"
    BY <1>1, <1>20 DEF PutActor, WellFormed, Shape
  <2> QED BY <1>1, <1>2, <1>20, <2>1, PcShape DEF PutActor
<1>21. CASE UpdateWallet(r)
  BY <1>1, <1>2, <1>21, PcShape DEF UpdateWallet
<1> QED BY <1>4, <1>5, <1>6, <1>7, <1>8, <1>9, <1>11, <1>12, <1>13, <1>14, <1>16,
           <1>17, <1>18, <1>19, <1>20, <1>21 DEF Step

\* Neither does any step of the system.
LEMMA TypeInvNext == TypeInv /\ [Next]_vars => TypeInv'
<1> SUFFICES ASSUME TypeInv, [Next]_vars PROVE TypeInv' OBVIOUS
<1>1. CASE Next
  BY <1>1, TypeInvStep DEF Next, Step
<1>2. CASE UNCHANGED vars
  BY <1>2 DEF vars, TypeInv, TypeOK, ShapeInv, Shape
<1> QED BY <1>1, <1>2

\* Every reachable state is well typed.
THEOREM TypeCorrect == Spec => []TypeOK
<1>1. TypeInv => TypeOK
  BY DEF TypeInv
<1> QED BY TypeInvInit, TypeInvNext, <1>1, PTL DEF Spec

-----------------------------------------------------------------------------
\* What a step of one handler can do to the registry.
LEMMA ActorsStep ==
    ASSUME NEW r \in Requests, Step(r)
    PROVE  \/ actors' = actors
           \/ /\ Register(r) /\ At(r, "register")
              /\ actors[WalletOf(r)] = NoActor /\ ActorNamed(task[r].label) = {}
              /\ actors' = [actors EXCEPT ![WalletOf(r)] =
                    [name |-> task[r].label, roles |-> task[r].roles, did |-> task[r].did]]
           \/ /\ RemoveActor(r) /\ At(r, "remove_actor")
              /\ actors' = [actors EXCEPT ![WalletOf(r)] = NoActor]
           \/ /\ PutActor(r) /\ At(r, "put_actor")
              /\ actors[WalletOf(r)] # NoActor
              /\ ActorNamed(UpdatedActor(r).name) \subseteq {WalletOf(r)}
              /\ actors' = [actors EXCEPT ![WalletOf(r)] = UpdatedActor(r)]
<1>1. Register(r) \/ RemoveActor(r) \/ PutActor(r) \/ actors' = actors
  BY DEF Step, Receive, Crash, AssertActorName, CreateWallet, CleanUp,
      GetPublicDid, PublishDid, CreateInvitation, GetWallet, FetchActorToDelete,
      DeleteWallet, FetchActorToUpdate, UpdateWallet
<1>2. CASE Register(r)
  BY <1>2 DEF Register
<1>3. CASE RemoveActor(r)
  BY <1>3 DEF RemoveActor
<1>4. CASE PutActor(r)
  BY <1>4 DEF PutActor
<1> QED BY <1>1, <1>2, <1>3, <1>4

\* No two actors have the same name: the registry's constraint covers both of
\* the calls that write names, whatever the handlers checked before.
THEOREM NamesUnique == Spec => []ActorNamesUnique
<1>1. Init => ActorNamesUnique
  <2> SUFFICES ASSUME Init PROVE ActorNamesUnique OBVIOUS
  <2>1. PICK roles \in [Wallets -> SUBSET Roles] :
          /\ \A v, w \in Wallets :
                v # w /\ roles[v] # {} /\ roles[w] # {} => wallets[v] # wallets[w]
          /\ actors = [w \in Wallets |->
                        IF roles[w] = {} THEN NoActor
                        ELSE [name |-> wallets[w], roles |-> roles[w],
                              did |-> IF "issuer" \in roles[w] THEN 1 ELSE 0]]
    BY DEF Init
  <2>2. \A w \in Wallets : actors[w] # NoActor =>
            roles[w] # {} /\ actors[w].name = wallets[w]
    BY <2>1
  <2> QED BY <2>1, <2>2 DEF ActorNamesUnique
<1>2. TypeInv /\ ActorNamesUnique /\ [Next]_vars => ActorNamesUnique'
  <2> SUFFICES ASSUME TypeInv, ActorNamesUnique, [Next]_vars
               PROVE  ActorNamesUnique'
    OBVIOUS
  <2>1. CASE UNCHANGED vars
    BY <2>1 DEF vars, ActorNamesUnique
  <2>2. ASSUME NEW r \in Requests, Step(r) PROVE ActorNamesUnique'
    <3> actors \in [Wallets -> Actor \cup {NoActor}]
      BY DEF TypeInv, TypeOK
    <3>1. ASSUME NEW w, NEW row \in Actor, ActorNamed(row.name) \subseteq {w},
                 actors' = [actors EXCEPT ![w] = row]
          PROVE  ActorNamesUnique'
      BY <3>1 DEF ActorNamesUnique, ActorNamed
    <3>2. CASE actors' = actors
      BY <3>2 DEF ActorNamesUnique
    <3>3. CASE actors' = [actors EXCEPT ![WalletOf(r)] = NoActor]
      BY <3>3 DEF ActorNamesUnique
    <3>4. CASE /\ At(r, "register") /\ ActorNamed(task[r].label) = {}
               /\ actors' = [actors EXCEPT ![WalletOf(r)] =
                    [name |-> task[r].label, roles |-> task[r].roles, did |-> task[r].did]]
      BY <3>1, <3>4, RowsAreActors
    <3>5. CASE /\ At(r, "put_actor")
               /\ ActorNamed(UpdatedActor(r).name) \subseteq {WalletOf(r)}
               /\ actors' = [actors EXCEPT ![WalletOf(r)] = UpdatedActor(r)]
      BY <3>1, <3>5, RowsAreActors
    <3> QED BY <2>2, <3>2, <3>3, <3>4, <3>5, ActorsStep
  <2> QED BY <2>1, <2>2 DEF Next, Step
<1> QED BY <1>1, <1>2, TypeInvInit, TypeInvNext, PTL DEF Spec

-----------------------------------------------------------------------------
\* A create request between its wallet's creation and its actor's.
Pending(t) == t.op = "create" /\ t.pc \in Onboarding \cup {"register"}

\* A deleted tenant's actor stays away because only the request that created a
\* wallet registers its actor, once, and nobody sees the actor before that.
UnusedInv ==
    \A w \in Wallets : wallets[w] = "unused" =>
        actors[w] = NoActor /\ \A r \in Requests : WalletOf(r) # w

PendingInv ==
    \A c \in Requests : Pending(task[c]) =>
        /\ actors[WalletOf(c)] = NoActor
        /\ \A r \in Requests : WalletOf(r) = WalletOf(c) =>
                task[r].seen = NoActor /\ (Pending(task[r]) => r = c)

EndInv == DeletedIsGone /\ FailedCreateLeavesNoWallet

WalletInv == UnusedInv /\ PendingInv /\ EndInv

\* A handler is in one of the two final situations the properties are about.
EndOK(t, registered, existing) ==
    /\ t.op = "delete" /\ t.seen # NoActor =>
        /\ t.pc = "delete_wallet" => registered[t.wallet] = NoActor
        /\ t.pc = "done" => /\ registered[t.wallet] = NoActor
                            /\ existing[t.wallet] = "deleted"
    /\ t.op = "create" /\ t.pc = "failed" /\ t.wallet # NoWallet =>
        existing[t.wallet] = "deleted"

\* The two properties, handler by handler.
LEMMA EndInvIsEndOK ==
    /\ EndInv <=> \A r \in Requests : EndOK(task[r], actors, wallets)
    /\ EndInv' <=> \A r \in Requests : EndOK(task'[r], actors', wallets')
BY DEF EndInv, EndOK, DeletedIsGone, FailedCreateLeavesNoWallet, At, WalletOf

\* What the steps of a handler that knows its wallet have in common: only a
\* pending create adds an actor, and a deleted wallet stays deleted.
LEMMA WalletMove ==
    ASSUME TypeInv, WalletInv, NEW r \in Requests, NEW t, Become(r, t), WellFormed(t),
           t.wallet = task[r].wallet, t.op = task[r].op,
           Pending(t) => Pending(task[r]),
           t.seen = task[r].seen \/ (t.seen = actors[t.wallet] /\ t.wallet \in Wallets),
           \A w \in Wallets : actors[w] = NoActor /\ actors'[w] # NoActor =>
                Pending(task[r]) /\ ~ Pending(t) /\ w = t.wallet,
           \A w \in Wallets : wallets'[w] = "unused" => wallets[w] = "unused",
           \A w \in Wallets : wallets[w] = "deleted" => wallets'[w] = "deleted",
           EndOK(t, actors', wallets')
    PROVE  WalletInv'
<1>1. /\ task'[r] = t
      /\ \A q \in Requests : q # r => task'[q] = task[q]
  BY DEF Become, TypeInv, TypeOK
<1>2. /\ \A q \in Requests : task'[q].wallet = task[q].wallet
      /\ \A q \in Requests : task'[q].op = task[q].op
      /\ \A q \in Requests : Pending(task'[q]) => Pending(task[q])
  BY <1>1
<1>3. UnusedInv'
  BY <1>1, <1>2 DEF WalletInv, UnusedInv, WalletOf
<1>4. PendingInv'
  <2> SUFFICES ASSUME NEW c \in Requests, Pending(task'[c])
               PROVE  /\ actors'[task'[c].wallet] = NoActor
                      /\ \A q \in Requests : task'[q].wallet = task'[c].wallet =>
                            task'[q].seen = NoActor /\ (Pending(task'[q]) => q = c)
    BY DEF PendingInv, WalletOf, Pending
  <2>1. /\ actors[task[c].wallet] = NoActor
        /\ \A q \in Requests : task[q].wallet = task[c].wallet =>
                task[q].seen = NoActor /\ (Pending(task[q]) => q = c)
    BY <1>2 DEF WalletInv, PendingInv, WalletOf
  <2>2. task[c].wallet \in Wallets
    BY <1>2 DEF TypeInv, ShapeInv, Shape, Pending
  <2>3. actors'[task[c].wallet] = NoActor
    <3>1. c = r => Pending(t)
      BY <1>1
    <3> QED BY <1>2, <2>1, <2>2, <3>1
  <2>4. \A q \in Requests : task[q].wallet = task[c].wallet => task'[q].seen = NoActor
    BY <1>1, <2>1
  <2> QED BY <1>2, <2>1, <2>3, <2>4
<1>5. EndInv'
  <2>1. \A q \in Requests : EndOK(task'[q], actors', wallets')
    <3> SUFFICES ASSUME NEW q \in Requests, q # r
                 PROVE  EndOK(task'[q], actors', wallets')
      BY <1>1
    <3>1. EndOK(task[q], actors, wallets) /\ WellFormed(task[q]) /\ task'[q] = task[q]
      BY <1>1, EndInvIsEndOK DEF WalletInv, TypeInv, TypeOK, ShapeInv, WellFormed
    <3>2. task[q].op = "delete" /\ task[q].seen # NoActor
            /\ actors[task[q].wallet] = NoActor => actors'[task[q].wallet] = NoActor
      <4> SUFFICES ASSUME task[q].op = "delete", task[q].seen # NoActor,
                          Pending(task[r]), task[q].wallet = t.wallet
                   PROVE  FALSE
        BY <3>1 DEF WellFormed, Shape
      <4> QED BY DEF WalletInv, PendingInv, WalletOf
    <3>3. task[q].wallet \in Wallets \cup {NoWallet}
      BY <3>1 DEF WellFormed, Task
    <3>4. task[q].op = "delete" => task[q].wallet \in Wallets
      BY <3>1 DEF WellFormed, Shape
    <3> QED BY <3>1, <3>2, <3>3, <3>4 DEF EndOK
  <2> QED BY <2>1, EndInvIsEndOK
<1> QED BY <1>3, <1>4, <1>5 DEF WalletInv

\* The handler of a request that knows its wallet: its next state.
Follows(r, t) ==
    /\ Become(r, t)
    /\ t.wallet = task[r].wallet /\ t.op = task[r].op
    /\ t.seen = task[r].seen \/ (t.seen = actors[t.wallet] /\ t.wallet \in Wallets)
    /\ Pending(t) => Pending(task[r])

\* Which step leads it there, and to which label.
LEMMA FollowingStep ==
    ASSUME TypeInv, NEW r \in Requests, Step(r), ~ Receive(r),
           ~ CreateWallet(r) \/ Goto(r, "failed")
    PROVE  \E t : Follows(r, t)
<1>1. WellFormed(task[r]) /\ task[r] \in Task
  BY DEF TypeInv, TypeOK, ShapeInv, WellFormed
<1>2. ASSUME NEW l, Goto(r, l), Pending([task[r] EXCEPT !.pc = l]) => Pending(task[r])
      PROVE  \E t : Follows(r, t)
  <2> DEFINE t == [task[r] EXCEPT !.pc = l]
  <2>1. t.wallet = task[r].wallet /\ t.op = task[r].op /\ t.seen = task[r].seen
    BY <1>1 DEF Task
  <2>2. Become(r, t) /\ (Pending(t) => Pending(task[r]))
    BY <1>2 DEF Goto
  <2> HIDE DEF t
  <2>3. Follows(r, t)
    BY <2>1, <2>2 DEF Follows
  <2> QED BY <2>3
<1>3. ASSUME NEW l, l \notin Onboarding \cup {"register"}, Goto(r, l)
      PROVE  \E t : Follows(r, t)
  BY <1>1, <1>2, <1>3 DEF Pending, Task
<1> USE DEF At, Fail
<1>4. CASE Crash(r)
  BY <1>3, <1>4 DEF Crash, Onboarding
<1>5. CASE AssertActorName(r) \/ CreateWallet(r) \/ GetWallet(r)
  BY <1>3, <1>5 DEF AssertActorName, GetWallet, Onboarding
<1>6. CASE Register(r) \/ CleanUp(r)
  BY <1>3, <1>6 DEF Register, CleanUp, Onboarding
<1>7. CASE RemoveActor(r) \/ DeleteWallet(r) \/ PutActor(r) \/ UpdateWallet(r)
  BY <1>3, <1>7 DEF RemoveActor, DeleteWallet, PutActor, UpdateWallet, Onboarding
<1>8. ASSUME task[r].pc \in Onboarding
      PROVE  /\ \A l : Goto(r, l) => \E t : Follows(r, t)
             /\ \A did : Onboarded(r, did) => \E t : Follows(r, t)
             /\ OnboardingFails(r) => \E t : Follows(r, t)
             /\ \A did : Become(r, [task[r] EXCEPT !.pc = "invite", !.did = did])
                            => \E t : Follows(r, t)
  <2>1. task[r].op = "create" => Pending(task[r])
    BY <1>8 DEF Pending
  <2>2. ASSUME NEW l, Goto(r, l) PROVE \E t : Follows(r, t)
    BY <1>1, <1>2, <2>1, <2>2 DEF Pending, Task
  <2>3. ASSUME NEW did, NEW l, Become(r, [task[r] EXCEPT !.did = did, !.pc = l])
        PROVE  \E t : Follows(r, t)
    <3> DEFINE t == [task[r] EXCEPT !.did = did, !.pc = l]
    <3>1. t.wallet = task[r].wallet /\ t.op = task[r].op /\ t.seen = task[r].seen
      BY <1>1 DEF Task
    <3>2. Become(r, t)
      BY <2>3
    <3> HIDE DEF t
    <3>3. Follows(r, t)
      BY <2>1, <3>1, <3>2 DEF Follows, Pending
    <3> QED BY <3>3
  <2>4. ASSUME NEW did, Become(r, [task[r] EXCEPT !.pc = "invite", !.did = did])
        PROVE  \E t : Follows(r, t)
    <3> DEFINE t == [task[r] EXCEPT !.pc = "invite", !.did = did]
    <3>1. t.wallet = task[r].wallet /\ t.op = task[r].op /\ t.seen = task[r].seen
      BY <1>1 DEF Task
    <3>2. Become(r, t)
      BY <2>4
    <3> HIDE DEF t
    <3>3. Follows(r, t)
      BY <2>1, <3>1, <3>2 DEF Follows, Pending
    <3> QED BY <3>3
  <2> QED BY <2>2, <2>3, <2>4 DEF Onboarded, OnboardingFails
<1>9. CASE GetPublicDid(r) \/ PublishDid(r) \/ CreateInvitation(r)
  <2>1. task[r].pc \in Onboarding
    BY <1>9 DEF GetPublicDid, PublishDid, CreateInvitation, Onboarding
  <2> QED BY <1>8, <1>9, <2>1 DEF GetPublicDid, PublishDid, CreateInvitation
<1>10. CASE FetchActorToDelete(r)
  <2> DEFINE actor == actors[WalletOf(r)]
             t == [task[r] EXCEPT !.seen = actor, !.pc =
                        IF actor = NoActor THEN "delete_wallet" ELSE "remove_actor"]
  <2>1. task[r].op = "delete" /\ task[r].wallet \in Wallets
    BY <1>1, <1>10 DEF FetchActorToDelete, WellFormed, Shape
  <2>2. Become(r, t) => Follows(r, t)
    BY <1>1, <2>1 DEF Follows, Pending, Task, WalletOf
  <2>3. Become(r, t) \/ Goto(r, "failed")
    BY <1>10 DEF FetchActorToDelete
  <2> QED BY <1>3, <2>2, <2>3 DEF Onboarding
<1>11. CASE FetchActorToUpdate(r)
  <2> DEFINE actor == actors[WalletOf(r)]
             t(l) == [task[r] EXCEPT !.seen = actor,
                        !.granting = task[r].roles \ actor.roles,
                        !.pc = IF task[r].roles \ actor.roles # {}
                               THEN "public_did" ELSE l]
  <2>1. task[r].op = "update" /\ task[r].wallet \in Wallets
    BY <1>1, <1>11 DEF FetchActorToUpdate, WellFormed, Shape
  <2>2. ASSUME NEW l, Become(r, t(l)) PROVE Follows(r, t(l))
    BY <1>1, <2>1, <2>2 DEF Follows, Pending, Task, WalletOf
  <2>3. \/ Become(r, t("put_actor")) \/ Become(r, t("update_wallet"))
        \/ Goto(r, "failed") \/ Goto(r, "update_wallet")
    BY <1>11 DEF FetchActorToUpdate
  <2> HIDE DEF t
  <2> QED BY <1>3, <2>2, <2>3 DEF Onboarding
<1> QED BY <1>4, <1>5, <1>6, <1>7, <1>9, <1>10, <1>11 DEF Step

\* Wallets appear only in CreateWallet, and none comes back.
LEMMA WalletsStep ==
    ASSUME TypeInv, NEW r \in Requests, Step(r)
    PROVE  /\ \A w \in Wallets : wallets'[w] = "unused" => wallets[w] = "unused"
           /\ \A w \in Wallets : wallets[w] = "deleted" => wallets'[w] = "deleted"
<1>1. WellFormed(task[r]) /\ wallets \in [Wallets -> Labels \cup {"unused", "deleted"}]
  BY DEF TypeInv, TypeOK, ShapeInv, WellFormed
<1>2. \/ wallets' = wallets
      \/ CreateWallet(r) \/ CleanUp(r) \/ DeleteWallet(r) \/ UpdateWallet(r)
  BY DEF Step, Receive, Crash, AssertActorName, Register, GetPublicDid, PublishDid,
      CreateInvitation, GetWallet, FetchActorToDelete, RemoveActor, FetchActorToUpdate,
      PutActor
<1> USE TenantAssumption DEF At, Exists, WalletOf
<1>3. CASE CreateWallet(r)
  <2>1. task[r].label \in Labels
    BY <1>1, <1>3 DEF CreateWallet, WellFormed, Shape
  <2> QED BY <1>1, <1>3, <2>1 DEF CreateWallet
<1>4. CASE CleanUp(r) \/ DeleteWallet(r)
  BY <1>1, <1>4 DEF CleanUp, DeleteWallet
<1>5. CASE UpdateWallet(r)
  <2>1. task[r].label \in Labels \cup {NoLabel}
    BY <1>1 DEF WellFormed, Task
  <2> QED BY <1>1, <1>5, <2>1 DEF UpdateWallet
<1> QED BY <1>2, <1>3, <1>4, <1>5

\* How a handler reaches the situations that EndOK is about.
LEMMA EndStep ==
    ASSUME TypeInv, WalletInv, NEW r \in Requests, Step(r), NEW t, Follows(r, t),
           ~ Receive(r), ~ CreateWallet(r) \/ Goto(r, "failed")
    PROVE  EndOK(t, actors', wallets')
<1>1. /\ WellFormed(task[r]) /\ task[r] \in Task
      /\ wallets \in [Wallets -> Labels \cup {"unused", "deleted"}]
      /\ actors \in [Wallets -> Actor \cup {NoActor}]
      /\ EndOK(task[r], actors, wallets)
  BY EndInvIsEndOK DEF WalletInv, TypeInv, TypeOK, ShapeInv, WellFormed
<1>2. t = task'[r] /\ t.wallet = task[r].wallet /\ t.op = task[r].op
  BY DEF Follows, Become, TypeInv, TypeOK
<1>3. \A u : Become(r, u) => t = u
  BY <1>2 DEF Become, TypeInv, TypeOK
<1>4. ASSUME NEW l, Goto(r, l) PROVE t.pc = l /\ t.seen = task[r].seen
  BY <1>1, <1>3, <1>4 DEF Goto, Task
<1>5. WellFormed(t)
  BY <1>2, TypeInvStep DEF TypeInv, TypeOK, ShapeInv, WellFormed
<1>6. t.op = "create" => t.seen = NoActor
  BY <1>5 DEF WellFormed, Shape
<1> USE DEF At, Fail, WalletOf
<1>7. CASE Crash(r)
  BY <1>4, <1>7 DEF Crash, EndOK
<1>8. CASE AssertActorName(r) \/ CreateWallet(r)
  <2>1. task[r].op = "create" /\ task[r].wallet = NoWallet
    BY <1>1, <1>8 DEF AssertActorName, CreateWallet, WellFormed, Shape
  <2> QED BY <1>2, <1>6, <2>1 DEF EndOK
<1>9. CASE Register(r) \/ CleanUp(r)
  <2>1. task[r].op = "create" /\ task[r].wallet \in Wallets
    BY <1>1, <1>9 DEF Register, CleanUp, WellFormed, Shape
  <2>2. CASE Register(r)
    BY <1>2, <1>4, <1>6, <2>1, <2>2 DEF Register, EndOK
  <2>3. CASE CleanUp(r) /\ Goto(r, "stray")
    BY <1>2, <1>4, <1>6, <2>1, <2>3 DEF EndOK
  <2>4. CASE CleanUp(r) /\ wallets' = [wallets EXCEPT ![task[r].wallet] = "deleted"]
    BY <1>1, <1>2, <1>6, <2>1, <2>4 DEF EndOK
  <2>5. CASE CleanUp(r) /\ wallets' = wallets /\ ~ Exists(task[r].wallet)
    <3>1. wallets[task[r].wallet] # "unused"
      BY <2>1 DEF WalletInv, UnusedInv
    <3>2. wallets'[task[r].wallet] = "deleted"
      BY <1>1, <2>1, <2>5, <3>1 DEF Exists
    <3> QED BY <1>2, <1>6, <2>1, <3>2 DEF EndOK
  <2> QED BY <1>9, <2>2, <2>3, <2>4, <2>5 DEF CleanUp
<1>10. ASSUME task[r].pc \in Onboarding
       PROVE  /\ t.op # "delete"
              /\ t.op = "create" /\ t.pc # "failed" => EndOK(t, actors', wallets')
              /\ t.op = "update" => EndOK(t, actors', wallets')
  <2>1. task[r].op \in {"create", "update"}
    BY <1>1, <1>10 DEF WellFormed, Shape
  <2> QED BY <1>2, <1>6, <2>1 DEF EndOK
<1>11. CASE GetPublicDid(r) \/ PublishDid(r) \/ CreateInvitation(r)
  <2>1. task[r].pc \in Onboarding
    BY <1>11 DEF GetPublicDid, PublishDid, CreateInvitation, Onboarding
  <2>2. task[r].op \in {"create", "update"}
    BY <1>1, <2>1 DEF WellFormed, Shape
  <2>3. ASSUME t.op = "create" PROVE t.pc # "failed"
    <3>1. OnboardingFails(r) => t.pc # "failed"
      BY <1>2, <1>4, <2>3 DEF OnboardingFails
    <3>2. \A did : Onboarded(r, did) => t.pc # "failed"
      BY <1>1, <1>2, <1>3, <2>3 DEF Onboarded, Task
    <3>3. \A did : Become(r, [task[r] EXCEPT !.pc = "invite", !.did = did])
                    => t.pc # "failed"
      BY <1>1, <1>3 DEF Task
    <3>4. Goto(r, IF AsIssuer(r) THEN "publish_did" ELSE "invite") => t.pc # "failed"
      BY <1>4
    <3> QED BY <1>11, <3>1, <3>2, <3>3, <3>4
            DEF GetPublicDid, PublishDid, CreateInvitation
  <2> QED BY <1>2, <1>10, <2>1, <2>2, <2>3
<1>12. CASE GetWallet(r)
  <2>1. task[r].op \in {"update", "delete"}
    BY <1>1, <1>12 DEF GetWallet, WellFormed, Shape
  <2> QED BY <1>2, <1>4, <1>12, <2>1 DEF GetWallet, EndOK
<1>13. CASE FetchActorToDelete(r)
  <2> DEFINE actor == actors[WalletOf(r)]
             u == [task[r] EXCEPT !.seen = actor, !.pc =
                        IF actor = NoActor THEN "delete_wallet" ELSE "remove_actor"]
  <2>1. Become(r, u) \/ Goto(r, "failed")
    BY <1>13 DEF FetchActorToDelete
  <2>2. t.op = "delete"
    BY <1>2, <1>13 DEF FetchActorToDelete
  <2>3. Become(r, u) => t.seen = actor /\ t.pc =
                        IF actor = NoActor THEN "delete_wallet" ELSE "remove_actor"
    BY <1>1, <1>3 DEF Task
  <2> HIDE DEF u
  <2> QED BY <1>4, <2>1, <2>2, <2>3 DEF EndOK
<1>14. CASE RemoveActor(r)
  <2>1. task[r].op = "delete" /\ task[r].wallet \in Wallets
    BY <1>1, <1>14 DEF RemoveActor, WellFormed, Shape
  <2> QED BY <1>1, <1>2, <1>4, <1>14, <2>1 DEF RemoveActor, EndOK
<1>15. CASE DeleteWallet(r)
  <2>1. task[r].op = "delete" /\ task[r].wallet \in Wallets
    BY <1>1, <1>15 DEF DeleteWallet, WellFormed, Shape
  <2> QED BY <1>1, <1>2, <1>4, <1>15, <2>1 DEF DeleteWallet, EndOK
<1>16. CASE FetchActorToUpdate(r) \/ PutActor(r) \/ UpdateWallet(r)
  <2>1. task[r].op = "update"
    BY <1>1, <1>16 DEF FetchActorToUpdate, PutActor, UpdateWallet, WellFormed, Shape
  <2> QED BY <1>2, <2>1 DEF EndOK
<1> QED BY <1>7, <1>8, <1>9, <1>11, <1>12, <1>13, <1>14, <1>15, <1>16 DEF Step

\* A handler that is entered, or that gets the wallet it created.
LEMMA EnterStep ==
    ASSUME TypeInv, WalletInv, NEW r \in Requests, NEW t, Become(r, t), WellFormed(t),
           actors' = actors, t.seen = NoActor,
           t.op = "delete" \/ t.op = "update" \/ t.pc # "failed",
           \/ ~ Pending(t) /\ wallets' = wallets
              /\ (t.wallet \in Wallets => wallets[t.wallet] # "unused")
           \/ /\ wallets[t.wallet] = "unused" /\ t.wallet \in Wallets
              /\ \E label \in Labels : wallets' = [wallets EXCEPT ![t.wallet] = label]
    PROVE  WalletInv'
<1>1. /\ task'[r] = t
      /\ \A q \in Requests : q # r => task'[q] = task[q]
      /\ wallets \in [Wallets -> Labels \cup {"unused", "deleted"}]
  BY DEF Become, TypeInv, TypeOK
<1>2. \A w \in Wallets : /\ wallets'[w] = "unused" => wallets[w] = "unused" /\ w # t.wallet
                         /\ wallets[w] = "deleted" => wallets'[w] = "deleted"
  BY <1>1, TenantAssumption
<1>3. UnusedInv'
  BY <1>1, <1>2 DEF WalletInv, UnusedInv, WalletOf
<1>4. PendingInv'
  <2>1. ASSUME NEW c \in Requests, NEW q \in Requests, c # r, q # r, Pending(task[c]),
               task[q].wallet = task[c].wallet
        PROVE  task[q].seen = NoActor /\ (Pending(task[q]) => q = c)
    BY <2>1 DEF WalletInv, PendingInv, WalletOf
  <2>2. ASSUME NEW c \in Requests, c # r, Pending(task[c])
        PROVE  actors[task[c].wallet] = NoActor
    BY <2>2 DEF WalletInv, PendingInv, WalletOf
  <2>3. ASSUME Pending(t)
        PROVE  /\ actors[t.wallet] = NoActor
               /\ \A q \in Requests : task[q].wallet # t.wallet
    BY <2>3 DEF WalletInv, UnusedInv, WalletOf
  <2> QED BY <1>1, <2>1, <2>2, <2>3 DEF PendingInv, WalletOf
<1>5. EndInv'
  <2>1. EndOK(t, actors', wallets')
    <3>1. t.op \in {"none", "create", "update", "delete"}
      BY DEF WellFormed, Task
    <3> QED BY <3>1 DEF EndOK
  <2>2. ASSUME NEW q \in Requests, q # r PROVE EndOK(task'[q], actors', wallets')
    <3>1. EndOK(task[q], actors, wallets) /\ WellFormed(task[q]) /\ task'[q] = task[q]
      BY <1>1, <2>2, EndInvIsEndOK DEF WalletInv, TypeInv, TypeOK, ShapeInv, WellFormed
    <3>2. task[q].wallet \in Wallets \cup {NoWallet}
      BY <3>1 DEF WellFormed, Task
    <3>3. task[q].op = "delete" => task[q].wallet \in Wallets
      BY <3>1 DEF WellFormed, Shape
    <3> QED BY <1>2, <3>1, <3>2, <3>3 DEF EndOK
  <2> QED BY <1>1, <2>1, <2>2, EndInvIsEndOK
<1> QED BY <1>3, <1>4, <1>5 DEF WalletInv

\* No step breaks the invariant behind the properties of deleted wallets.
LEMMA WalletInvStep ==
    ASSUME TypeInv, WalletInv, NEW r \in Requests, Step(r)
    PROVE  WalletInv'
<1>1. WellFormed(task[r]) /\ WellFormed(task'[r])
  BY TypeInvStep DEF TypeInv, TypeOK, ShapeInv, WellFormed
<1>2. \A t : Become(r, t) => t = task'[r]
  BY DEF Become, TypeInv, TypeOK
<1>3. CASE Receive(r)
  <2>1. PICK pc, op, w, label, roles :
            /\ Become(r, Handler(pc, op, w, label, roles))
            /\ pc \in {"assert_name", "get_wallet"}
            /\ w = NoWallet \/ (w \in Wallets /\ wallets[w] # "unused")
    BY <1>3 DEF Receive
  <2> DEFINE t == Handler(pc, op, w, label, roles)
  <2>2. t.seen = NoActor /\ t.wallet = w /\ t.pc \in {"assert_name", "get_wallet"}
    BY <2>1 DEF Handler
  <2>3. Become(r, t) /\ WellFormed(t)
    BY <1>1, <1>2, <2>1
  <2>4. actors' = actors /\ wallets' = wallets
    BY <1>3 DEF Receive
  <2> HIDE DEF t
  <2> QED BY <2>1, <2>2, <2>3, <2>4, EnterStep, TenantAssumption DEF Pending, Onboarding
<1>4. CASE CreateWallet(r) /\ ~ Goto(r, "failed")
  <2>1. PICK w \in Wallets :
            /\ wallets[w] = "unused"
            /\ wallets' = [wallets EXCEPT ![w] = task[r].label]
            /\ Become(r, [task[r] EXCEPT !.wallet = w, !.pc =
                            IF task[r].roles = {} THEN "done" ELSE "public_did"])
    BY <1>4 DEF CreateWallet, Fail
  <2> DEFINE t == [task[r] EXCEPT !.wallet = w, !.pc =
                            IF task[r].roles = {} THEN "done" ELSE "public_did"]
  <2>2. task[r].op = "create" /\ task[r].seen = NoActor /\ task[r].label \in Labels
    BY <1>1, <1>4 DEF CreateWallet, At, WellFormed, Shape
  <2>3. t.seen = NoActor /\ t.wallet = w /\ t.pc # "failed"
    BY <1>1, <2>2 DEF WellFormed, Task
  <2>4. Become(r, t) /\ WellFormed(t)
    BY <1>1, <1>2, <2>1
  <2>5. actors' = actors
    BY <1>4 DEF CreateWallet
  <2> HIDE DEF t
  <2> QED BY <2>1, <2>2, <2>3, <2>4, <2>5, EnterStep
<1>5. CASE ~ Receive(r) /\ (~ CreateWallet(r) \/ Goto(r, "failed"))
  <2>1. PICK t : Follows(r, t)
    BY <1>5, FollowingStep
  <2>2. Become(r, t) /\ WellFormed(t) /\ t.wallet = task[r].wallet
    BY <1>1, <1>2, <2>1 DEF Follows
  <2>3. EndOK(t, actors', wallets')
    BY <1>5, <2>1, EndStep
  <2>4. \A w \in Wallets : actors[w] = NoActor /\ actors'[w] # NoActor =>
                Pending(task[r]) /\ ~ Pending(t) /\ w = t.wallet
    <3> SUFFICES ASSUME NEW w \in Wallets, actors[w] = NoActor, actors'[w] # NoActor
                 PROVE  Pending(task[r]) /\ ~ Pending(t) /\ w = t.wallet
      OBVIOUS
    <3>1. Register(r) /\ At(r, "register") /\ w = task[r].wallet
      <4> actors \in [Wallets -> Actor \cup {NoActor}]
        BY DEF TypeInv, TypeOK
      <4> QED BY ActorsStep DEF WalletOf
    <3>2. Goto(r, "done") \/ Goto(r, "cleanup")
      BY <3>1 DEF Register
    <3>3. t.pc \in {"done", "cleanup"}
      BY <1>1, <1>2, <2>2, <3>2 DEF Goto, WellFormed, Task
    <3> QED BY <1>1, <2>2, <3>1, <3>3 DEF Pending, Onboarding, At, WellFormed, Shape
  <2> QED BY <2>1, <2>2, <2>3, <2>4, WalletsStep, WalletMove DEF Follows
<1> QED BY <1>3, <1>4, <1>5

\* The invariant holds throughout.
LEMMA WalletInvAlways == Spec => [](TypeInv /\ WalletInv)
<1>1. Init => WalletInv
  <2> SUFFICES ASSUME Init PROVE WalletInv OBVIOUS
  <2>1. task = [r \in Requests |-> Idle] /\ \A w \in Wallets : wallets[w] = "unused" =>
                actors[w] = NoActor
    BY DEF Init
  <2>2. Idle.op = "none" /\ Idle.wallet = NoWallet
    BY DEF Idle, Handler
  <2> QED BY <2>1, <2>2, TenantAssumption DEF WalletInv, UnusedInv, PendingInv, EndInv,
            DeletedIsGone, FailedCreateLeavesNoWallet, Pending, WalletOf
<1>2. TypeInv /\ WalletInv /\ [Next]_vars => WalletInv'
  <2> SUFFICES ASSUME TypeInv, WalletInv, [Next]_vars PROVE WalletInv' OBVIOUS
  <2>1. CASE UNCHANGED vars
    BY <2>1 DEF vars, WalletInv, UnusedInv, PendingInv, EndInv, DeletedIsGone,
        FailedCreateLeavesNoWallet, Pending, WalletOf, At
  <2>2. CASE Next
    BY <2>2, WalletInvStep DEF Next, Step
  <2> QED BY <2>1, <2>2
<1> QED BY <1>1, <1>2, TypeInvInit, TypeInvNext, PTL DEF Spec

\* A delete that found an actor leaves neither the actor nor the wallet.
THEOREM DeletedStaysGone == Spec => []DeletedIsGone
<1>1. WalletInv => DeletedIsGone
  BY DEF WalletInv, EndInv
<1> QED BY <1>1, WalletInvAlways, PTL

\* A create that failed leaves no wallet, save for the two named exceptions.
THEOREM FailedCreateIsClean == Spec => []FailedCreateLeavesNoWallet
<1>1. WalletInv => FailedCreateLeavesNoWallet
  BY DEF WalletInv, EndInv
<1> QED BY <1>1, WalletInvAlways, PTL

-----------------------------------------------------------------------------
\* The wallet has published a DID wherever a handler is about to say so: the
\* row it fetched, and the roles it has onboarded for, are covered by public
\* DIDs that no step takes back.
Justified(t, published) ==
    /\ t.seen # NoActor /\ "issuer" \in t.seen.roles => published[t.wallet] > 0
    /\ t.pc \in {"invite", "register", "put_actor"} /\ "issuer" \in t.granting
            => published[t.wallet] > 0

IssuerInv == IssuersOnboarded /\ \A r \in Requests : Justified(task[r], dids)

\* A wallet's public DIDs only increase.
LEMMA DidsGrow ==
    ASSUME TypeInv, NEW r \in Requests, Step(r), NEW w \in Wallets, dids[w] > 0
    PROVE  dids'[w] > 0
<1>1. dids \in [Wallets -> Nat] /\ task[r] \in Task
  BY DEF TypeInv, TypeOK
<1>2. PublishDid(r) \/ dids' = dids
  BY DEF Step, Receive, Crash, AssertActorName, CreateWallet, Register, CleanUp,
      GetPublicDid, CreateInvitation, GetWallet, FetchActorToDelete,
      RemoveActor, DeleteWallet, FetchActorToUpdate, PutActor, UpdateWallet
<1>3. PublishDid(r) => dids' = dids \/ dids' = [dids EXCEPT ![WalletOf(r)] = @ + 1]
  BY DEF PublishDid
<1> QED BY <1>1, <1>2, <1>3

\* The handler that takes the step stays justified.
LEMMA JustifiedStep ==
    ASSUME TypeInv, IssuerInv, NEW r \in Requests, Step(r)
    PROVE  Justified(task'[r], dids')
<1> DEFINE t == task'[r]
<1>1. /\ WellFormed(task[r]) /\ task[r] \in Task /\ Justified(task[r], dids)
      /\ dids \in [Wallets -> Nat] /\ actors \in [Wallets -> Actor \cup {NoActor}]
  BY DEF IssuerInv, TypeInv, TypeOK, ShapeInv, WellFormed
<1>2. \A u : Become(r, u) => t = u
  BY DEF Become, TypeInv, TypeOK
<1>3. task[r].seen # NoActor => task[r].wallet \in Wallets
  BY <1>1 DEF WellFormed, Shape
<1>4. task[r].seen # NoActor /\ "issuer" \in task[r].seen.roles
        => dids'[task[r].wallet] > 0
  BY <1>1, <1>3, DidsGrow DEF Justified
<1>5. ASSUME NEW l, Goto(r, l),
             l \in {"invite", "register", "put_actor"} => "issuer" \notin task[r].granting
      PROVE  Justified(t, dids')
  <2>1. /\ t.seen = task[r].seen /\ t.wallet = task[r].wallet
        /\ t.granting = task[r].granting /\ t.pc = l
    BY <1>1, <1>2, <1>5 DEF Goto, Task
  <2> QED BY <1>4, <1>5, <2>1 DEF Justified
<1> HIDE DEF t
<1> USE DEF At, Fail, WalletOf
<1>6. CASE Receive(r)
  <2>1. PICK pc, op, w, label, roles :
            /\ Become(r, Handler(pc, op, w, label, roles))
            /\ pc \in {"assert_name", "get_wallet"}
    BY <1>6 DEF Receive
  <2>2. t.seen = NoActor /\ t.pc \in {"assert_name", "get_wallet"}
    BY <1>2, <2>1 DEF Handler
  <2> QED BY <2>2 DEF Justified, t
<1>7. CASE CreateWallet(r)
  <2>1. task[r].seen = NoActor
    BY <1>1, <1>7 DEF CreateWallet, WellFormed, Shape
  <2>2. ASSUME NEW w, Become(r, [task[r] EXCEPT !.wallet = w, !.pc =
                            IF task[r].roles = {} THEN "done" ELSE "public_did"])
        PROVE  t.seen = NoActor /\ t.pc \in {"done", "public_did"}
    BY <1>1, <1>2, <2>1, <2>2 DEF Task
  <2>3. (\E w : Become(r, [task[r] EXCEPT !.wallet = w, !.pc =
                            IF task[r].roles = {} THEN "done" ELSE "public_did"]))
        \/ Goto(r, "failed")
    BY <1>7 DEF CreateWallet
  <2> QED BY <1>5, <2>2, <2>3 DEF Justified, t
<1>8. CASE Crash(r) \/ AssertActorName(r) \/ GetWallet(r)
  BY <1>5, <1>8 DEF Crash, AssertActorName, GetWallet, t
<1>9. CASE Register(r) \/ CleanUp(r) \/ RemoveActor(r)
  BY <1>5, <1>9 DEF Register, CleanUp, RemoveActor, t
<1>10. CASE DeleteWallet(r) \/ PutActor(r) \/ UpdateWallet(r)
  BY <1>5, <1>10 DEF DeleteWallet, PutActor, UpdateWallet, t
<1>11. ASSUME NEW did, Onboarded(r, did), task[r].pc \in Onboarding,
              "issuer" \in task[r].granting => dids'[task[r].wallet] > 0
       PROVE  Justified(t, dids')
  <2>1. /\ t.seen = task[r].seen /\ t.wallet = task[r].wallet
        /\ t.granting = task[r].granting
    BY <1>1, <1>2, <1>11 DEF Onboarded, Task
  <2> QED BY <1>4, <1>11, <2>1 DEF Justified
<1>12. ASSUME NEW did, Become(r, [task[r] EXCEPT !.pc = "invite", !.did = did]),
              dids'[task[r].wallet] > 0
       PROVE  Justified(t, dids')
  <2>1. /\ t.seen = task[r].seen /\ t.wallet = task[r].wallet
        /\ t.granting = task[r].granting
    BY <1>1, <1>2, <1>12 DEF Task
  <2> QED BY <1>4, <1>12, <2>1 DEF Justified
<1>13. ASSUME task[r].pc \in Onboarding PROVE task[r].wallet \in Wallets
  BY <1>1, <1>13 DEF WellFormed, Shape
<1>14. OnboardingFails(r) => Justified(t, dids')
  BY <1>5 DEF OnboardingFails, t
<1>15. CASE GetPublicDid(r)
  <2>1. task[r].pc \in Onboarding /\ dids' = dids
    BY <1>15 DEF GetPublicDid, Onboarding
  <2>2. \/ /\ dids[task[r].wallet] > 0 /\ AsIssuer(r)
           /\ Become(r, [task[r] EXCEPT !.pc = "invite", !.did = dids[task[r].wallet]])
        \/ ~ AsIssuer(r) /\ Onboarded(r, dids[task[r].wallet])
        \/ AsIssuer(r) /\ Goto(r, "publish_did")
        \/ ~ AsIssuer(r) /\ Goto(r, "invite")
        \/ OnboardingFails(r)
    BY <1>15 DEF GetPublicDid
  <2> QED BY <1>5, <1>11, <1>12, <1>14, <2>1, <2>2 DEF AsIssuer, t
<1>16. CASE PublishDid(r)
  <2>1. task[r].wallet \in Wallets
    BY <1>13, <1>16 DEF PublishDid, Onboarding
  <2>2. \/ /\ dids' = [dids EXCEPT ![task[r].wallet] = @ + 1]
           /\ Become(r, [task[r] EXCEPT !.pc = "invite", !.did = dids[task[r].wallet] + 1])
        \/ OnboardingFails(r)
    BY <1>16 DEF PublishDid
  <2>3. dids' = [dids EXCEPT ![task[r].wallet] = @ + 1] => dids'[task[r].wallet] > 0
    BY <1>1, <2>1
  <2> QED BY <1>12, <1>14, <2>2, <2>3 DEF t
<1>17. CASE CreateInvitation(r)
  <2>1. task[r].pc \in Onboarding /\ dids' = dids /\ task[r].pc = "invite"
    BY <1>17 DEF CreateInvitation, Onboarding
  <2>2. "issuer" \in task[r].granting => dids'[task[r].wallet] > 0
    BY <1>1, <2>1 DEF Justified
  <2>3. (\E did : Onboarded(r, did)) \/ OnboardingFails(r)
    BY <1>17 DEF CreateInvitation
  <2> QED BY <1>11, <1>14, <2>1, <2>2, <2>3 DEF t
<1>18. ASSUME NEW actor, actor = actors[task[r].wallet], task[r].wallet \in Wallets,
              actor # NoActor, "issuer" \in actor.roles, dids' = dids
       PROVE  dids'[task[r].wallet] > 0
  BY <1>18 DEF IssuerInv, IssuersOnboarded
<1>19. CASE FetchActorToDelete(r)
  <2> DEFINE actor == actors[task[r].wallet]
             u == [task[r] EXCEPT !.seen = actor, !.pc =
                        IF actor = NoActor THEN "delete_wallet" ELSE "remove_actor"]
  <2>1. Become(r, u) \/ Goto(r, "failed")
    BY <1>19 DEF FetchActorToDelete
  <2>2. task[r].wallet \in Wallets /\ dids' = dids
    BY <1>1, <1>19 DEF FetchActorToDelete, WellFormed, Shape
  <2>3. Become(r, u) => /\ t.seen = actor /\ t.wallet = task[r].wallet
                        /\ t.pc \in {"delete_wallet", "remove_actor"}
    BY <1>1, <1>2 DEF Task
  <2> HIDE DEF u
  <2> QED BY <1>5, <1>18, <2>1, <2>2, <2>3 DEF Justified, t
<1>20. CASE FetchActorToUpdate(r)
  <2> DEFINE actor == actors[task[r].wallet]
             u(l) == [task[r] EXCEPT !.seen = actor,
                        !.granting = task[r].roles \ actor.roles,
                        !.pc = IF task[r].roles \ actor.roles # {}
                               THEN "public_did" ELSE l]
  <2>1. \/ actor # NoActor /\ Become(r, u("put_actor"))
        \/ actor # NoActor /\ Become(r, u("update_wallet"))
        \/ Goto(r, "failed") \/ Goto(r, "update_wallet")
    BY <1>20 DEF FetchActorToUpdate
  <2>2. task[r].wallet \in Wallets /\ dids' = dids
    BY <1>1, <1>20 DEF FetchActorToUpdate, WellFormed, Shape
  <2>3. ASSUME NEW l, Become(r, u(l))
        PROVE  /\ t.seen = actor /\ t.wallet = task[r].wallet
               /\ t.granting = task[r].roles \ actor.roles
               /\ t.granting # {} => t.pc = "public_did"
    BY <1>1, <1>2, <2>3 DEF Task
  <2> HIDE DEF u
  <2>4. ASSUME NEW l, Become(r, u(l)), actor # NoActor
        PROVE  Justified(t, dids')
    BY <1>18, <2>2, <2>3, <2>4 DEF Justified
  <2> QED BY <1>5, <2>1, <2>4 DEF t
<1> QED BY <1>6, <1>7, <1>8, <1>9, <1>10, <1>15, <1>16, <1>17, <1>19, <1>20 DEF Step, t

\* The invariant holds throughout.
LEMMA IssuerInvAlways == Spec => [](TypeInv /\ IssuerInv)
<1>1. Init => IssuerInv
  <2> SUFFICES ASSUME Init PROVE IssuerInv OBVIOUS
  <2>1. PICK roles \in [Wallets -> SUBSET Roles] :
          /\ dids = [w \in Wallets |-> IF "issuer" \in roles[w] THEN 1 ELSE 0]
          /\ actors = [w \in Wallets |->
                        IF roles[w] = {} THEN NoActor
                        ELSE [name |-> wallets[w], roles |-> roles[w],
                              did |-> IF "issuer" \in roles[w] THEN 1 ELSE 0]]
    BY DEF Init
  <2>2. \A w \in Wallets : actors[w] # NoActor => actors[w].roles = roles[w]
    BY <2>1
  <2>3. \A r \in Requests : task[r].seen = NoActor /\ task[r].pc = "idle"
    BY DEF Init, Idle, Handler
  <2> QED BY <2>1, <2>2, <2>3 DEF IssuerInv, IssuersOnboarded, Justified
<1>2. ASSUME TypeInv, IssuerInv, NEW r \in Requests, Step(r)
      PROVE  IssuerInv'
  <2>1. /\ actors \in [Wallets -> Actor \cup {NoActor}]
        /\ task \in [Requests -> Task] /\ \A q \in Requests : WellFormed(task[q])
    BY <1>2 DEF TypeInv, TypeOK, ShapeInv, WellFormed
  <2>2. \A w \in Wallets : dids[w] > 0 => dids'[w] > 0
    BY <1>2, DidsGrow
  <2>3. ASSUME NEW q \in Requests PROVE Justified(task'[q], dids')
    <3>1. CASE q = r
      BY <1>2, <3>1, JustifiedStep
    <3>2. CASE q # r
      <4>1. \E t : Become(r, t)
        BY <1>2 DEF Step, Receive, Crash, AssertActorName, CreateWallet, Register,
            CleanUp, GetPublicDid, PublishDid, CreateInvitation, GetWallet,
            FetchActorToDelete, RemoveActor, DeleteWallet, FetchActorToUpdate,
            PutActor, UpdateWallet, Goto, Fail, Onboarded, OnboardingFails
      <4>2. task'[q] = task[q]
        BY <2>1, <3>2, <4>1 DEF Become
      <4>3. Justified(task[q], dids)
        BY <1>2 DEF IssuerInv
      <4>4. /\ task[q].seen # NoActor => task[q].wallet \in Wallets
            /\ task[q].pc \in {"invite", "register", "put_actor"}
                    => task[q].wallet \in Wallets
        BY <2>1 DEF WellFormed, Shape, Onboarding
      <4> QED BY <2>2, <4>2, <4>3, <4>4 DEF Justified
    <3> QED BY <3>1, <3>2
  <2>4. IssuersOnboarded'
    <3> SUFFICES ASSUME NEW w \in Wallets, actors'[w] # NoActor,
                        "issuer" \in actors'[w].roles
                 PROVE  dids'[w] > 0
      BY DEF IssuersOnboarded
    <3>1. CASE actors'[w] = actors[w]
      BY <1>2, <2>2, <3>1 DEF IssuerInv, IssuersOnboarded
    <3>2. CASE /\ At(r, "register") /\ w = task[r].wallet
               /\ actors'[w].roles = task[r].roles
      <4>1. task[r].granting = task[r].roles
        BY <2>1, <3>2 DEF At, WellFormed, Shape
      <4> QED BY <1>2, <2>2, <3>2, <4>1 DEF IssuerInv, Justified, At
    <3>3. CASE /\ At(r, "put_actor") /\ w = task[r].wallet
               /\ actors'[w].roles = task[r].seen.roles \cup task[r].roles
      <4>1. task[r].seen # NoActor /\ task[r].roles \subseteq
                                        task[r].seen.roles \cup task[r].granting
        BY <2>1, <3>3 DEF At, WellFormed, Shape
      <4> QED BY <1>2, <2>2, <3>3, <4>1 DEF IssuerInv, Justified, At
    <3>4. \/ actors' = actors
          \/ actors' = [actors EXCEPT ![task[r].wallet] = NoActor]
          \/ /\ At(r, "register")
             /\ actors' = [actors EXCEPT ![task[r].wallet] =
                    [name |-> task[r].label, roles |-> task[r].roles, did |-> task[r].did]]
          \/ /\ At(r, "put_actor")
             /\ actors' = [actors EXCEPT ![task[r].wallet] = UpdatedActor(r)]
      BY <1>2, ActorsStep DEF WalletOf
    <3>5. UpdatedActor(r).roles = task[r].seen.roles \cup task[r].roles
      BY DEF UpdatedActor
    <3>6. w # task[r].wallet => actors'[w] = actors[w]
      BY <2>1, <3>4
    <3>7. w = task[r].wallet =>
            \/ actors'[w] = actors[w]
            \/ At(r, "register") /\ actors'[w].roles = task[r].roles
            \/ At(r, "put_actor") /\ actors'[w].roles = task[r].seen.roles \cup task[r].roles
      BY <2>1, <3>4, <3>5
    <3> QED BY <3>1, <3>2, <3>3, <3>6, <3>7
  <2> QED BY <2>3, <2>4 DEF IssuerInv
<1>3. TypeInv /\ IssuerInv /\ [Next]_vars => IssuerInv'
  <2> SUFFICES ASSUME TypeInv, IssuerInv, [Next]_vars PROVE IssuerInv' OBVIOUS
  <2>1. CASE UNCHANGED vars
    BY <2>1 DEF vars, IssuerInv, IssuersOnboarded, Justified
  <2> QED BY <1>2, <2>1 DEF Next, Step
<1> QED BY <1>1, <1>3, TypeInvInit, TypeInvNext, PTL DEF Spec

\* Whoever is registered as an issuer has made a DID public, however late the
\* row that says so is written.
THEOREM IssuersAreOnboarded == Spec => []IssuersOnboarded
<1>1. IssuerInv => IssuersOnboarded
  BY DEF IssuerInv
<1> QED BY <1>1, IssuerInvAlways, PTL

-----------------------------------------------------------------------------
(* The DID of an issuer's row.                                             *)

\* An issuer's row in the registry has a public DID of its wallet, not the
\* did:key of an invitation, so that what it signs can be looked up in the
\* registry.  Both onboarding flows take any error of the query for the public
\* DID for "there is none": an issuer that becomes a verifier as well is then
\* written back with the key of its invitation.
IssuersHavePublicDid ==
    \A w \in Wallets :
        actors[w] # NoActor /\ "issuer" \in actors[w].roles => actors[w].did > 0

SeesIssuer(t) == t.seen # NoActor /\ "issuer" \in t.seen.roles

\* What a handler carries is good for an issuer's row wherever it will be
\* written into one; the invitation of a deleted wallet will fail.
Carries(t, existing) ==
    /\ SeesIssuer(t) => t.seen.did > 0
    /\ t.pc = "publish_did" => "issuer" \in t.granting
    /\ t.pc = "invite" =>
        \/ "issuer" \in t.granting /\ t.did > 0
        \/ "issuer" \notin t.granting /\ (SeesIssuer(t) => existing[t.wallet] = "deleted")
    /\ t.pc \in {"register", "put_actor"} /\ t.granting # {} =>
        ("issuer" \in t.granting \/ SeesIssuer(t) => t.did > 0)

DidInv == IssuersHavePublicDid /\ \A r \in Requests : Carries(task[r], wallets)

\* A step moves one handler.
LEMMA OneMoves ==
    ASSUME TypeInv, NEW r \in Requests, Step(r), NEW q \in Requests, q # r
    PROVE  task'[q] = task[q]
<1>1. \E t : Become(r, t)
  BY DEF Step, Receive, Crash, AssertActorName, CreateWallet, Register,
      CleanUp, GetPublicDid, PublishDid, CreateInvitation, GetWallet,
      FetchActorToDelete, RemoveActor, DeleteWallet, FetchActorToUpdate,
      PutActor, UpdateWallet, Goto, Fail, Onboarded, OnboardingFails
<1> QED BY <1>1 DEF Become, TypeInv, TypeOK

\* When no query for the public DID fails, the handler that takes the step
\* still carries what an issuer's row needs.
LEMMA CarriesStep ==
    ASSUME "public_did" \notin Faults, TypeInv, WalletInv, IssuerInv, DidInv,
           NEW r \in Requests, Step(r)
    PROVE  Carries(task'[r], wallets')
<1> SUFFICES ASSUME NEW t, t = task'[r] PROVE Carries(t, wallets')
  OBVIOUS
<1>1. /\ WellFormed(task[r]) /\ task[r] \in Task /\ Carries(task[r], wallets)
      /\ Justified(task[r], dids)
      /\ dids \in [Wallets -> Nat] /\ actors \in [Wallets -> Actor \cup {NoActor}]
      /\ wallets \in [Wallets -> Labels \cup {"unused", "deleted"}]
  BY DEF DidInv, IssuerInv, TypeInv, TypeOK, ShapeInv, WellFormed
<1>2. \A u : Become(r, u) => t = u
  BY DEF Become, TypeInv, TypeOK
<1> USE DEF At, Fail, WalletOf
<1>3. ASSUME t.seen = task[r].seen,
             t.pc \notin {"publish_did", "invite", "register", "put_actor"}
      PROVE  Carries(t, wallets')
  BY <1>1, <1>3 DEF Carries, SeesIssuer
<1>4. ASSUME NEW l, Goto(r, l),
             l \notin {"publish_did", "invite", "register", "put_actor"}
      PROVE  Carries(t, wallets')
  BY <1>1, <1>2, <1>3, <1>4 DEF Goto, Task
<1>5. ASSUME t.seen = NoActor, t.pc \in {"assert_name", "get_wallet", "done", "public_did"}
      PROVE  Carries(t, wallets')
  BY <1>5 DEF Carries, SeesIssuer
<1>6. CASE Receive(r)
  <2>1. PICK pc, op, w, label, roles :
            /\ Become(r, Handler(pc, op, w, label, roles))
            /\ pc \in {"assert_name", "get_wallet"}
    BY <1>6 DEF Receive
  <2> QED BY <1>2, <1>5, <2>1 DEF Handler
<1>7. CASE CreateWallet(r)
  <2>1. task[r].seen = NoActor
    BY <1>1, <1>7 DEF CreateWallet, WellFormed, Shape
  <2>2. ASSUME NEW w, Become(r, [task[r] EXCEPT !.wallet = w, !.pc =
                            IF task[r].roles = {} THEN "done" ELSE "public_did"])
        PROVE  t.seen = NoActor /\ t.pc \in {"done", "public_did"}
    BY <1>1, <1>2, <2>1, <2>2 DEF Task
  <2>3. (\E w : Become(r, [task[r] EXCEPT !.wallet = w, !.pc =
                            IF task[r].roles = {} THEN "done" ELSE "public_did"]))
        \/ Goto(r, "failed")
    BY <1>7 DEF CreateWallet
  <2> QED BY <1>4, <1>5, <2>2, <2>3
<1>8. CASE Crash(r) \/ AssertActorName(r) \/ GetWallet(r)
  BY <1>4, <1>8 DEF Crash, AssertActorName, GetWallet
<1>9. CASE Register(r) \/ CleanUp(r) \/ RemoveActor(r)
  BY <1>4, <1>9 DEF Register, CleanUp, RemoveActor
<1>10. CASE DeleteWallet(r) \/ PutActor(r) \/ UpdateWallet(r)
  BY <1>4, <1>10 DEF DeleteWallet, PutActor, UpdateWallet
<1>11. OnboardingFails(r) => Carries(t, wallets')
  BY <1>4 DEF OnboardingFails
<1>12. ASSUME NEW did, Onboarded(r, did),
              "issuer" \in task[r].granting \/ SeesIssuer(task[r]) => did > 0
       PROVE  Carries(t, wallets')
  <2>1. /\ t.seen = task[r].seen /\ t.granting = task[r].granting
        /\ t.did = did /\ t.pc \in {"register", "put_actor"}
    BY <1>1, <1>2, <1>12 DEF Onboarded, Task
  <2> QED BY <1>1, <1>12, <2>1 DEF Carries, SeesIssuer
<1>13. ASSUME NEW did, Become(r, [task[r] EXCEPT !.pc = "invite", !.did = did]),
              "issuer" \in task[r].granting, did > 0
       PROVE  Carries(t, wallets')
  <2>1. /\ t.seen = task[r].seen /\ t.granting = task[r].granting
        /\ t.did = did /\ t.pc = "invite"
    BY <1>1, <1>2, <1>13 DEF Task
  <2> QED BY <1>1, <1>13, <2>1 DEF Carries, SeesIssuer
<1>14. ASSUME task[r].pc \in Onboarding
       PROVE  /\ task[r].wallet \in Wallets
              /\ SeesIssuer(task[r]) => dids[task[r].wallet] > 0
              /\ wallets[task[r].wallet] \in Labels \cup {"deleted"}
  <2>1. task[r].wallet \in Wallets
    BY <1>1, <1>14 DEF WellFormed, Shape
  <2>2. wallets[task[r].wallet] # "unused"
    BY <2>1 DEF WalletInv, UnusedInv
  <2> QED BY <1>1, <2>1, <2>2 DEF Justified, SeesIssuer
<1>15. CASE GetPublicDid(r)
  <2>1. task[r].pc \in Onboarding /\ wallets' = wallets
    BY <1>15 DEF GetPublicDid, Onboarding
  <2>2. ASSUME AsIssuer(r), Goto(r, "publish_did") PROVE Carries(t, wallets')
    <3>1. /\ t.seen = task[r].seen /\ t.granting = task[r].granting
          /\ t.pc = "publish_did"
      BY <1>1, <1>2, <2>2 DEF Goto, Task
    <3> QED BY <1>1, <2>2, <3>1 DEF Carries, SeesIssuer, AsIssuer
  <2>3. ASSUME ~ AsIssuer(r), Goto(r, "invite"),
               ~ Exists(task[r].wallet) \/ dids[task[r].wallet] = 0
        PROVE  Carries(t, wallets')
    <3>1. /\ t.seen = task[r].seen /\ t.granting = task[r].granting
          /\ t.pc = "invite" /\ t.wallet = task[r].wallet
      BY <1>1, <1>2, <2>3 DEF Goto, Task
    <3>2. SeesIssuer(task[r]) => wallets[task[r].wallet] = "deleted"
      BY <1>14, <2>1, <2>3 DEF Exists
    <3> QED BY <1>1, <2>1, <2>3, <3>1, <3>2 DEF Carries, SeesIssuer, AsIssuer
  <2>4. \/ /\ dids[task[r].wallet] > 0 /\ AsIssuer(r)
           /\ Become(r, [task[r] EXCEPT !.pc = "invite", !.did = dids[task[r].wallet]])
        \/ dids[task[r].wallet] > 0 /\ Onboarded(r, dids[task[r].wallet])
        \/ /\ ~ Exists(task[r].wallet) \/ dids[task[r].wallet] = 0
           /\ Goto(r, IF AsIssuer(r) THEN "publish_did" ELSE "invite")
        \/ OnboardingFails(r)
    BY <1>15 DEF GetPublicDid, Fault
  <2> QED BY <1>11, <1>12, <1>13, <2>2, <2>3, <2>4 DEF AsIssuer
<1>16. CASE PublishDid(r)
  <2>1. task[r].wallet \in Wallets /\ "issuer" \in task[r].granting
    BY <1>1, <1>14, <1>16 DEF PublishDid, Onboarding, Carries
  <2>2. \/ Become(r, [task[r] EXCEPT !.pc = "invite", !.did = dids[task[r].wallet] + 1])
        \/ OnboardingFails(r)
    BY <1>16 DEF PublishDid
  <2>3. dids[task[r].wallet] + 1 > 0
    BY <1>1, <2>1
  <2> QED BY <1>11, <1>13, <2>1, <2>2, <2>3
<1>17. CASE CreateInvitation(r)
  <2>1. task[r].pc = "invite" /\ task[r].pc \in Onboarding
    BY <1>17 DEF CreateInvitation, Onboarding
  <2>2. \/ /\ wallets[task[r].wallet] \in Labels
           /\ Onboarded(r, IF AsIssuer(r) THEN task[r].did ELSE 0)
        \/ OnboardingFails(r)
    BY <1>17 DEF CreateInvitation, Exists
  <2>3. CASE AsIssuer(r)
    BY <1>1, <1>11, <1>12, <2>1, <2>2, <2>3 DEF AsIssuer, Carries
  <2>4. CASE ~ AsIssuer(r)
    <3>1. wallets[task[r].wallet] \in Labels => ~ SeesIssuer(task[r])
      BY <1>1, <2>1, <2>4, TenantAssumption DEF Carries, AsIssuer
    <3> QED BY <1>11, <1>12, <2>2, <2>4, <3>1 DEF AsIssuer
  <2> QED BY <2>3, <2>4
<1>18. CASE FetchActorToDelete(r)
  <2> DEFINE actor == actors[task[r].wallet]
             u == [task[r] EXCEPT !.seen = actor, !.pc =
                        IF actor = NoActor THEN "delete_wallet" ELSE "remove_actor"]
  <2>1. Become(r, u) \/ Goto(r, "failed")
    BY <1>18 DEF FetchActorToDelete
  <2>2. task[r].wallet \in Wallets
    BY <1>1, <1>18 DEF FetchActorToDelete, WellFormed, Shape
  <2>3. Become(r, u) => /\ t.seen = actor /\ t.pc \in {"delete_wallet", "remove_actor"}
    BY <1>1, <1>2 DEF Task
  <2>4. Become(r, u) => Carries(t, wallets')
    BY <2>2, <2>3 DEF Carries, SeesIssuer, DidInv, IssuersHavePublicDid
  <2> QED BY <1>4, <2>1, <2>4
<1>19. CASE FetchActorToUpdate(r)
  <2> DEFINE actor == actors[task[r].wallet]
             u(l) == [task[r] EXCEPT !.seen = actor,
                        !.granting = task[r].roles \ actor.roles,
                        !.pc = IF task[r].roles \ actor.roles # {}
                               THEN "public_did" ELSE l]
  <2>1. \/ actor # NoActor /\ Become(r, u("put_actor"))
        \/ actor # NoActor /\ Become(r, u("update_wallet"))
        \/ Goto(r, "failed") \/ Goto(r, "update_wallet")
    BY <1>19 DEF FetchActorToUpdate
  <2>2. task[r].wallet \in Wallets
    BY <1>1, <1>19 DEF FetchActorToUpdate, WellFormed, Shape
  <2>3. ASSUME NEW l \in {"put_actor", "update_wallet"}, Become(r, u(l))
        PROVE  /\ t.seen = actor /\ t.granting = task[r].roles \ actor.roles
               /\ t.pc \in {"public_did", "put_actor", "update_wallet"}
               /\ t.pc = "put_actor" => t.granting = {}
    BY <1>1, <1>2, <2>3 DEF Task
  <2> HIDE DEF u
  <2>4. ASSUME NEW l \in {"put_actor", "update_wallet"}, Become(r, u(l)), actor # NoActor
        PROVE  Carries(t, wallets')
    BY <2>2, <2>3, <2>4 DEF Carries, SeesIssuer, DidInv, IssuersHavePublicDid
  <2> QED BY <1>4, <2>1, <2>4
<1> QED
  BY <1>6, <1>7, <1>8, <1>9, <1>10, <1>15, <1>16, <1>17, <1>18, <1>19 DEF Step

\* When no query for the public DID fails, every issuer's row has a public DID,
\* whatever else fails, races or is written back late.
THEOREM IssuersRowsHavePublicDids ==
    ASSUME "public_did" \notin Faults
    PROVE  Spec => []IssuersHavePublicDid
<1>1. Init => DidInv
  <2> SUFFICES ASSUME Init PROVE DidInv OBVIOUS
  <2>1. PICK roles \in [Wallets -> SUBSET Roles] :
            actors = [w \in Wallets |->
                        IF roles[w] = {} THEN NoActor
                        ELSE [name |-> wallets[w], roles |-> roles[w],
                              did |-> IF "issuer" \in roles[w] THEN 1 ELSE 0]]
    BY DEF Init
  <2>2. \A w \in Wallets : actors[w] # NoActor /\ "issuer" \in actors[w].roles
            => actors[w].did = 1
    BY <2>1
  <2>3. \A r \in Requests : task[r].seen = NoActor /\ task[r].pc = "idle"
    BY DEF Init, Idle, Handler
  <2> QED BY <2>2, <2>3 DEF DidInv, IssuersHavePublicDid, Carries, SeesIssuer
<1>2. ASSUME TypeInv, WalletInv, IssuerInv, DidInv, NEW r \in Requests, Step(r)
      PROVE  DidInv'
  <2>1. /\ actors \in [Wallets -> Actor \cup {NoActor}]
        /\ task \in [Requests -> Task] /\ \A q \in Requests : WellFormed(task[q])
    BY <1>2 DEF TypeInv, TypeOK, ShapeInv, WellFormed
  <2>2. ASSUME NEW q \in Requests PROVE Carries(task'[q], wallets')
    <3>1. CASE q = r
      BY <1>2, <3>1, CarriesStep
    <3>2. CASE q # r
      <4>1. task'[q] = task[q] /\ Carries(task[q], wallets)
        BY <1>2, <3>2, OneMoves DEF DidInv
      <4>2. task[q].pc = "invite" => task[q].wallet \in Wallets
        BY <2>1 DEF WellFormed, Shape, Onboarding
      <4>3. \A w \in Wallets : wallets[w] = "deleted" => wallets'[w] = "deleted"
        BY <1>2, WalletsStep
      <4> QED BY <4>1, <4>2, <4>3 DEF Carries
    <3> QED BY <3>1, <3>2
  <2>3. IssuersHavePublicDid'
    <3> SUFFICES ASSUME NEW w \in Wallets, actors'[w] # NoActor,
                        "issuer" \in actors'[w].roles
                 PROVE  actors'[w].did > 0
      BY DEF IssuersHavePublicDid
    <3>1. CASE actors'[w] = actors[w]
      BY <1>2, <3>1 DEF DidInv, IssuersHavePublicDid
    <3>2. CASE /\ At(r, "register")
               /\ actors'[w] = [name |-> task[r].label, roles |-> task[r].roles,
                                did |-> task[r].did]
      <4>1. "issuer" \in task[r].granting /\ task[r].granting # {}
        BY <2>1, <3>2 DEF At, WellFormed, Shape
      <4>2. task[r].did > 0
        BY <1>2, <3>2, <4>1 DEF DidInv, Carries, At
      <4> QED BY <3>2, <4>2
    <3>3. CASE At(r, "put_actor") /\ actors'[w] = UpdatedActor(r)
      <4>1. /\ actors'[w].roles = task[r].seen.roles \cup task[r].roles
            /\ actors'[w].did = IF task[r].granting # {} THEN task[r].did
                                ELSE task[r].seen.did
        BY <3>3 DEF UpdatedActor
      <4>2. task[r].seen # NoActor /\ task[r].roles \subseteq
                                        task[r].seen.roles \cup task[r].granting
        BY <2>1, <3>3 DEF At, WellFormed, Shape
      <4>3. SeesIssuer(task[r]) \/ "issuer" \in task[r].granting
        BY <4>1, <4>2 DEF SeesIssuer
      <4>4. Carries(task[r], wallets) /\ task[r].pc = "put_actor"
        BY <1>2, <3>3 DEF DidInv, At
      <4> QED BY <4>1, <4>3, <4>4 DEF Carries
    <3>4. \/ actors' = actors
          \/ actors' = [actors EXCEPT ![task[r].wallet] = NoActor]
          \/ /\ At(r, "register")
             /\ actors' = [actors EXCEPT ![task[r].wallet] =
                    [name |-> task[r].label, roles |-> task[r].roles, did |-> task[r].did]]
          \/ /\ At(r, "put_actor")
             /\ actors' = [actors EXCEPT ![task[r].wallet] = UpdatedActor(r)]
      BY <1>2, ActorsStep DEF WalletOf
    <3> QED BY <2>1, <3>1, <3>2, <3>3, <3>4
  <2> QED BY <2>2, <2>3 DEF DidInv
<1>3. TypeInv /\ WalletInv /\ IssuerInv /\ DidInv /\ [Next]_vars => DidInv'
  <2> SUFFICES ASSUME TypeInv, WalletInv, IssuerInv, DidInv, [Next]_vars PROVE DidInv'
    OBVIOUS
  <2>1. CASE UNCHANGED vars
    BY <2>1 DEF vars, DidInv, IssuersHavePublicDid, Carries, SeesIssuer
  <2> QED BY <1>2, <2>1 DEF Next, Step
<1>4. DidInv => IssuersHavePublicDid
  BY DEF DidInv
<1> QED BY <1>1, <1>3, <1>4, WalletInvAlways, IssuerInvAlways, PTL DEF Spec

-----------------------------------------------------------------------------
(* What goes wrong only when requests for one tenant overlap.              *)

\* An update between its reading of the actor's row and its writing of it.
Window(t) == t.op = "update" /\ t.pc \in Onboarding \cup {"put_actor"}

\* No two updates of one tenant are between these at the same time.
OneUpdateAtATime ==
    \A q, r \in Requests :
        Window(task[q]) /\ Window(task[r]) /\ WalletOf(q) = WalletOf(r) => q = r

\* The row that an update is about to write back is still the one it read, as
\* long as there is a row.
SeenInv ==
    \A r \in Requests :
        Window(task[r]) /\ actors[WalletOf(r)] # NoActor
            => actors[WalletOf(r)] = task[r].seen

\* A handler enters the window by reading the row, and nothing it does in it
\* before it writes touches the registry.
LEMMA WindowStep ==
    ASSUME TypeInv, NEW r \in Requests, Step(r), Window(task'[r])
    PROVE  /\ actors' = actors /\ task'[r].wallet = task[r].wallet
           /\ \/ Window(task[r]) /\ task'[r].seen = task[r].seen
              \/ task'[r].seen = actors[task[r].wallet]
<1> SUFFICES ASSUME NEW t, t = task'[r]
             PROVE  /\ actors' = actors /\ t.wallet = task[r].wallet
                    /\ \/ Window(task[r]) /\ t.seen = task[r].seen
                       \/ t.seen = actors[task[r].wallet]
  OBVIOUS
<1>1. /\ WellFormed(task[r]) /\ task[r] \in Task
      /\ Window(t) /\ \A u : Become(r, u) => t = u
  BY DEF TypeInv, TypeOK, ShapeInv, WellFormed, Become
<1> USE DEF At, Fail, WalletOf
<1>2. ASSUME NEW l, Goto(r, l), l \notin Onboarding \cup {"put_actor"} PROVE FALSE
  BY <1>1, <1>2 DEF Goto, Task, Window
<1>3. CASE Receive(r)
  <2>1. PICK pc, op, w, label, roles :
            /\ Become(r, Handler(pc, op, w, label, roles))
            /\ pc \in {"assert_name", "get_wallet"}
    BY <1>3 DEF Receive
  <2> QED BY <1>1, <2>1 DEF Handler, Window, Onboarding
<1>4. CASE CreateWallet(r)
  <2>1. task[r].op = "create"
    BY <1>1, <1>4 DEF CreateWallet, WellFormed, Shape
  <2>2. ASSUME NEW w, Become(r, [task[r] EXCEPT !.wallet = w, !.pc =
                            IF task[r].roles = {} THEN "done" ELSE "public_did"])
        PROVE  FALSE
    BY <1>1, <2>1, <2>2 DEF Task, Window
  <2> QED BY <1>2, <1>4, <2>2 DEF CreateWallet, Onboarding
<1>5. CASE Crash(r) \/ AssertActorName(r) \/ GetWallet(r)
  BY <1>2, <1>5 DEF Crash, AssertActorName, GetWallet, Onboarding
<1>6. CASE Register(r) \/ CleanUp(r) \/ RemoveActor(r)
  BY <1>2, <1>6 DEF Register, CleanUp, RemoveActor, Onboarding
<1>7. CASE DeleteWallet(r) \/ PutActor(r) \/ UpdateWallet(r)
  BY <1>2, <1>7 DEF DeleteWallet, PutActor, UpdateWallet, Onboarding
<1>8. CASE GetPublicDid(r) \/ PublishDid(r) \/ CreateInvitation(r)
  <2>1. task[r].pc \in Onboarding /\ actors' = actors
    BY <1>8 DEF GetPublicDid, PublishDid, CreateInvitation, Onboarding
  <2>2. ASSUME NEW did, NEW l,
               \/ Goto(r, l) \/ Become(r, [task[r] EXCEPT !.pc = l, !.did = did])
               \/ Become(r, [task[r] EXCEPT !.did = did, !.pc = l])
        PROVE  t.op = task[r].op /\ t.wallet = task[r].wallet /\ t.seen = task[r].seen
    BY <1>1, <2>2 DEF Goto, Task
  <2>3. t.op = task[r].op /\ t.wallet = task[r].wallet /\ t.seen = task[r].seen
    BY <1>8, <2>2
       DEF GetPublicDid, PublishDid, CreateInvitation, Onboarded, OnboardingFails
  <2> QED BY <1>1, <2>1, <2>3 DEF Window
<1>9. CASE FetchActorToDelete(r)
  <2>1. /\ task[r].op = "delete"
        /\ \/ \E l : Become(r, [task[r] EXCEPT !.seen = actors[task[r].wallet], !.pc = l])
           \/ Goto(r, "failed")
    BY <1>9 DEF FetchActorToDelete
  <2>2. t.op = "delete"
    BY <1>1, <2>1 DEF Goto, Task
  <2> QED BY <1>1, <2>2 DEF Window
<1>10. CASE FetchActorToUpdate(r)
  <2> DEFINE actor == actors[task[r].wallet]
             u(l) == [task[r] EXCEPT !.seen = actor,
                        !.granting = task[r].roles \ actor.roles,
                        !.pc = IF task[r].roles \ actor.roles # {}
                               THEN "public_did" ELSE l]
  <2>1. /\ \/ Become(r, u("put_actor")) \/ Become(r, u("update_wallet"))
           \/ Goto(r, "failed") \/ Goto(r, "update_wallet")
        /\ actors' = actors
    BY <1>10 DEF FetchActorToUpdate
  <2>2. ASSUME NEW l, Become(r, u(l))
        PROVE  t.seen = actor /\ t.wallet = task[r].wallet
    BY <1>1, <2>2 DEF Task
  <2> HIDE DEF u
  <2> QED BY <1>2, <2>1, <2>2 DEF Onboarding
<1> QED BY <1>3, <1>4, <1>5, <1>6, <1>7, <1>8, <1>9, <1>10 DEF Step

\* Nobody writes the row of a tenant while its one update is in the window: the
\* other updates are not, a create of the tenant is over since the update has
\* seen the actor, and a delete takes the row away for good.
LEMMA SeenStep ==
    ASSUME TypeInv, WalletInv, SeenInv, OneUpdateAtATime, NEW r \in Requests, Step(r)
    PROVE  SeenInv'
<1> SUFFICES ASSUME NEW q \in Requests, Window(task'[q]),
                    actors'[task'[q].wallet] # NoActor
             PROVE  actors'[task'[q].wallet] = task'[q].seen
  BY DEF SeenInv, WalletOf
<1>1. /\ actors \in [Wallets -> Actor \cup {NoActor}]
      /\ WellFormed(task[q]) /\ WellFormed(task[r])
  BY DEF TypeInv, TypeOK, ShapeInv, WellFormed
<1>2. CASE q = r
  <2>1. /\ actors' = actors /\ task'[r].wallet = task[r].wallet
        /\ \/ Window(task[r]) /\ task'[r].seen = task[r].seen
           \/ task'[r].seen = actors[task[r].wallet]
    BY <1>2, WindowStep
  <2> QED BY <1>2, <2>1 DEF SeenInv, WalletOf
<1>3. CASE q # r
  <2>1. task'[q] = task[q] /\ Window(task[q])
    BY <1>3, OneMoves
  <2>2. task[q].wallet \in Wallets /\ task[q].seen # NoActor
    BY <1>1, <2>1 DEF Window, WellFormed, Shape
  <2>3. At(r, "register") => task[r].wallet # task[q].wallet
    <3> SUFFICES ASSUME At(r, "register"), task[r].wallet = task[q].wallet PROVE FALSE
      OBVIOUS
    <3>1. Pending(task[r])
      BY <1>1 DEF At, WellFormed, Shape, Pending
    <3> QED BY <2>2, <3>1 DEF WalletInv, PendingInv, WalletOf
  <2>4. At(r, "put_actor") => task[r].wallet # task[q].wallet
    <3> SUFFICES ASSUME At(r, "put_actor"), task[r].wallet = task[q].wallet PROVE FALSE
      OBVIOUS
    <3>1. Window(task[r])
      BY <1>1 DEF At, WellFormed, Shape, Window
    <3> QED BY <1>3, <2>1, <3>1 DEF OneUpdateAtATime, WalletOf
  <2>5. \/ actors' = actors
        \/ actors' = [actors EXCEPT ![task[r].wallet] = NoActor]
        \/ /\ At(r, "register") \/ At(r, "put_actor")
           /\ \E row : actors' = [actors EXCEPT ![task[r].wallet] = row]
    BY ActorsStep DEF WalletOf
  <2>6. actors'[task[q].wallet] = actors[task[q].wallet]
    BY <1>1, <2>1, <2>2, <2>3, <2>4, <2>5
  <2> QED BY <2>1, <2>6 DEF SeenInv, WalletOf
<1> QED BY <1>2, <1>3

\* The invariant holds as long as updates of one tenant do not overlap.
LEMMA SeenInvAlways == Spec /\ []OneUpdateAtATime => []SeenInv
<1>1. Init => SeenInv
  <2> SUFFICES ASSUME Init PROVE SeenInv OBVIOUS
  <2>1. \A r \in Requests : task[r].op = "none"
    BY DEF Init, Idle, Handler
  <2> QED BY <2>1 DEF SeenInv, Window
<1>2. TypeInv /\ WalletInv /\ SeenInv /\ OneUpdateAtATime /\ [Next]_vars => SeenInv'
  <2> SUFFICES ASSUME TypeInv, WalletInv, SeenInv, OneUpdateAtATime, [Next]_vars
               PROVE  SeenInv'
    OBVIOUS
  <2>1. CASE UNCHANGED vars
    BY <2>1 DEF vars, SeenInv, Window, WalletOf
  <2> QED BY <2>1, SeenStep DEF Next, Step
<1> QED BY <1>1, <1>2, WalletInvAlways, PTL DEF Spec

\* "This endpoint does not support revoking roles" holds in every behaviour in
\* which no two updates of one tenant overlap between reading and writing its
\* row, whatever creates, deletes and faults there are: the overlap that the
\* violated run shows is the only way to break it.
THEOREM RolesKeptWithoutOverlap ==
    Spec /\ []OneUpdateAtATime => RolesNeverRevoked
<1> DEFINE Kept == \A w \in Wallets :
                    actors[w] # NoActor /\ actors'[w] # NoActor
                        => actors[w].roles \subseteq actors'[w].roles
<1>1. TypeInv /\ WalletInv /\ SeenInv /\ [Next]_vars => [Kept]_vars
  <2> SUFFICES ASSUME TypeInv, WalletInv, SeenInv, NEW r \in Requests, Step(r),
                      NEW w \in Wallets, actors[w] # NoActor, actors'[w] # NoActor
               PROVE  actors[w].roles \subseteq actors'[w].roles
    BY DEF Next, Step
  <2>1. /\ actors \in [Wallets -> Actor \cup {NoActor}] /\ WellFormed(task[r])
    BY DEF TypeInv, TypeOK, ShapeInv, WellFormed
  <2>2. CASE actors' = actors \/ w # task[r].wallet
    BY <2>1, <2>2, ActorsStep DEF WalletOf
  <2>3. CASE w = task[r].wallet /\ actors' # actors
    <3>1. At(r, "put_actor") /\ actors' = [actors EXCEPT ![w] = UpdatedActor(r)]
      BY <2>1, <2>3, ActorsStep DEF WalletOf
    <3>2. Window(task[r])
      BY <2>1, <3>1 DEF At, WellFormed, Shape, Window
    <3>3. actors[w] = task[r].seen
      BY <2>3, <3>2 DEF SeenInv, WalletOf
    <3>4. actors'[w].roles = task[r].seen.roles \cup task[r].roles
      BY <2>1, <3>1 DEF UpdatedActor
    <3> QED BY <3>3, <3>4
  <2> QED BY <2>2, <2>3
<1> QED
  BY <1>1, SeenInvAlways, WalletInvAlways, PTL DEF Spec, RolesNeverRevoked

-----------------------------------------------------------------------------
(* The wallet's label and the actor's name.                                *)

Working(t) == t.pc \notin Ended \cup {"idle"}

\* Requests for one tenant are served one after the other.
OneRequestAtATime ==
    \A q, r \in Requests :
        /\ Working(task[q]) /\ Working(task[r])
        /\ WalletOf(q) = WalletOf(r) /\ WalletOf(q) # NoWallet
        => q = r

\* The agent and the registry agree about a tenant that no request is working
\* on: an actor has a wallet, whose label is the actor's name.  create_tenant and
\* handle_tenant_update write the two in two calls, with no transaction.
TenantsAgree ==
    \A w \in Wallets :
        actors[w] # NoActor /\ (\A r \in Requests : WalletOf(r) = w => ~ Working(task[r]))
            => wallets[w] = actors[w].name

\* The agent does not fail, and neither answers nor replicas are lost.  The
\* registry may fail, and so may the queries for a public DID.
NoHalfwayFault == Faults \cap {"agent", "lost", "crash"} = {}

\* r has given the actor of w its new name and is about to relabel the wallet.
Renaming(r, w) ==
    task[r].pc = "update_wallet" /\ WalletOf(r) = w /\ task[r].label = actors[w].name

Agreeing(w) ==
    actors[w] # NoActor =>
        /\ wallets[w] \in Labels
        /\ wallets[w] = actors[w].name \/ \E r \in Requests : Renaming(r, w)

\* What a handler relies on about the two.
Relies(t, registered, existing) ==
    /\ Pending(t) => existing[t.wallet] = t.label
    /\ t.pc \in {"cleanup", "delete_wallet"} => registered[t.wallet] = NoActor
    /\ t.pc = "update_wallet" /\ registered[t.wallet] # NoActor /\ t.label # NoLabel
        => registered[t.wallet].name = t.label

AgreeInv ==
    /\ \A w \in Wallets : Agreeing(w)
    /\ \A r \in Requests : Relies(task[r], actors, wallets)

\* A handler touches the wallet and the actor of its own tenant only, and the
\* wallet it creates.
LEMMA OwnTenantStep ==
    ASSUME TypeInv, NEW r \in Requests, Step(r), NEW w \in Wallets, w # task[r].wallet
    PROVE  /\ actors'[w] = actors[w]
           /\ wallets'[w] = wallets[w] \/ wallets[w] = "unused"
<1>1. /\ actors \in [Wallets -> Actor \cup {NoActor}]
      /\ wallets \in [Wallets -> Labels \cup {"unused", "deleted"}]
  BY DEF TypeInv, TypeOK
<1>2. actors'[w] = actors[w]
  BY <1>1, ActorsStep DEF WalletOf
<1>3. \/ wallets' = wallets
      \/ CreateWallet(r) \/ CleanUp(r) \/ DeleteWallet(r) \/ UpdateWallet(r)
  BY DEF Step, Receive, Crash, AssertActorName, Register, GetPublicDid, PublishDid,
      CreateInvitation, GetWallet, FetchActorToDelete, RemoveActor, FetchActorToUpdate,
      PutActor
<1>4. CASE CreateWallet(r)
  BY <1>1, <1>2, <1>4 DEF CreateWallet
<1>5. CASE CleanUp(r) \/ DeleteWallet(r) \/ UpdateWallet(r)
  BY <1>1, <1>2, <1>5 DEF CleanUp, DeleteWallet, UpdateWallet, WalletOf
<1> QED BY <1>2, <1>3, <1>4, <1>5

\* A handler that is not working only receives its request.
LEMMA WorkingStep ==
    ASSUME NEW r \in Requests, Step(r)
    PROVE  /\ Working(task[r]) \/ Receive(r)
           /\ Receive(r) => UNCHANGED <<wallets, actors>> /\ ~ Working(task[r])
<1> USE DEF Working, Ended, At
<1>1. CASE Receive(r) \/ Crash(r) \/ AssertActorName(r) \/ CreateWallet(r)
           \/ Register(r) \/ CleanUp(r)
  BY <1>1 DEF Receive, Crash, AssertActorName, CreateWallet, Register, CleanUp
<1>2. CASE \/ GetPublicDid(r) \/ PublishDid(r) \/ CreateInvitation(r)
           \/ GetWallet(r) \/ FetchActorToDelete(r) \/ RemoveActor(r) \/ DeleteWallet(r)
           \/ FetchActorToUpdate(r) \/ PutActor(r) \/ UpdateWallet(r)
  BY <1>2 DEF Receive, GetPublicDid, PublishDid, CreateInvitation, GetWallet,
      FetchActorToDelete, RemoveActor, DeleteWallet, FetchActorToUpdate, PutActor,
      UpdateWallet
<1> QED BY <1>1, <1>2 DEF Step

\* Every handler can go on relying on it: the one that takes the step.
LEMMA ReliesStep ==
    ASSUME NoHalfwayFault, TypeInv, WalletInv, AgreeInv, NEW r \in Requests, Step(r)
    PROVE  Relies(task'[r], actors', wallets')
<1> SUFFICES ASSUME NEW t, t = task'[r] PROVE Relies(t, actors', wallets')
  OBVIOUS
<1>1. /\ WellFormed(task[r]) /\ task[r] \in Task /\ Relies(task[r], actors, wallets)
      /\ actors \in [Wallets -> Actor \cup {NoActor}]
      /\ wallets \in [Wallets -> Labels \cup {"unused", "deleted"}]
      /\ \A u : Become(r, u) => t = u
  BY DEF TypeInv, TypeOK, ShapeInv, WellFormed, Become, AgreeInv
<1> USE DEF At, Fail, WalletOf
<1>2. ASSUME t.pc \notin Onboarding \cup {"register", "cleanup", "delete_wallet",
                                         "update_wallet"}
      PROVE  Relies(t, actors', wallets')
  BY <1>2 DEF Pending, Relies
<1>3. ASSUME NEW l, Goto(r, l), l \notin Onboarding \cup {"register", "cleanup",
                                                      "delete_wallet", "update_wallet"}
      PROVE  Relies(t, actors', wallets')
  BY <1>1, <1>2, <1>3 DEF Goto, Task
<1>4. ASSUME NEW l, Goto(r, l)
      PROVE  /\ t.wallet = task[r].wallet /\ t.label = task[r].label /\ t.pc = l
             /\ t.op = task[r].op
  BY <1>1, <1>4 DEF Goto, Task
<1>5. CASE Receive(r)
  <2>1. PICK pc, op, w, label, roles :
            /\ Become(r, Handler(pc, op, w, label, roles))
            /\ pc \in {"assert_name", "get_wallet"}
    BY <1>5 DEF Receive
  <2> QED BY <1>1, <1>2, <2>1 DEF Handler, Onboarding
<1>6. CASE CreateWallet(r)
  <2>1. CASE Goto(r, "failed")
    BY <1>3, <2>1 DEF Onboarding
  <2>2. CASE ~ Goto(r, "failed")
    <3>1. PICK w \in Wallets :
            /\ wallets' = [wallets EXCEPT ![w] = task[r].label]
            /\ Become(r, [task[r] EXCEPT !.wallet = w, !.pc =
                            IF task[r].roles = {} THEN "done" ELSE "public_did"])
      BY <1>6, <2>2 DEF CreateWallet
    <3>2. t.wallet = w /\ t.label = task[r].label /\ t.pc \in {"done", "public_did"}
      BY <1>1, <3>1 DEF Task
    <3>3. wallets'[w] = task[r].label
      BY <1>1, <3>1
    <3> QED BY <3>2, <3>3 DEF Relies
  <2> QED BY <2>1, <2>2
<1>7. CASE Crash(r) \/ AssertActorName(r) \/ GetWallet(r) \/ CleanUp(r)
           \/ DeleteWallet(r) \/ UpdateWallet(r)
  BY <1>3, <1>7 DEF Crash, AssertActorName, GetWallet, CleanUp, DeleteWallet,
                    UpdateWallet, Onboarding
<1>8. ASSUME Pending(task[r])
      PROVE  task[r].wallet \in Wallets /\ actors[task[r].wallet] = NoActor
  BY <1>1, <1>8 DEF WalletInv, PendingInv, Pending, WellFormed, Shape
<1>9. CASE Register(r)
  <2>1. Pending(task[r])
    BY <1>1, <1>9 DEF Register, WellFormed, Shape, Pending
  <2>2. Goto(r, "done") \/ (Goto(r, "cleanup") /\ actors' = actors)
    BY <1>9 DEF Register, NoHalfwayFault, Fault
  <2>3. CASE Goto(r, "cleanup") /\ actors' = actors
    BY <1>4, <1>8, <2>1, <2>3 DEF Relies, Pending, Onboarding
  <2> QED BY <1>3, <2>2, <2>3 DEF Onboarding
<1>10. CASE GetPublicDid(r) \/ PublishDid(r) \/ CreateInvitation(r)
  <2>1. /\ task[r].pc \in Onboarding /\ actors' = actors /\ wallets' = wallets
        /\ task[r].op \in {"create", "update"}
    BY <1>1, <1>10 DEF GetPublicDid, PublishDid, CreateInvitation, Onboarding,
       WellFormed, Shape
  <2>2. PICK did, l :
            \/ Goto(r, l) \/ Become(r, [task[r] EXCEPT !.pc = l, !.did = did])
            \/ Become(r, [task[r] EXCEPT !.did = did, !.pc = l])
    BY <1>10
       DEF GetPublicDid, PublishDid, CreateInvitation, Onboarded, OnboardingFails
  <2>3. /\ t.op = task[r].op /\ t.wallet = task[r].wallet
        /\ t.label = task[r].label /\ t.pc = l
    BY <1>1, <2>2 DEF Goto, Task
  <2>4. ASSUME NEW k, \/ Goto(r, k) \/ \E d : Become(r, [task[r] EXCEPT !.pc = k, !.did = d])
                     \/ \E d : Become(r, [task[r] EXCEPT !.did = d, !.pc = k])
        PROVE  t.pc = k
    BY <1>1, <2>4 DEF Goto, Task
  <2>5. /\ t.pc \in Onboarding \cup {"register", "put_actor", "failed", "cleanup"}
        /\ t.pc = "cleanup" => task[r].op = "create"
    <3>1. \A d : Onboarded(r, d) => t.pc \in {"register", "put_actor"}
      BY <2>4 DEF Onboarded
    <3>2. OnboardingFails(r) => t.pc = IF task[r].op = "create" THEN "cleanup" ELSE "failed"
      BY <2>4 DEF OnboardingFails
    <3>3. \A k \in {"invite", "publish_did"} : Goto(r, k) => t.pc = k
      BY <2>4
    <3>4. \A d : Become(r, [task[r] EXCEPT !.pc = "invite", !.did = d]) => t.pc = "invite"
      BY <2>4
    <3>5. CASE GetPublicDid(r)
      BY <3>1, <3>2, <3>3, <3>4, <3>5 DEF GetPublicDid, Onboarding
    <3>6. CASE PublishDid(r)
      BY <3>2, <3>4, <3>6 DEF PublishDid, Onboarding
    <3>7. CASE CreateInvitation(r)
      BY <3>1, <3>2, <3>7 DEF CreateInvitation, Onboarding
    <3> QED BY <1>10, <3>5, <3>6, <3>7
  <2>6. task[r].op = "create" => Pending(task[r])
    BY <2>1 DEF Pending
  <2>7. Pending(t) => wallets'[t.wallet] = t.label
    BY <1>1, <2>1, <2>3, <2>6 DEF Relies, Pending
  <2>8. t.pc = "cleanup" => actors'[t.wallet] = NoActor
    BY <1>8, <2>1, <2>3, <2>5, <2>6
  <2> QED BY <2>5, <2>7, <2>8 DEF Relies, Onboarding
<1>11. CASE RemoveActor(r)
  <2>1. task[r].wallet \in Wallets
    BY <1>1, <1>11 DEF RemoveActor, WellFormed, Shape
  <2>2. \/ Goto(r, "failed")
        \/ /\ Goto(r, "delete_wallet")
           /\ actors' = [actors EXCEPT ![task[r].wallet] = NoActor]
    BY <1>11 DEF RemoveActor
  <2> QED BY <1>1, <1>3, <1>4, <2>1, <2>2 DEF Relies, Pending, Onboarding
<1>12. CASE FetchActorToDelete(r)
  <2> DEFINE actor == actors[task[r].wallet]
             u == [task[r] EXCEPT !.seen = actor, !.pc =
                        IF actor = NoActor THEN "delete_wallet" ELSE "remove_actor"]
  <2>1. Become(r, u) \/ Goto(r, "failed")
    BY <1>12 DEF FetchActorToDelete
  <2>2. actors' = actors
    BY <1>12 DEF FetchActorToDelete
  <2>3. Become(r, u) => /\ t.wallet = task[r].wallet
                        /\ t.pc \in {"delete_wallet", "remove_actor"}
                        /\ t.pc = "delete_wallet" => actor = NoActor
    BY <1>1 DEF Task
  <2>4. Become(r, u) => Relies(t, actors', wallets')
    BY <2>2, <2>3 DEF Relies, Pending, Onboarding
  <2> QED BY <1>3, <2>1, <2>4 DEF Onboarding
<1>13. CASE FetchActorToUpdate(r)
  <2> DEFINE actor == actors[task[r].wallet]
             u(l) == [task[r] EXCEPT !.seen = actor,
                        !.granting = task[r].roles \ actor.roles,
                        !.pc = IF task[r].roles \ actor.roles # {}
                               THEN "public_did" ELSE l]
  <2>1. /\ task[r].op = "update" /\ actors' = actors
        /\ \/ Become(r, u("put_actor"))
           \/ task[r].label = NoLabel /\ Become(r, u("update_wallet"))
           \/ Goto(r, "failed")
           \/ actor = NoActor /\ Goto(r, "update_wallet")
    BY <1>13 DEF FetchActorToUpdate
  <2>2. ASSUME NEW l, Become(r, u(l))
        PROVE  /\ t.op = "update" /\ t.label = task[r].label
               /\ t.pc \in {"public_did", l}
    BY <1>1, <2>1, <2>2 DEF Task
  <2> HIDE DEF u
  <2>3. CASE Become(r, u("put_actor"))
    BY <2>2, <2>3 DEF Relies, Pending
  <2>4. CASE task[r].label = NoLabel /\ Become(r, u("update_wallet"))
    BY <2>2, <2>4 DEF Relies, Pending
  <2>5. CASE actor = NoActor /\ Goto(r, "update_wallet")
    BY <1>4, <2>1, <2>5 DEF Relies, Pending
  <2> QED BY <1>3, <2>1, <2>3, <2>4, <2>5 DEF Onboarding
<1>14. CASE PutActor(r)
  <2>1. task[r].wallet \in Wallets /\ task[r].op = "update"
    BY <1>1, <1>14 DEF PutActor, WellFormed, Shape
  <2>2. \/ Goto(r, "failed")
        \/ /\ Goto(r, "update_wallet")
           /\ actors' = [actors EXCEPT ![task[r].wallet] = UpdatedActor(r)]
    BY <1>14 DEF PutActor
  <2>3. task[r].label # NoLabel => UpdatedActor(r).name = task[r].label
    BY DEF UpdatedActor
  <2>4. CASE /\ Goto(r, "update_wallet")
             /\ actors' = [actors EXCEPT ![task[r].wallet] = UpdatedActor(r)]
    <3>1. actors'[t.wallet] = UpdatedActor(r) /\ t.label = task[r].label
          /\ t.op = "update" /\ t.pc = "update_wallet"
      BY <1>1, <1>4, <2>1, <2>4
    <3> QED BY <2>3, <3>1 DEF Relies, Pending
  <2> QED BY <1>3, <2>2, <2>4 DEF Onboarding
<1> QED BY <1>5, <1>6, <1>7, <1>9, <1>10, <1>11, <1>12, <1>13, <1>14 DEF Step

\* The tenants that the step is not about, and the renamings under way there.
LEMMA AgreeingElsewhere ==
    ASSUME TypeInv, WalletInv, AgreeInv, NEW r \in Requests, Step(r),
           NEW w \in Wallets, w # task[r].wallet
    PROVE  Agreeing(w)'
<1>1. /\ actors'[w] = actors[w]
      /\ wallets'[w] = wallets[w] \/ wallets[w] = "unused"
  BY OwnTenantStep
<1>2. wallets[w] = "unused" => actors[w] = NoActor
  BY DEF WalletInv, UnusedInv
<1>3. \A q \in Requests : Renaming(q, w) => Renaming(q, w)'
  BY <1>1, OneMoves DEF Renaming, WalletOf
<1> QED BY <1>1, <1>2, <1>3 DEF AgreeInv, Agreeing

\* The tenant that the step is about: its handler is the only one at work on it.
LEMMA AgreeingHere ==
    ASSUME NoHalfwayFault, TypeInv, WalletInv, SeenInv, AgreeInv, OneRequestAtATime,
           NEW r \in Requests, Step(r), NEW w \in Wallets, w = task[r].wallet
    PROVE  Agreeing(w)'
<1>1. /\ WellFormed(task[r]) /\ task[r] \in Task /\ Relies(task[r], actors, wallets)
      /\ actors \in [Wallets -> Actor \cup {NoActor}]
      /\ wallets \in [Wallets -> Labels \cup {"unused", "deleted"}]
      /\ \A u : Become(r, u) => task'[r] = u
      /\ Agreeing(w) /\ w # NoWallet
  BY TenantAssumption DEF TypeInv, TypeOK, ShapeInv, WellFormed, Become, AgreeInv
<1>2. ASSUME NEW q \in Requests, Renaming(q, w), Working(task[r]) PROVE q = r
  BY <1>1, <1>2 DEF OneRequestAtATime, Renaming, WalletOf, Working, Ended
<1> USE DEF At, Fail, WalletOf
<1>3. ASSUME actors' = actors, wallets' = wallets, task[r].pc # "update_wallet"
      PROVE  Agreeing(w)'
  <2>1. \A q \in Requests : Renaming(q, w) => Renaming(q, w)'
    <3> SUFFICES ASSUME NEW q \in Requests, Renaming(q, w) PROVE Renaming(q, w)'
      OBVIOUS
    <3>1. q # r
      BY <1>3 DEF Renaming
    <3>2. task'[q] = task[q]
      BY <3>1, OneMoves
    <3> QED BY <1>3, <3>2 DEF Renaming
  <2> QED BY <1>1, <1>3, <2>1 DEF Agreeing
<1>4. ASSUME actors'[w] = NoActor PROVE Agreeing(w)'
  BY <1>4 DEF Agreeing
<1>5. CASE Register(r)
  <2>1. Pending(task[r]) /\ task[r].label \in Labels
    BY <1>1, <1>5 DEF Register, WellFormed, Shape, Pending
  <2>2. wallets[w] = task[r].label /\ wallets' = wallets
    BY <1>1, <1>5, <2>1 DEF Relies, Register
  <2>3. \/ actors' = actors
        \/ actors' = [actors EXCEPT ![w] =
                [name |-> task[r].label, roles |-> task[r].roles, did |-> task[r].did]]
    BY <1>5 DEF Register
  <2>4. CASE actors' = actors
    BY <1>3, <1>5, <2>2, <2>4 DEF Register
  <2>5. CASE actors' = [actors EXCEPT ![w] =
                [name |-> task[r].label, roles |-> task[r].roles, did |-> task[r].did]]
    <3>1. actors'[w].name = task[r].label
      BY <1>1, <2>5
    <3> QED BY <2>1, <2>2, <3>1 DEF Agreeing
  <2> QED BY <2>3, <2>4, <2>5
<1>6. CASE CleanUp(r) \/ DeleteWallet(r)
  <2>1. actors' = actors /\ task[r].pc \in {"cleanup", "delete_wallet"}
    BY <1>6 DEF CleanUp, DeleteWallet
  <2> QED BY <1>1, <1>4, <2>1 DEF Relies
<1>7. CASE RemoveActor(r)
  <2>1. /\ actors' = [actors EXCEPT ![w] = NoActor] \/ actors' = actors
        /\ wallets' = wallets /\ task[r].pc # "update_wallet"
    BY <1>7 DEF RemoveActor
  <2> QED BY <1>1, <1>3, <1>4, <2>1
<1>8. CASE PutActor(r)
  <2>1. /\ wallets' = wallets /\ task[r].pc = "put_actor" /\ task[r].op = "update"
        /\ Working(task[r])
    BY <1>1, <1>8 DEF PutActor, WellFormed, Shape, Working, Ended
  <2>2. CASE actors' = actors
    BY <1>3, <2>1, <2>2
  <2>3. CASE actors' # actors
    <3>1. /\ actors[w] # NoActor /\ actors' = [actors EXCEPT ![w] = UpdatedActor(r)]
          /\ Goto(r, "update_wallet")
      BY <1>8, <2>3 DEF PutActor, NoHalfwayFault, Fault
    <3>2. actors[w] = task[r].seen
      BY <2>1, <3>1 DEF SeenInv, Window
    <3>3. ~ \E q \in Requests : Renaming(q, w)
      BY <1>2, <2>1 DEF Renaming
    <3>4. wallets[w] \in Labels /\ wallets[w] = actors[w].name
      BY <1>1, <3>1, <3>3 DEF Agreeing
    <3>5. actors'[w] = UpdatedActor(r)
      BY <1>1, <3>1
    <3>6. /\ task'[r].pc = "update_wallet" /\ task'[r].wallet = w
          /\ task'[r].label = task[r].label
      BY <1>1, <3>1 DEF Goto, Task
    <3>7. CASE task[r].label = NoLabel
      <4>1. actors'[w].name = actors[w].name
        BY <3>2, <3>5, <3>7 DEF UpdatedActor
      <4> QED BY <2>1, <3>4, <4>1 DEF Agreeing
    <3>8. CASE task[r].label # NoLabel
      <4>1. actors'[w].name = task[r].label
        BY <3>5, <3>8 DEF UpdatedActor
      <4>2. Renaming(r, w)'
        BY <3>6, <4>1 DEF Renaming
      <4> QED BY <2>1, <3>4, <4>2 DEF Agreeing
    <3> QED BY <3>7, <3>8
  <2> QED BY <2>2, <2>3
<1>9. CASE UpdateWallet(r)
  <2>1. actors' = actors /\ task[r].pc = "update_wallet" /\ Working(task[r])
    BY <1>9 DEF UpdateWallet, Working, Ended
  <2>2. CASE actors[w] = NoActor
    BY <1>4, <2>1, <2>2
  <2>3. CASE actors[w] # NoActor
    <3>1. /\ wallets[w] \in Labels
          /\ wallets[w] = actors[w].name \/ task[r].label = actors[w].name
          /\ actors[w] \in Actor
      BY <1>1, <1>2, <2>1, <2>3 DEF Agreeing, Renaming
    <3>2. wallets' = [wallets EXCEPT ![w] =
                        IF task[r].label # NoLabel THEN task[r].label ELSE @]
      BY <1>9, <3>1 DEF UpdateWallet, Exists, NoHalfwayFault, Fault
    <3>3. task[r].label # NoLabel => actors[w].name = task[r].label
      BY <1>1, <2>1, <2>3 DEF Relies
    <3>4. actors[w].name \in Labels /\ NoLabel \notin Labels
      BY <3>1, TenantAssumption DEF Actor
    <3>5. wallets'[w] = actors[w].name
      BY <1>1, <3>1, <3>2, <3>3, <3>4
    <3> QED BY <2>1, <3>4, <3>5 DEF Agreeing
  <2> QED BY <2>2, <2>3
<1>10. CASE CreateWallet(r)
  BY <1>1, <1>10 DEF CreateWallet, WellFormed, Shape
<1>11. CASE \/ Receive(r) \/ Crash(r) \/ AssertActorName(r) \/ GetWallet(r)
            \/ FetchActorToDelete(r) \/ FetchActorToUpdate(r)
  BY <1>3, <1>11 DEF Receive, Crash, NoHalfwayFault, Fault, AssertActorName, GetWallet,
                     FetchActorToDelete, FetchActorToUpdate
<1>12. CASE GetPublicDid(r) \/ PublishDid(r) \/ CreateInvitation(r)
  BY <1>3, <1>12 DEF GetPublicDid, PublishDid, CreateInvitation
<1> QED
  BY <1>5, <1>6, <1>7, <1>8, <1>9, <1>10, <1>11, <1>12 DEF Step

\* A handler that does not take the step can still rely on what it did.
LEMMA ReliesOther ==
    ASSUME TypeInv, WalletInv, AgreeInv, OneRequestAtATime,
           NEW r \in Requests, Step(r), NEW q \in Requests, q # r
    PROVE  Relies(task'[q], actors', wallets')
<1>1. /\ task'[q] = task[q] /\ Relies(task[q], actors, wallets)
      /\ WellFormed(task[q])
  BY OneMoves DEF AgreeInv, TypeInv, TypeOK, ShapeInv, WellFormed
<1>2. CASE Receive(r)
  BY <1>1, <1>2, WorkingStep DEF Relies
<1>3. CASE ~ (Pending(task[q]) \/ task[q].pc \in {"cleanup", "delete_wallet", "update_wallet"})
  BY <1>1, <1>3 DEF Relies
<1>4. CASE /\ ~ Receive(r)
           /\ Pending(task[q]) \/ task[q].pc \in {"cleanup", "delete_wallet", "update_wallet"}
  <2>1. task[q].wallet \in Wallets /\ Working(task[q])
    BY <1>1, <1>4 DEF WellFormed, Shape, Pending, Onboarding, Working, Ended
  <2>2. task[r].wallet # task[q].wallet
    BY <1>4, <2>1, WorkingStep, TenantAssumption DEF OneRequestAtATime, WalletOf
  <2>3. wallets[task[q].wallet] # "unused"
    BY <2>1 DEF WalletInv, UnusedInv, WalletOf
  <2>4. /\ actors'[task[q].wallet] = actors[task[q].wallet]
        /\ wallets'[task[q].wallet] = wallets[task[q].wallet]
    BY <2>1, <2>2, <2>3, OwnTenantStep
  <2> QED BY <1>1, <2>4 DEF Relies
<1> QED BY <1>2, <1>3, <1>4

\* Requests that are served one at a time do not overlap as updates either.
LEMMA OneRequestOneUpdate == TypeInv /\ OneRequestAtATime => OneUpdateAtATime
<1> SUFFICES ASSUME TypeInv, OneRequestAtATime, NEW q \in Requests, NEW r \in Requests,
                    Window(task[q]), Window(task[r]), WalletOf(q) = WalletOf(r)
             PROVE  q = r
  BY DEF OneUpdateAtATime
<1>1. WalletOf(q) \in Wallets
  BY DEF TypeInv, ShapeInv, Shape, Window, WalletOf
<1>2. Working(task[q]) /\ Working(task[r])
  BY DEF Window, Working, Ended, Onboarding
<1> QED BY <1>1, <1>2, TenantAssumption DEF OneRequestAtATime

\* When requests for one tenant do not overlap and no call of the agent fails
\* halfway, the agent and the registry agree about every tenant between
\* requests: refused registrations, failed onboardings and taken names leave no
\* actor without its wallet and no name that is not the wallet's label.
THEOREM TenantsAgreeBetweenRequests ==
    ASSUME NoHalfwayFault
    PROVE  Spec /\ []OneRequestAtATime => []TenantsAgree
<1>1. Init => AgreeInv
  <2> SUFFICES ASSUME Init PROVE AgreeInv OBVIOUS
  <2>1. PICK roles \in [Wallets -> SUBSET Roles] :
          /\ \A w \in Wallets : wallets[w] = "unused" => roles[w] = {}
          /\ actors = [w \in Wallets |->
                        IF roles[w] = {} THEN NoActor
                        ELSE [name |-> wallets[w], roles |-> roles[w],
                              did |-> IF "issuer" \in roles[w] THEN 1 ELSE 0]]
    BY DEF Init
  <2>2. wallets \in [Wallets -> Labels \cup {"unused"}]
    BY DEF Init
  <2>3. \A w \in Wallets : actors[w] # NoActor =>
            actors[w].name = wallets[w] /\ wallets[w] \in Labels
    BY <2>1, <2>2
  <2>4. \A r \in Requests : task[r].op = "none" /\ task[r].pc = "idle"
    BY DEF Init, Idle, Handler
  <2> QED BY <2>3, <2>4 DEF AgreeInv, Agreeing, Relies, Pending
<1>2. /\ TypeInv /\ WalletInv /\ SeenInv /\ AgreeInv /\ OneRequestAtATime
      /\ [Next]_vars
      => AgreeInv'
  <2> SUFFICES ASSUME TypeInv, WalletInv, SeenInv, AgreeInv, OneRequestAtATime,
                      [Next]_vars
               PROVE  AgreeInv'
    OBVIOUS
  <2>1. CASE UNCHANGED vars
    BY <2>1 DEF vars, AgreeInv, Agreeing, Relies, Renaming, Pending, WalletOf
  <2>2. ASSUME NEW r \in Requests, Step(r) PROVE AgreeInv'
    <3>1. \A w \in Wallets : Agreeing(w)'
      BY <2>2, AgreeingElsewhere, AgreeingHere
    <3>2. \A q \in Requests : Relies(task'[q], actors', wallets')
      BY <2>2, ReliesStep, ReliesOther
    <3> QED BY <3>1, <3>2 DEF AgreeInv
  <2> QED BY <2>1, <2>2 DEF Next, Step
<1>3. AgreeInv => TenantsAgree
  <2> SUFFICES ASSUME AgreeInv, NEW w \in Wallets, actors[w] # NoActor,
                      \A r \in Requests : WalletOf(r) = w => ~ Working(task[r])
               PROVE  wallets[w] = actors[w].name
    BY DEF TenantsAgree
  <2>1. ~ \E r \in Requests : Renaming(r, w)
    BY DEF Renaming, Working, Ended
  <2> QED BY <2>1 DEF AgreeInv, Agreeing
<1> QED
  BY <1>1, <1>2, <1>3, OneRequestOneUpdate, SeenInvAlways, WalletInvAlways, PTL DEF Spec

=============================================================================

-------------------------- MODULE TenantLifecycle --------------------------
(***************************************************************************)
(* The tenant administration of the web service (src/app/routes/admin/     *)
(* tenants.py): requests that create, update and delete tenants, each a    *)
(* sequence of calls to the multitenant agent, which keeps the wallets,    *)
(* and to the trust registry, which keeps the actors.  No transaction      *)
(* spans the two: requests interleave between any two calls, a call fails  *)
(* or its answer is lost, and the replica serving a request may die.       *)
(***************************************************************************)
EXTENDS Naturals, FiniteSets

CONSTANTS
    Requests,   \* HTTP requests of tenant administrators
    Wallets,    \* wallet ids, which are the actors' ids too
    Labels,     \* wallet labels, which are the actors' names
    Faults,     \* the kinds of fault that may happen
    MaxFaults,  \* bound: faults in a behaviour
    NoWallet, NoLabel, NoActor

Roles == {"issuer", "verifier"}
Actor == [name : Labels, roles : (SUBSET Roles) \ {{}}, did : Nat]

(***************************************************************************)
(* registry: the trust registry answers with an error.  connect_timeout:   *)
(* RichAsyncClient returns None after three ConnectTimeouts.  agent: the   *)
(* agent answers with an error.  public_did: it does so to a query for the *)
(* public DID.  lost: a call takes effect and its answer is lost.          *)
(***************************************************************************)
FaultKinds ==
    {"registry", "connect_timeout", "agent", "public_did", "lost", "crash"}

ASSUME TenantAssumption ==
    /\ Faults \subseteq FaultKinds
    /\ MaxFaults \in Nat
    /\ NoWallet \notin Wallets
    /\ NoLabel \notin Labels
    /\ {"unused", "deleted"} \cap Labels = {}
    /\ NoActor \notin Actor

VARIABLES
    wallets,  \* the agent: each wallet's label, once created and until deleted
    dids,     \* the agent: how many DIDs each wallet made public, in turn
    actors,   \* the trust registry's actors table
    task,     \* the handler of each request
    faults

vars == <<wallets, dids, actors, task, faults>>

\* An actor's did: n for the n-th public DID of its wallet, 0 for the did:key
\* of an invitation.
Onboarding == {"public_did", "publish_did", "invite"}
Ended      == {"done", "failed", "stray", "crashed"}
Labelled   == Onboarding \cup Ended \cup
              {"idle", "assert_name", "create_wallet", "register", "cleanup",
               "get_wallet", "fetch_actor", "remove_actor", "delete_wallet",
               "put_actor", "update_wallet"}

\* label, roles: of the request's body; granting: the roles it onboards for;
\* seen: the actor it fetched; did: what onboarding returned.
Task == [pc : Labelled, op : {"none", "create", "update", "delete"},
         wallet : Wallets \cup {NoWallet}, label : Labels \cup {NoLabel},
         roles : SUBSET Roles, granting : SUBSET Roles,
         seen : Actor \cup {NoActor}, did : Nat]

TypeOK ==
    /\ wallets \in [Wallets -> Labels \cup {"unused", "deleted"}]
    /\ dids \in [Wallets -> Nat]
    /\ actors \in [Wallets -> Actor \cup {NoActor}]
    /\ task \in [Requests -> Task]
    /\ faults \in Nat

\* A handler that has just been entered.
Handler(pc, op, w, label, roles) ==
    [pc |-> pc, op |-> op, wallet |-> w, label |-> label, roles |-> roles,
     granting |-> IF op = "create" THEN roles ELSE {}, seen |-> NoActor, did |-> 0]

Idle == Handler("idle", "none", NoWallet, NoLabel, {})

\* Tenants created before: a wallet and, when it has roles, an actor with its
\* label, an issuer's with the wallet's public DID.
Init ==
    /\ wallets \in [Wallets -> Labels \cup {"unused"}]
    /\ \E roles \in [Wallets -> SUBSET Roles] :
        /\ \A w \in Wallets : wallets[w] = "unused" => roles[w] = {}
        /\ \A v, w \in Wallets :
            v # w /\ roles[v] # {} /\ roles[w] # {} => wallets[v] # wallets[w]
        /\ dids = [w \in Wallets |-> IF "issuer" \in roles[w] THEN 1 ELSE 0]
        /\ actors = [w \in Wallets |->
                        IF roles[w] = {} THEN NoActor
                        ELSE [name |-> wallets[w], roles |-> roles[w],
                              did |-> IF "issuer" \in roles[w] THEN 1 ELSE 0]]
    /\ task = [r \in Requests |-> Idle]
    /\ faults = 0

Fault(f) == f \in Faults /\ faults < MaxFaults /\ faults' = faults + 1
NoFault  == UNCHANGED faults
\* A call to the registry that has no effect.
Refused  == Fault("registry") \/ Fault("connect_timeout")

At(r, label)   == task[r].pc = label
Become(r, t)   == task' = [task EXCEPT ![r] = t]
Goto(r, label) == Become(r, [task[r] EXCEPT !.pc = label])
Fail(r)        == Goto(r, "failed")

\* The wallet of r's tenant, and whether it exists.
WalletOf(r) == task[r].wallet
Exists(w)   == wallets[w] \in Labels
ActorNamed(name) == {w \in Wallets : actors[w] # NoActor /\ actors[w].name = name}

-----------------------------------------------------------------------------
(* The requests, and what ends one from outside.                           *)

\* POST /tenants, PUT and DELETE /tenants/{wallet_id}; the id of a wallet is
\* known from the moment the agent has it.
Receive(r) ==
    /\ At(r, "idle")
    /\ \E label \in Labels \cup {NoLabel}, roles \in SUBSET Roles :
        \/ /\ label # NoLabel
           /\ Become(r, Handler("assert_name", "create", NoWallet, label, roles))
        \/ \E w \in Wallets :
            /\ wallets[w] # "unused"
            /\ \/ Become(r, Handler("get_wallet", "update", w, label, roles))
               \/ Become(r, Handler("get_wallet", "delete", w, NoLabel, {}))
    /\ UNCHANGED <<wallets, dids, actors, faults>>

\* The replica that serves r dies.
Crash(r) ==
    /\ task[r].pc \notin Ended \cup {"idle"}
    /\ Fault("crash")
    /\ Goto(r, "crashed")
    /\ UNCHANGED <<wallets, dids, actors>>

-----------------------------------------------------------------------------
(* Creating a tenant.                                                      *)

AssertActorName(r) ==
    /\ At(r, "assert_name")
    /\ \/ ActorNamed(task[r].label) = {} /\ Goto(r, "create_wallet") /\ NoFault
       \/ ActorNamed(task[r].label) # {} /\ Fail(r) /\ NoFault
       \/ Refused /\ Fail(r)
    /\ UNCHANGED <<wallets, dids, actors>>

\* The agent chooses a new wallet id.  Without roles the request is done.
CreateWallet(r) ==
    /\ At(r, "create_wallet")
    /\ \/ \E w \in Wallets :
            /\ wallets[w] = "unused"
            /\ wallets' = [wallets EXCEPT ![w] = task[r].label]
            /\ \/ /\ Become(r, [task[r] EXCEPT !.wallet = w, !.pc =
                                IF task[r].roles = {} THEN "done" ELSE "public_did"])
                  /\ NoFault
               \/ Fail(r) /\ Fault("lost")
       \/ Fail(r) /\ Fault("agent") /\ UNCHANGED wallets
    /\ UNCHANGED <<dids, actors>>

\* Mutant of Register: the registry does not enforce unique names.
RegisterAnyName(r) ==
    /\ At(r, "register")
    /\ actors' = [actors EXCEPT ![WalletOf(r)] =
                    [name |-> task[r].label, roles |-> task[r].roles, did |-> task[r].did]]
    /\ Goto(r, "done") /\ NoFault
    /\ UNCHANGED <<wallets, dids>>

\* Mutant of Register: the wallet is deleted on an HTTPException only.
RegisterWithoutCatchAll(r) ==
    /\ At(r, "register")
    /\ \/ Goto(r, "cleanup") /\ Fault("registry")
       \/ Fail(r) /\ Fault("connect_timeout")
    /\ UNCHANGED <<wallets, dids, actors>>

\* register_actor, under the table's primary key and unique names.  Whatever
\* it raises, the handler deletes the wallet.
Register(r) ==
    /\ At(r, "register")
    /\ \/ /\ actors[WalletOf(r)] = NoActor
          /\ ActorNamed(task[r].label) = {}
          /\ actors' = [actors EXCEPT ![WalletOf(r)] =
                [name |-> task[r].label, roles |-> task[r].roles, did |-> task[r].did]]
          /\ \/ Goto(r, "done") /\ NoFault
             \/ Goto(r, "cleanup") /\ Fault("lost")
       \/ /\ actors[WalletOf(r)] # NoActor \/ ActorNamed(task[r].label) # {}
          /\ Goto(r, "cleanup") /\ NoFault /\ UNCHANGED actors
       \/ Goto(r, "cleanup") /\ Refused /\ UNCHANGED actors
    /\ UNCHANGED <<wallets, dids>>

\* The except branches of create_tenant; "stray" when the agent refuses.
CleanUp(r) ==
    /\ At(r, "cleanup")
    /\ \/ /\ Exists(WalletOf(r))
          /\ wallets' = [wallets EXCEPT ![WalletOf(r)] = "deleted"]
          /\ Fail(r) /\ (NoFault \/ Fault("lost"))
       \/ ~ Exists(WalletOf(r)) /\ Fail(r) /\ NoFault /\ UNCHANGED wallets
       \/ Goto(r, "stray") /\ Fault("agent") /\ UNCHANGED wallets
    /\ UNCHANGED <<dids, actors>>

-----------------------------------------------------------------------------
(* Onboarding a tenant, as an issuer if "issuer" is among the roles.       *)

AsIssuer(r) == "issuer" \in task[r].granting

Onboarded(r, did) ==
    Become(r, [task[r] EXCEPT !.did = did, !.pc =
                IF task[r].op = "create" THEN "register" ELSE "put_actor"])

OnboardingFails(r) == Goto(r, IF task[r].op = "create" THEN "cleanup" ELSE "failed")

\* Both flows ask for the public DID and take any error for "there is none".
\* An update asks for the wallet's token before that.
GetPublicDid(r) ==
    /\ At(r, "public_did")
    /\ \/ /\ Exists(WalletOf(r)) /\ dids[WalletOf(r)] > 0
          /\ IF AsIssuer(r)
             THEN Become(r, [task[r] EXCEPT !.pc = "invite", !.did = dids[WalletOf(r)]])
             ELSE Onboarded(r, dids[WalletOf(r)])
          /\ NoFault
       \/ /\ \/ ~ Exists(WalletOf(r)) /\ NoFault
             \/ dids[WalletOf(r)] = 0 /\ NoFault
             \/ Fault("public_did")
          /\ Goto(r, IF AsIssuer(r) THEN "publish_did" ELSE "invite")
       \/ /\ task[r].op = "update"
          /\ (~ Exists(WalletOf(r)) /\ NoFault) \/ Fault("agent")
          /\ OnboardingFails(r)
    /\ UNCHANGED <<wallets, dids, actors>>

\* onboard_issuer_no_public_did: connect to the endorser, register a new DID
\* and make it public.  It may fail after the DID became public ("lost").
PublishDid(r) ==
    /\ At(r, "publish_did")
    /\ LET w == WalletOf(r) IN
        \/ /\ Exists(w)
           /\ dids' = [dids EXCEPT ![w] = @ + 1]
           /\ \/ /\ Become(r, [task[r] EXCEPT !.pc = "invite", !.did = dids[w] + 1])
                 /\ NoFault
              \/ OnboardingFails(r) /\ Fault("lost")
        \/ /\ (~ Exists(w) /\ NoFault) \/ Fault("agent")
           /\ OnboardingFails(r) /\ UNCHANGED dids
    /\ UNCHANGED <<wallets, actors>>

\* The invitation of an actor; a verifier's did is the key in it.
CreateInvitation(r) ==
    /\ At(r, "invite")
    /\ \/ /\ Exists(WalletOf(r)) /\ NoFault
          /\ Onboarded(r, IF AsIssuer(r) THEN task[r].did ELSE 0)
       \/ /\ (~ Exists(WalletOf(r)) /\ NoFault) \/ Fault("agent")
          /\ OnboardingFails(r)
    /\ UNCHANGED <<wallets, dids, actors>>

-----------------------------------------------------------------------------
(* Updating and deleting a tenant.                                         *)

\* get_wallet_and_assert_valid_group: 404 for a wallet that is gone or of
\* another group than the caller's.
GetWallet(r) ==
    /\ At(r, "get_wallet")
    /\ \/ Exists(WalletOf(r)) /\ Goto(r, "fetch_actor") /\ NoFault
       \/ Fail(r) /\ (NoFault \/ Fault("agent"))
    /\ UNCHANGED <<wallets, dids, actors>>

FetchActorToDelete(r) ==
    /\ At(r, "fetch_actor") /\ task[r].op = "delete"
    /\ LET actor == actors[WalletOf(r)] IN
        \/ /\ Become(r, [task[r] EXCEPT !.seen = actor, !.pc =
                        IF actor = NoActor THEN "delete_wallet" ELSE "remove_actor"])
           /\ NoFault
        \/ Fail(r) /\ Refused
    /\ UNCHANGED <<wallets, dids, actors>>

\* remove_actor_by_id; an actor that is gone already (404) is no error.
RemoveActor(r) ==
    /\ At(r, "remove_actor")
    /\ \/ /\ actors' = [actors EXCEPT ![WalletOf(r)] = NoActor]
          /\ \/ Goto(r, "delete_wallet") /\ NoFault
             \/ Fail(r) /\ Fault("lost")
       \/ Fail(r) /\ Refused /\ UNCHANGED actors
    /\ UNCHANGED <<wallets, dids>>

DeleteWallet(r) ==
    /\ At(r, "delete_wallet")
    /\ \/ /\ Exists(WalletOf(r))
          /\ wallets' = [wallets EXCEPT ![WalletOf(r)] = "deleted"]
          /\ \/ Goto(r, "done") /\ NoFault
             \/ Fail(r) /\ Fault("lost")
       \/ /\ (~ Exists(WalletOf(r)) /\ NoFault) \/ Fault("agent")
          /\ Fail(r) /\ UNCHANGED wallets
    /\ UNCHANGED <<dids, actors>>

\* Mutant of FetchActorToUpdate: new roles are granted without onboarding.
FetchActorGrantingAtOnce(r) ==
    /\ At(r, "fetch_actor") /\ task[r].op = "update"
    /\ actors[WalletOf(r)] # NoActor
    /\ Become(r, [task[r] EXCEPT !.seen = actors[WalletOf(r)], !.pc = "put_actor",
                    !.granting = task[r].roles \ actors[WalletOf(r)].roles])
    /\ UNCHANGED <<wallets, dids, actors, faults>>

\* handle_tenant_update up to its decision.  A holder gets no roles; an actor
\* is onboarded for the roles it lacks and written when anything changes, the
\* image included.
FetchActorToUpdate(r) ==
    /\ At(r, "fetch_actor") /\ task[r].op = "update"
    /\ LET actor == actors[WalletOf(r)]
           added == task[r].roles \ actor.roles
       IN
        \/ /\ actor = NoActor /\ NoFault
           /\ Goto(r, IF task[r].roles = {} THEN "update_wallet" ELSE "failed")
        \/ /\ actor # NoActor /\ NoFault
           /\ \E newImage \in BOOLEAN :
                Become(r, [task[r] EXCEPT !.seen = actor, !.granting = added,
                    !.pc = IF added # {} THEN "public_did"
                           ELSE IF task[r].label # NoLabel \/ newImage
                           THEN "put_actor" ELSE "update_wallet"])
        \/ Fail(r) /\ Refused
    /\ UNCHANGED <<wallets, dids, actors>>

\* The row that update_actor writes: what was fetched, with what is new (the
\* requested roles are among the fetched ones when nothing was onboarded).
UpdatedActor(r) ==
    [name  |-> IF task[r].label # NoLabel THEN task[r].label ELSE task[r].seen.name,
     roles |-> task[r].seen.roles \cup task[r].roles,
     did   |-> IF task[r].granting # {} THEN task[r].did ELSE task[r].seen.did]

\* Mutants of PutActor: an absent label overwrites the name; the registry
\* inserts an actor that it does not have.
PutActorWithLabel(r) ==
    /\ At(r, "put_actor") /\ actors[WalletOf(r)] # NoActor
    /\ actors' = [actors EXCEPT ![WalletOf(r)] =
                    [UpdatedActor(r) EXCEPT !.name = task[r].label]]
    /\ Goto(r, "update_wallet")
    /\ UNCHANGED <<wallets, dids, faults>>

PutActorUpserting(r) ==
    /\ At(r, "put_actor")
    /\ ActorNamed(UpdatedActor(r).name) \subseteq {WalletOf(r)}
    /\ actors' = [actors EXCEPT ![WalletOf(r)] = UpdatedActor(r)]
    /\ Goto(r, "update_wallet")
    /\ UNCHANGED <<wallets, dids, faults>>

\* update_actor writes the whole row, if there is one and the name is free.
PutActor(r) ==
    /\ At(r, "put_actor")
    /\ LET w == WalletOf(r)
           free == ActorNamed(UpdatedActor(r).name) \subseteq {w}
       IN
        \/ /\ actors[w] # NoActor /\ free
           /\ actors' = [actors EXCEPT ![w] = UpdatedActor(r)]
           /\ \/ Goto(r, "update_wallet") /\ NoFault
              \/ Fail(r) /\ Fault("lost")
        \/ /\ actors[w] = NoActor \/ ~ free
           /\ Fail(r) /\ NoFault /\ UNCHANGED actors
        \/ Fail(r) /\ Refused /\ UNCHANGED actors
    /\ UNCHANGED <<wallets, dids>>

UpdateWallet(r) ==
    /\ At(r, "update_wallet")
    /\ \/ /\ Exists(WalletOf(r))
          /\ wallets' = [wallets EXCEPT ![WalletOf(r)] =
                            IF task[r].label # NoLabel THEN task[r].label ELSE @]
          /\ \/ Goto(r, "done") /\ NoFault
             \/ Fail(r) /\ Fault("lost")
       \/ /\ (~ Exists(WalletOf(r)) /\ NoFault) \/ Fault("agent")
          /\ Fail(r) /\ UNCHANGED wallets
    /\ UNCHANGED <<dids, actors>>

-----------------------------------------------------------------------------
Next ==
    \E r \in Requests :
        \/ Receive(r) \/ Crash(r)
        \/ AssertActorName(r) \/ CreateWallet(r) \/ Register(r) \/ CleanUp(r)
        \/ GetPublicDid(r) \/ PublishDid(r) \/ CreateInvitation(r)
        \/ GetWallet(r) \/ FetchActorToDelete(r) \/ RemoveActor(r) \/ DeleteWallet(r)
        \/ FetchActorToUpdate(r) \/ PutActor(r) \/ UpdateWallet(r)

Spec == Init /\ [][Next]_vars

-----------------------------------------------------------------------------
(* Properties.                                                             *)

\* No two actors share a name, whichever requests race: the check of
\* create_tenant is not atomic with the registration, and a rename of an
\* actor is not checked at all.
ActorNamesUnique ==
    \A v, w \in Wallets :
        actors[v] # NoActor /\ actors[w] # NoActor /\ v # w
            => actors[v].name # actors[w].name

\* Only a tenant that has been onboarded as an issuer, and so has made a DID
\* public, is an issuer in the registry, whatever stale rows are written back.
IssuersOnboarded ==
    \A w \in Wallets :
        actors[w] # NoActor /\ "issuer" \in actors[w].roles => dids[w] > 0

\* A delete that found an actor has removed it for good before it deletes the
\* wallet: no racing update or create brings it back, and no failed call leaves
\* it behind a deleted wallet.
DeletedIsGone ==
    \A r \in Requests :
        task[r].op = "delete" /\ task[r].seen # NoActor =>
            /\ At(r, "delete_wallet") => actors[WalletOf(r)] = NoActor
            /\ At(r, "done") => /\ actors[WalletOf(r)] = NoActor
                                /\ wallets[WalletOf(r)] = "deleted"

\* A create request that failed leaves no wallet behind ("Stray wallet was
\* created for unregistered actor; deleting wallet", tenants.py:206), unless
\* the agent refused to delete it or the replica died.  A wallet whose creation
\* was not answered is no part of it: the request never learned its name.
FailedCreateLeavesNoWallet ==
    \A r \in Requests :
        task[r].op = "create" /\ At(r, "failed") /\ WalletOf(r) # NoWallet
            => wallets[WalletOf(r)] = "deleted"

\* "this endpoint does not support revoking roles" (tenants.py:414): an actor
\* keeps its roles while it is registered.  An update that writes back the row
\* it fetched before another update added a role breaks it.
RolesNeverRevoked ==
    [][\A w \in Wallets :
        actors[w] # NoActor /\ actors'[w] # NoActor
            => actors[w].roles \subseteq actors'[w].roles]_vars

=============================================================================

-------------------------- MODULE IssuerOnboarding --------------------------
(***************************************************************************)
(* Onboarding a wallet as an issuer (src/app/services/onboarding): connect *)
(* it to the endorser, set both ends up for endorsement, create a DID and  *)
(* have it endorsed, make it public, have that endorsed too.  The agents   *)
(* and the endorser act on their own while the handler polls them, for a   *)
(* bounded number of times.                                                *)
(*                                                                         *)
(* All attempts are for one wallet: an update of its tenant that failed is *)
(* tried again, and two updates may run at once.                           *)
(***************************************************************************)
EXTENDS Naturals, FiniteSets, Sequences, SequencesExt

CONSTANTS
    Attempts,    \* calls of onboard_issuer for the wallet
    MaxPolls,    \* max_attempts of the polls (30 and 60 in the code)
    Faults,      \* the kinds of fault that may happen
    MaxFaults,   \* bound: kinds of fault in one behaviour
    NoDid

\* agent: an agent answers with an error.  lost: a call takes effect and its
\* answer is lost.  crash: the replica that serves the request dies.
FaultKinds == {"agent", "lost", "crash"}

ASSUME OnboardingAssumption ==
    /\ MaxPolls \in Nat \ {0}
    /\ Faults \subseteq FaultKinds
    /\ MaxFaults \in Nat
    /\ NoDid \notin Attempts

VARIABLES
    connection,  \* the connection with the endorser that each attempt creates
    via,         \* the connection by which each transaction was sent, if it was
    acked,       \* transactions that are endorsed and written
    public,      \* DIDs made public, in order, each named by its attempt
    task,        \* the handler of each attempt
    faults       \* the kinds of fault that have happened

vars == <<connection, via, acked, public, task, faults>>

\* The registration of an attempt's DID, and its publication.
Txns == [type : {"nym", "attrib"}, of : Attempts]
Nym(a)    == [type |-> "nym", of |-> a]
Attrib(a) == [type |-> "attrib", of |-> a]

\* A completed connection gets the endorser's role, the author's role and the
\* endorser's DID, in this order.
Connections == {"none", "received", "completed", "endorser", "author", "configured"}

Working == {"get_public_did", "connect", "await_connection", "set_endorser_role",
            "set_author_role", "set_endorser_info", "register_nym", "await_nym",
            "set_public_did", "await_attrib", "invite"}
Ended   == {"done", "failed", "crashed"}

Task == [pc : {"idle"} \cup Working \cup Ended, polls : 0..(MaxPolls - 1),
         did : Attempts \cup {NoDid}]

TypeOK ==
    /\ connection \in [Attempts -> Connections]
    /\ via \in [Txns -> Attempts \cup {NoDid}]
    /\ acked \subseteq Txns
    /\ public \in Seq(Attempts)
    /\ task \in [Attempts -> Task]
    /\ faults \subseteq Faults

Init ==
    /\ connection = [a \in Attempts |-> "none"]
    /\ via = [t \in Txns |-> NoDid]
    /\ acked = {}
    /\ public = <<>>
    /\ task = [a \in Attempts |-> [pc |-> "idle", polls |-> 0, did |-> NoDid]]
    /\ faults = {}

Fault(f) ==
    /\ f \in Faults
    /\ faults' = faults \cup {f}
    /\ Cardinality(faults') <= MaxFaults
NoFault == UNCHANGED faults

At(a, label)   == task[a].pc = label
Become(a, t)   == task' = [task EXCEPT ![a] = t]
Goto(a, label) == Become(a, [task[a] EXCEPT !.pc = label, !.polls = 0])
Fail(a)        == Goto(a, "failed")

\* Mutants of Retry: one attempt too many; the attempts are not counted.
RetryOnceMore(a) ==
    IF task[a].polls + 1 <= MaxPolls
    THEN Become(a, [task[a] EXCEPT !.polls = @ + 1])
    ELSE Fail(a)

RetryForever(a) == UNCHANGED task

\* An unsuccessful poll, an error of the agent included: wait for the next, or
\* give up.
Retry(a) ==
    IF task[a].polls + 1 < MaxPolls
    THEN Become(a, [task[a] EXCEPT !.polls = @ + 1])
    ELSE Fail(a)

-----------------------------------------------------------------------------
(* The environment.                                                        *)

\* The agents answer each other's messages (auto_accept).
CompleteConnection(a) ==
    /\ connection[a] = "received"
    /\ connection' = [connection EXCEPT ![a] = "completed"]
    /\ UNCHANGED <<via, acked, public, task, faults>>

\* The endorser endorses these transactions unconditionally, once it gets to.
Endorse(t) ==
    /\ via[t] # NoDid /\ t \notin acked
    /\ acked' = acked \cup {t}
    /\ UNCHANGED <<connection, via, public, task, faults>>

Crash(a) ==
    /\ task[a].pc \in Working
    /\ Fault("crash")
    /\ Goto(a, "crashed")
    /\ UNCHANGED <<connection, via, acked, public>>

Begin(a) ==
    /\ At(a, "idle")
    /\ Goto(a, "get_public_did")
    /\ UNCHANGED <<connection, via, acked, public, faults>>

-----------------------------------------------------------------------------
(* The handler.                                                            *)

\* Any error of the query, not only a 404, is taken for "no public DID".
GetPublicDid(a) ==
    /\ At(a, "get_public_did")
    /\ \/ /\ public # <<>> /\ NoFault
          /\ Become(a, [task[a] EXCEPT !.pc = "invite", !.did = Last(public)])
       \/ /\ (public = <<>> /\ NoFault) \/ Fault("agent")
          /\ Goto(a, "connect")
    /\ UNCHANGED <<connection, via, acked, public>>

\* The endorser's DID, its invitation, and the wallet's acceptance of it.
Connect(a) ==
    /\ At(a, "connect")
    /\ \/ /\ connection' = [connection EXCEPT ![a] = "received"]
          /\ \/ Goto(a, "await_connection") /\ NoFault
             \/ Fail(a) /\ Fault("lost")
       \/ Fail(a) /\ Fault("agent") /\ UNCHANGED connection
    /\ UNCHANGED <<via, acked, public>>

\* wait_endorser_connection_completed.
AwaitConnection(a) ==
    /\ At(a, "await_connection")
    /\ \/ connection[a] = "completed" /\ Goto(a, "set_endorser_role") /\ NoFault
       \/ /\ (connection[a] # "completed" /\ NoFault) \/ Fault("agent")
          /\ Retry(a)
    /\ UNCHANGED <<connection, via, acked, public>>

\* One call of set_endorser_metadata.py.
SetMetadata(a, label, state, next) ==
    /\ At(a, label)
    /\ \/ /\ connection' = [connection EXCEPT ![a] = state]
          /\ \/ Goto(a, next) /\ NoFault
             \/ Fail(a) /\ Fault("lost")
       \/ Fail(a) /\ Fault("agent") /\ UNCHANGED connection
    /\ UNCHANGED <<via, acked, public>>

\* set_endorser_roles, then configure_endorsement; an attempt that fails in between
\* leaves its connection as it is.
Configure(a) ==
    \/ SetMetadata(a, "set_endorser_role", "endorser", "set_author_role")
    \/ SetMetadata(a, "set_author_role", "author", "set_endorser_info")
    \/ SetMetadata(a, "set_endorser_info", "configured", "register_nym")

\* The wallet's agent sends a transaction by one of its connections with the
\* endorser: the code names none.  One that is not configured yet, or never will
\* be, makes it refuse.
Send(t) == \E c \in Attempts :
    connection[c] = "configured" /\ via' = [via EXCEPT ![t] = c]

Refused ==
    \/ (\E c \in Attempts : connection[c] \notin {"none", "configured"}) /\ NoFault
    \/ Fault("agent")

\* Accept the TAA, create the DID, and send its registration.
RegisterNym(a) ==
    /\ At(a, "register_nym")
    /\ \/ /\ Send(Nym(a))
          /\ \/ Goto(a, "await_nym") /\ NoFault
             \/ Fail(a) /\ Fault("lost")
       \/ Refused /\ Fail(a) /\ UNCHANGED via
    /\ UNCHANGED <<connection, acked, public>>

\* Mutant of AllAcked: one endorsed transaction is enough.
AnyAcked(a) == \E t \in acked : via[t] = a

\* What wait_transactions_endorsed looks for: transactions on the connection of
\* the attempt, all of them acknowledged.
AllAcked(a) ==
    LET onConnection == {t \in Txns : via[t] = a}
    IN onConnection # {} /\ onConnection \subseteq acked

AwaitEndorsed(a, label, next) ==
    /\ At(a, label)
    /\ \/ AllAcked(a) /\ Goto(a, next) /\ NoFault
       \/ /\ (~ AllAcked(a) /\ NoFault) \/ Fault("agent")
          /\ Retry(a)
    /\ UNCHANGED <<connection, via, acked, public>>

AwaitNym(a) == AwaitEndorsed(a, "await_nym", "set_public_did")

\* The agent makes the DID public if it finds it on the ledger, and sends the
\* transaction that publishes the wallet's endpoint.
SetPublicDid(a) ==
    /\ At(a, "set_public_did")
    /\ \/ /\ Nym(a) \in acked /\ Send(Attrib(a))
          /\ public' = Append(public, a)
          /\ \/ Goto(a, "await_attrib") /\ NoFault
             \/ Fail(a) /\ Fault("lost")
       \/ /\ (Nym(a) \notin acked /\ NoFault) \/ Refused
          /\ Fail(a) /\ UNCHANGED <<via, public>>
    /\ UNCHANGED <<connection, acked>>

AwaitAttrib(a) ==
    /\ At(a, "await_attrib")
    /\ \/ /\ AllAcked(a) /\ NoFault
          /\ Become(a, [task[a] EXCEPT !.pc = "invite", !.polls = 0, !.did = a])
       \/ /\ (~ AllAcked(a) /\ NoFault) \/ Fault("agent")
          /\ Retry(a)
    /\ UNCHANGED <<connection, via, acked, public>>

\* The invitation that goes with the DID into the registry.
CreateInvitation(a) ==
    /\ At(a, "invite")
    /\ \/ Goto(a, "done") /\ NoFault
       \/ Fail(a) /\ Fault("agent")
    /\ UNCHANGED <<connection, via, acked, public>>

-----------------------------------------------------------------------------
Handle(a) ==
    \/ GetPublicDid(a) \/ Connect(a) \/ AwaitConnection(a) \/ Configure(a)
    \/ RegisterNym(a) \/ AwaitNym(a) \/ SetPublicDid(a) \/ AwaitAttrib(a)
    \/ CreateInvitation(a)

Next ==
    \/ \E a \in Attempts : Begin(a) \/ Crash(a) \/ CompleteConnection(a) \/ Handle(a)
    \/ \E t \in Txns : Endorse(t)

\* A handler that can go on does: every call it awaits returns or times out.
\* Nothing is assumed of the agents and of the endorser.
Spec == Init /\ [][Next]_vars /\ \A a \in Attempts : WF_vars(Handle(a))

-----------------------------------------------------------------------------
(* Properties.                                                             *)

\* An attempt goes on only when the endorser has endorsed what it waits for: it
\* asks for its DID to be made public only once the DID is on the ledger, and
\* answers with it only once its publication is endorsed too ("Needs to be
\* endorsed before continuing", register_issuer_did.py:196); as far as these
\* transactions went by its own connection, the only one whose transactions it
\* looks at.
WaitsAreExact ==
    \A a \in Attempts :
        /\ task[a].pc \in {"set_public_did", "await_attrib"} /\ via[Nym(a)] = a
            => Nym(a) \in acked
        /\ At(a, "done") /\ task[a].did = a /\ via[Attrib(a)] = a
            => Attrib(a) \in acked

\* An attempt publishes at most one DID and answers with it, or with one that
\* was public, and it ends, though the connection may never complete and the
\* endorser never endorse: what TenantLifecycle relies on.
Status(a) ==
    CASE At(a, "idle") -> "idle" [] At(a, "done") -> "done"
      [] task[a].pc \in Working -> "running" [] OTHER -> "failed"

Promise == INSTANCE DidPublication WITH
    status <- [a \in Attempts |-> Status(a)],
    answer <- [a \in Attempts |-> IF At(a, "done") THEN task[a].did ELSE NoDid]

ImplementsDidPublication == Promise!Spec

=============================================================================

--------------------------- MODULE DidPublication ---------------------------
(***************************************************************************)
(* What onboarding a tenant as an issuer promises to tenant administration *)
(* (onboard_issuer in src/app/services/onboarding/issuer.py): an attempt   *)
(* makes at most one new DID of the wallet public, answers with that DID,  *)
(* or with one that was public already when it made none, or fails; and    *)
(* every attempt ends.  TenantLifecycle uses it so.                        *)
(***************************************************************************)
EXTENDS Sequences, SequencesExt

CONSTANTS Attempts, NoDid

VARIABLES
    public,  \* DIDs made public, in order, each named by the attempt that did
    status,  \* of each attempt
    answer   \* the DID that each attempt returned

vars == <<public, status, answer>>

Init ==
    /\ public = <<>>
    /\ status = [a \in Attempts |-> "idle"]
    /\ answer = [a \in Attempts |-> NoDid]

Move(a, from, to) == status[a] = from /\ status' = [status EXCEPT ![a] = to]

Begin(a) == Move(a, "idle", "running") /\ UNCHANGED <<public, answer>>

Publish(a) ==
    /\ status[a] = "running" /\ a \notin ToSet(public)
    /\ public' = Append(public, a)
    /\ UNCHANGED <<status, answer>>

\* The last call is lost: the DID is public and the attempt fails with it.
PublishAndFail(a) ==
    /\ Move(a, "running", "failed") /\ a \notin ToSet(public)
    /\ public' = Append(public, a)
    /\ UNCHANGED answer

Answer(a) ==
    /\ Move(a, "running", "done")
    /\ \E d \in ToSet(public) :
        /\ a \in ToSet(public) => d = a
        /\ answer' = [answer EXCEPT ![a] = d]
    /\ UNCHANGED public

Fail(a) == Move(a, "running", "failed") /\ UNCHANGED <<public, answer>>

Next == \E a \in Attempts :
            Begin(a) \/ Publish(a) \/ PublishAndFail(a) \/ Answer(a) \/ Fail(a)

Spec == Init /\ [][Next]_vars /\ \A a \in Attempts : WF_vars(Answer(a) \/ Fail(a))

=============================================================================

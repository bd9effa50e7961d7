-------------------------- MODULE CredentialStatus --------------------------
(***************************************************************************)
(* What the revocation of credentials promises, however requests overlap   *)
(* and fail: a credential is marked, and the mark may be taken back until  *)
(* a transaction carries it; from then on there is no way back, and nobody *)
(* is told that it was published before the ledger has it.                 *)
(***************************************************************************)
CONSTANT Creds

VARIABLES
    pending,  \* marked for revocation
    sent,     \* in a transaction
    ledger,   \* revoked on the ledger
    told      \* named by an answer to publish-revocations

vars == <<pending, sent, ledger, told>>

Init ==
    /\ pending \in SUBSET Creds
    /\ sent = {} /\ ledger = {} /\ told = {}

Mark(S) ==
    /\ S \cap sent = {}
    /\ pending' = pending \cup S
    /\ UNCHANGED <<sent, ledger, told>>

Unmark(S) ==
    /\ pending' = pending \ S
    /\ UNCHANGED <<sent, ledger, told>>

Send(S) ==
    /\ S \cap sent = {}
    /\ sent' = sent \cup S
    /\ pending' = pending \ S
    /\ UNCHANGED <<ledger, told>>

Write(S) ==
    /\ S \subseteq sent
    /\ ledger' = ledger \cup S
    /\ UNCHANGED <<pending, sent, told>>

Tell(S) ==
    /\ S \subseteq ledger
    /\ told' = told \cup S
    /\ UNCHANGED <<pending, sent, ledger>>

Next == \E S \in SUBSET Creds : Mark(S) \/ Unmark(S) \/ Send(S) \/ Write(S) \/ Tell(S)

Spec == Init /\ [][Next]_vars

=============================================================================

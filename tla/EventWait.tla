----------------------------- MODULE EventWait ------------------------------
(***************************************************************************)
(* What waiting for an event promises a client: the stream carries at most *)
(* one event, one that matches and that was published in the time looked   *)
(* back on or later; it ends, without an error, only when the client has   *)
(* its event or when the time for waiting is over.                         *)
(***************************************************************************)
EXTENDS Integers, Sequences

VARIABLES
    log,        \* the events published, in order: the kind of each
    start,      \* the events at positions up to start are too old
    timeUp,     \* the time for waiting is over
    client,     \* "none", "waiting", "done", "gone" or "broken"
    received    \* the position of the event the client has, 0 for none

vars == <<log, start, timeUp, client, received>>

Matches == {p \in (start + 1)..Len(log) : log[p] = "match"}

Init ==
    /\ log = <<>> /\ start = 0 /\ timeUp = FALSE
    /\ client = "none" /\ received = 0

Publish ==
    /\ \E kind \in {"match", "other", "bad"} : log' = Append(log, kind)
    /\ UNCHANGED <<start, timeUp, client, received>>

Open ==
    /\ client = "none"
    /\ client' = "waiting"
    /\ start' \in 0..Len(log)
    /\ UNCHANGED <<log, timeUp, received>>

TimePasses ==
    /\ client # "none"
    /\ timeUp' = TRUE
    /\ UNCHANGED <<log, start, client, received>>

Deliver ==
    /\ client = "waiting" /\ received = 0
    /\ received' \in Matches
    /\ UNCHANGED <<log, start, timeUp, client>>

End ==
    /\ client = "waiting"
    /\ received # 0 \/ timeUp
    /\ client' = "done"
    /\ UNCHANGED <<log, start, timeUp, received>>

GiveUp ==
    /\ client = "waiting"
    /\ client' \in {"gone", "broken"}
    /\ UNCHANGED <<log, start, timeUp, received>>

Next == Publish \/ Open \/ TimePasses \/ Deliver \/ End \/ GiveUp

Spec == Init /\ [][Next]_vars
=============================================================================

------------------------ MODULE AtLeastOnceConsumer -------------------------
(***************************************************************************)
(* What a consumer of a durable stream promises: it processes published    *)
(* events, possibly more than once, and acknowledges only events it has    *)
(* processed.  Processing an event again changes nothing here.             *)
(***************************************************************************)
CONSTANT Events
VARIABLES published, processed, acknowledged

vars == <<published, processed, acknowledged>>

Init == published = {} /\ processed = {} /\ acknowledged = {}

Publish(e) ==
    /\ e \notin published
    /\ published' = published \cup {e}
    /\ UNCHANGED <<processed, acknowledged>>

Process(e) ==
    /\ e \in published
    /\ processed' = processed \cup {e}
    /\ UNCHANGED <<published, acknowledged>>

Acknowledge(e) ==
    /\ e \in processed
    /\ acknowledged' = acknowledged \cup {e}
    /\ UNCHANGED <<published, processed>>

Next == \E e \in Events : Publish(e) \/ Process(e) \/ Acknowledge(e)

Spec == Init /\ [][Next]_vars
=============================================================================

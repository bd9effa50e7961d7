---------------------------- MODULE EventStream -----------------------------
(***************************************************************************)
(* A client waits for one event: the app relays the stream of server-sent  *)
(* events of a waypoint replica, which reads a durable stream of NATS by a *)
(* pull subscription.                                                      *)
(*                                                                         *)
(* A position of log is an event of the subject subscribed to; its kind    *)
(* says whether its payload has the field the client waits for ("match"),  *)
(* has not ("other"), or is no event at all ("bad").  The batch in hand is *)
(* a set of positions, read in order.  timeUp stands for the clock: it may *)
(* become true once the loop of event_generator has begun.  stop_event is  *)
(* no variable: whoever sets it leaves the loop in the same step, so the   *)
(* loop's own test of it never sees it set.                                *)
(***************************************************************************)
EXTENDS Integers, Sequences, FiniteSets

CONSTANTS
    MaxEvents,      \* bound on the events published
    BatchSize,      \* messages asked for by one fetch: 5 in the code
    Faults,         \* the kinds of fault that may occur
    MaxFaults       \* bound on their number

FaultKinds ==
    {"timeout",     \* TimeoutError: the connection to NATS is lost
     "lost",        \* messages or an acknowledgement lost on the way
     "error",       \* any other exception of a call to NATS
     "crash",       \* the waypoint replica is killed
     "relay"}       \* the transport between the app and waypoint fails

ASSUME StreamAssumption ==
    /\ MaxEvents \in Nat /\ MaxFaults \in Nat
    /\ BatchSize \in Nat \ {0}
    /\ Faults \subseteq FaultKinds

Kinds == {"match", "other", "bad"}

VARIABLES
    log, start, timeUp,
    pc, failed,             \* of the generator in waypoint
    subs, current,          \* subscriptions open at NATS; the one in use
    outstanding, acked,     \* positions its consumer has delivered, has acks of
    batch,                  \* messages fetched and not yet handled
    sent,                   \* the position of the event sent to the app
    relay, client, received,
    faults

nats     == <<subs, current, outstanding, acked>>
waypoint == <<pc, failed, batch, sent>>
app      == <<relay, client, received>>
vars     == <<log, start, timeUp, nats, waypoint, app, faults>>

Init ==
    /\ log = <<>> /\ start = 0 /\ timeUp = FALSE
    /\ pc = "idle" /\ failed = FALSE /\ batch = {} /\ sent = 0
    /\ subs = {} /\ current = 0 /\ outstanding = {} /\ acked = {}
    /\ relay = "closed" /\ client = "none" /\ received = 0
    /\ faults = 0

Fault(kind) ==
    /\ kind \in Faults /\ faults < MaxFaults
    /\ faults' = faults + 1

-----------------------------------------------------------------------------
(* The world around: events, the clock, NATS.                              *)

Publish(kind) ==
    /\ Len(log) < MaxEvents
    /\ log' = Append(log, kind)
    /\ UNCHANGED <<start, timeUp, nats, waypoint, app, faults>>

(* end_time is fixed when the loop begins, after the first subscription.   *)
TimePasses ==
    /\ ~timeUp
    /\ current # 0 /\ pc \notin {"closing", "ended"}
    /\ timeUp' = TRUE
    /\ UNCHANGED <<log, start, nats, waypoint, app, faults>>

(* What is not acknowledged in time is delivered again.                    *)
AckWaitExpires ==
    /\ \E p \in outstanding : outstanding' = outstanding \ {p}
    /\ UNCHANGED <<log, start, timeUp, subs, current, acked, waypoint, app, faults>>

-----------------------------------------------------------------------------
(* Waypoint: nats_event_stream_generator, process_events, event_generator. *)

(* A request comes from a client over the app: look_back is a position.    *)
Open ==
    /\ pc = "idle"
    /\ start' \in 0..Len(log)
    /\ pc' = "subscribe"
    /\ relay' = "open" /\ client' = "waiting"
    /\ UNCHANGED <<log, timeUp, nats, failed, batch, sent, received, faults>>

Fail == pc' = "closing" /\ failed' = TRUE

(* As if a new consumer were given what is published from now on only.     *)
SubscribeFromNow ==
    /\ pc = "subscribe"
    /\ current' = current + 1
    /\ subs' = subs \cup {current'}
    /\ outstanding' = {}
    /\ acked' = IF current = 0 THEN {} ELSE 1..Len(log)
    /\ pc' = "loop"
    /\ UNCHANGED <<log, start, timeUp, failed, batch, sent, app, faults>>

(* A new consumer begins at start_time, whatever one before it delivered.  *)
Subscribe ==
    /\ pc = "subscribe"
    /\ current' = current + 1
    /\ subs' = subs \cup {current'}
    /\ outstanding' = {} /\ acked' = {}
    /\ pc' = "loop"
    /\ UNCHANGED <<log, start, timeUp, failed, batch, sent, app, faults>>

(* TimeoutError is retried for ever, whatever the time; others are raised. *)
SubscribeFails ==
    /\ pc = "subscribe"
    /\ \/ Fault("timeout") /\ UNCHANGED <<pc, failed>>
       \/ Fault("error") /\ Fail
    /\ UNCHANGED <<log, start, timeUp, nats, batch, sent, app>>

(* As if fetches that time out were left to end the loop.                  *)
CheckNothing ==
    /\ pc = "loop"
    /\ pc' = "fetch"
    /\ UNCHANGED <<log, start, timeUp, nats, failed, batch, sent, app, faults>>

CheckTime ==
    /\ pc = "loop"
    /\ pc' = IF timeUp THEN "closing" ELSE "fetch"
    /\ UNCHANGED <<log, start, timeUp, nats, failed, batch, sent, app, faults>>

(* As if the consumer had no opt_start_time.                               *)
DeliverableAll == (1..Len(log)) \ (outstanding \cup acked)

(* What the consumer in use may deliver from start_time on.                *)
Deliverable == ((start + 1)..Len(log)) \ (outstanding \cup acked)

(* The earliest of the positions that the consumer may deliver.            *)
Batches ==
    {b \in SUBSET Deliverable :
        /\ b # {} /\ Cardinality(b) <= BatchSize
        /\ \A p \in b, q \in Deliverable \ b : p < q}

(* A fetch of nothing raises FetchTimeoutError, and the loop goes on.      *)
Fetch ==
    /\ pc = "fetch"
    /\ \/ /\ Deliverable = {}
          /\ pc' = "loop"
          /\ UNCHANGED <<batch, outstanding>>
       \/ /\ batch' \in Batches
          /\ outstanding' = outstanding \cup batch'
          /\ pc' = "batch"
    /\ UNCHANGED <<log, start, timeUp, subs, current, acked, failed, sent, app, faults>>

(* What NATS delivered may be lost with the call.                          *)
FetchFails ==
    /\ pc = "fetch"
    /\ outstanding' \in {outstanding \cup b : b \in Batches \cup {{}}}
    /\ \/ Fault("lost") /\ pc' = "loop" /\ UNCHANGED failed
       \/ Fault("timeout") /\ pc' = "unsubscribe" /\ UNCHANGED failed
       \/ Fault("error") /\ Fail
    /\ UNCHANGED <<log, start, timeUp, subs, current, acked, batch, sent, app>>

(* As if the subscription that lost its connection were just replaced.     *)
UnsubscribeForgotten ==
    /\ pc = "unsubscribe"
    /\ pc' = "subscribe"
    /\ UNCHANGED <<log, start, timeUp, nats, failed, batch, sent, app, faults>>

(* BadSubscriptionError is logged, and the subscription is gone as well.   *)
Unsubscribe ==
    /\ pc = "unsubscribe"
    /\ \/ subs' = subs \ {current} /\ pc' = "subscribe" /\ UNCHANGED <<failed, faults>>
       \/ Fault("error") /\ Fail /\ UNCHANGED subs
    /\ UNCHANGED <<log, start, timeUp, current, outstanding, acked, batch, sent, app>>

IsNext(p) == p \in batch /\ \A q \in batch : p <= q

(* As if the field of the payload were not compared.                       *)
SendAny ==
    /\ pc = "batch"
    /\ \E p \in batch : IsNext(p) /\ log[p] # "bad" /\ sent' = p
    /\ pc' = "closing" /\ batch' = {}
    /\ UNCHANGED <<log, start, timeUp, nats, failed, app, faults>>

(* The event is sent and the loop left: a match is never acknowledged.     *)
SendMatch ==
    /\ pc = "batch"
    /\ \E p \in batch : IsNext(p) /\ log[p] = "match" /\ sent' = p
    /\ pc' = "closing" /\ batch' = {}
    /\ UNCHANGED <<log, start, timeUp, nats, failed, app, faults>>

(* An acknowledgement may be lost, or fail with an exception.              *)
AckOther ==
    /\ pc = "batch"
    /\ \E p \in batch :
          /\ IsNext(p) /\ log[p] = "other"
          /\ batch' = batch \ {p}
          /\ \/ /\ acked' = acked \cup {p}
                /\ outstanding' = outstanding \ {p}
                /\ pc' = IF batch' = {} THEN "loop" ELSE "batch"
                /\ UNCHANGED <<failed, faults>>
             \/ /\ Fault("lost")
                /\ pc' = IF batch' = {} THEN "loop" ELSE "batch"
                /\ UNCHANGED <<acked, outstanding, failed>>
             \/ /\ Fault("error") /\ Fail
                /\ UNCHANGED <<acked, outstanding>>
    /\ UNCHANGED <<log, start, timeUp, subs, current, sent, app>>

(* What cannot be parsed ends the stream.                                  *)
RejectBad ==
    /\ pc = "batch"
    /\ \E p \in batch : IsNext(p) /\ log[p] = "bad"
    /\ Fail /\ batch' = {}
    /\ UNCHANGED <<log, start, timeUp, nats, sent, app, faults>>

(* The app is gone: seen when an event is in hand, or by a cancellation,   *)
(* which event_generator turns into the end of the stream.                 *)
Disconnected ==
    /\ relay = "closed"
    /\ pc \notin {"idle", "closing", "ended"}
    /\ pc' = "closing" /\ batch' = {}
    /\ UNCHANGED <<log, start, timeUp, nats, failed, sent, app, faults>>

(* process_events knows the first subscription only: the one made after a  *)
(* TimeoutError is bound to the parameter of event_generator.  Errors      *)
(* other than BadSubscriptionError break the stream.                       *)
Close ==
    /\ pc = "closing"
    /\ pc' = "ended"
    /\ \/ subs' = subs \ {1} /\ UNCHANGED <<failed, faults>>
       \/ Fault("error") /\ failed' = TRUE /\ UNCHANGED subs
    /\ UNCHANGED <<log, start, timeUp, current, outstanding, acked, batch, sent, app>>

Crash ==
    /\ pc \notin {"idle", "ended"}
    /\ Fault("crash")
    /\ pc' = "ended" /\ failed' = TRUE /\ batch' = {} /\ subs' = {}
    /\ UNCHANGED <<log, start, timeUp, current, outstanding, acked, sent, app>>

-----------------------------------------------------------------------------
(* The app: sse_subscribe_event_with_field_and_state; and the client.      *)

(* The line of the event, or a ping, finds the client gone or waiting.     *)
RelayLine ==
    /\ relay = "open"
    /\ \/ /\ client = "waiting" /\ received # sent
          /\ received' = sent
          /\ UNCHANGED relay
       \/ /\ client = "gone"
          /\ relay' = "closed"
          /\ UNCHANGED received
    /\ UNCHANGED <<log, start, timeUp, nats, waypoint, client, faults>>

(* As if the lines still buffered were dropped at the end.                 *)
RelayEndEarly ==
    /\ relay = "open" /\ client = "waiting"
    /\ pc = "ended" /\ ~failed
    /\ relay' = "closed" /\ client' = "done"
    /\ UNCHANGED <<log, start, timeUp, nats, waypoint, received, faults>>

RelayEnd ==
    /\ relay = "open" /\ client = "waiting"
    /\ pc = "ended" /\ ~failed /\ received = sent
    /\ relay' = "closed" /\ client' = "done"
    /\ UNCHANGED <<log, start, timeUp, nats, waypoint, received, faults>>

(* A stream cut short raises HTTPError, and the client's is cut as well.   *)
RelayBreaks ==
    /\ relay = "open"
    /\ \/ pc = "ended" /\ failed /\ UNCHANGED faults
       \/ Fault("relay")
    /\ relay' = "closed"
    /\ client' = IF client = "waiting" THEN "broken" ELSE client
    /\ UNCHANGED <<log, start, timeUp, nats, waypoint, received>>

ClientLeaves ==
    /\ client = "waiting"
    /\ client' = "gone"
    /\ UNCHANGED <<log, start, timeUp, nats, waypoint, relay, received, faults>>

-----------------------------------------------------------------------------
Generator ==
    \/ Subscribe \/ SubscribeFails \/ CheckTime \/ Fetch \/ FetchFails
    \/ Unsubscribe \/ SendMatch \/ AckOther \/ RejectBad \/ Close

Relay == RelayLine \/ RelayEnd \/ RelayBreaks

Next ==
    \/ \E kind \in Kinds : Publish(kind)
    \/ TimePasses \/ AckWaitExpires
    \/ Open \/ Generator \/ Disconnected \/ Crash
    \/ Relay \/ ClientLeaves

Spec == Init /\ [][Next]_vars

(* The event loops run what is ready, and NATS delivers again what is not  *)
(* acknowledged.  Nothing makes events, time or clients move.              *)
FairSpec ==
    Spec /\ WF_vars(Generator) /\ WF_vars(Relay) /\ WF_vars(AckWaitExpires)

-----------------------------------------------------------------------------
(* Type invariant of the stream's state.                                   *)
TypeOK ==
    /\ log \in Seq(Kinds) /\ Len(log) <= MaxEvents
    /\ start \in 0..Len(log)
    /\ timeUp \in BOOLEAN /\ failed \in BOOLEAN
    /\ pc \in {"idle", "subscribe", "loop", "fetch", "batch", "unsubscribe",
               "closing", "ended"}
    /\ current \in Nat /\ subs \subseteq 1..current
    /\ outstanding \subseteq 1..Len(log) /\ acked \subseteq 1..Len(log)
    /\ batch \subseteq (start + 1)..Len(log)
    /\ sent \in 0..Len(log) /\ received \in {0, sent}
    /\ relay \in {"open", "closed"}
    /\ client \in {"none", "waiting", "done", "gone", "broken"}
    /\ faults \in 0..MaxFaults

(* However often a connection is lost, a stream holds no subscription      *)
(* besides the one it reads: the old one is given up before a new one is   *)
(* made (the handler of TimeoutError in event_generator).                  *)
OneSubscription ==
    /\ subs \subseteq {current}
    /\ pc = "subscribe" => subs = {}

(* The client gets what EventWait promises, through both services.         *)
EW == INSTANCE EventWait
ImplementsEventWait == EW!Spec

(* An event that matches reaches the client, although messages, their      *)
(* acknowledgements and connections may be lost: unless time runs out, the *)
(* stream breaks, or the client leaves.                                    *)
MatchReachesClient ==
    (client = "waiting" /\ EW!Matches # {})
        ~> (received # 0 \/ timeUp \/ client \in {"gone", "broken"})

(* A stream ends once its time is over, whatever was lost or is published. *)
StreamEnds == timeUp ~> (pc = "ended")

(* What "Subscription closed" of process_events says: a stream that ended  *)
(* leaves no subscription behind.                                          *)
NothingLeftSubscribed == pc = "ended" => subs = {}
=============================================================================

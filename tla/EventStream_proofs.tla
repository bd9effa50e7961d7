------------------------- MODULE EventStream_proofs -------------------------
(***************************************************************************)
(* Proofs about EventStream for every number of events, every size of a    *)
(* batch and every choice of faults.                                       *)
(***************************************************************************)
EXTENDS EventStream, TLAPS

Over == {"closing", "ended"}

\* Nothing is sent before the loop is left, and what is sent is a match.
SentIsMatch ==
    /\ pc \notin Over => sent = 0
    /\ sent # 0 => sent \in EW!Matches

\* The client waits exactly while the app holds the stream open for it.
OpenForClient ==
    /\ pc = "idle" <=> client = "none"
    /\ pc = "idle" => current = 0 /\ batch = {}
    /\ client = "waiting" => relay = "open"

\* A generator that ends without an error has a reason to.
EndsForReason ==
    pc \in Over /\ ~failed => sent # 0 \/ timeUp \/ relay = "closed"

IInv == TypeOK /\ OneSubscription /\ SentIsMatch /\ OpenForClient /\ EndsForReason

-----------------------------------------------------------------------------
\* The stream has nothing to its name initially.
LEMMA InitInv == Init => IInv
<1> SUFFICES ASSUME Init PROVE IInv
  OBVIOUS
<1> USE DEF Init
<1>1. TypeOK
  <2>1. log \in Seq(Kinds) /\ Len(log) = 0
    OBVIOUS
  <2>2. 0 <= MaxEvents /\ 0 \in 0..MaxFaults
    BY StreamAssumption
  <2>3. start \in 0..Len(log) /\ sent \in 0..Len(log) /\ current \in Nat
    BY <2>1
  <2>4. /\ subs \subseteq 1..current /\ batch \subseteq (start + 1)..Len(log)
        /\ outstanding \subseteq 1..Len(log) /\ acked \subseteq 1..Len(log)
    OBVIOUS
  <2>5. /\ timeUp \in BOOLEAN /\ failed \in BOOLEAN /\ received \in {0, sent}
        /\ Len(log) <= MaxEvents
    BY <2>1, <2>2
  <2> QED BY <2>1, <2>2, <2>3, <2>4, <2>5 DEF TypeOK
<1>2. OneSubscription /\ SentIsMatch /\ OpenForClient /\ EndsForReason
  BY DEF OneSubscription, SentIsMatch, OpenForClient, EndsForReason, Over
<1> QED BY <1>1, <1>2 DEF IInv

\* An appended event leaves those before it as they are.
LEMMA AppendKeeps ==
    ASSUME NEW s \in Seq(Kinds), NEW kind \in Kinds
    PROVE  /\ Append(s, kind) \in Seq(Kinds)
           /\ Len(s) \in Nat /\ Len(Append(s, kind)) = Len(s) + 1
           /\ \A i \in 1..Len(s) : Append(s, kind)[i] = s[i]
OBVIOUS

\* Publishing keeps the invariant: a match remains one.
LEMMA PublishInv ==
    ASSUME IInv, NEW kind \in Kinds, Publish(kind)
    PROVE  IInv'
<1> USE DEF IInv
<1>1. /\ log' \in Seq(Kinds) /\ Len(log) \in Nat /\ Len(log') = Len(log) + 1
      /\ \A i \in 1..Len(log) : log'[i] = log[i]
  BY AppendKeeps DEF TypeOK, Publish
<1>2. /\ UNCHANGED <<start, timeUp, nats, waypoint, app, faults>>
      /\ Len(log) < MaxEvents
  BY DEF Publish
<1>3. TypeOK'
  BY <1>1, <1>2, StreamAssumption DEF TypeOK, nats, waypoint, app
<1>4. SentIsMatch'
  BY <1>1, <1>2 DEF SentIsMatch, EW!Matches, TypeOK, nats, waypoint, app, Over
<1>5. OneSubscription' /\ OpenForClient' /\ EndsForReason'
  BY <1>2 DEF OneSubscription, OpenForClient, EndsForReason, nats, waypoint, app, Over
<1> QED BY <1>3, <1>4, <1>5

\* A fault counts up to its bound.
LEMMA FaultCounts ==
    ASSUME TypeOK, NEW kind, Fault(kind)
    PROVE  faults' \in 0..MaxFaults
BY StreamAssumption DEF TypeOK, Fault

\* Of the steps that leave the log alone, each keeps the types.
LEMMA TypeStep ==
    ASSUME IInv, Next, \A kind \in Kinds : ~Publish(kind)
    PROVE  TypeOK' /\ log' = log
<1> USE DEF IInv, TypeOK, nats, waypoint, app
<1>0. Len(log) \in Nat /\ faults \in Nat
  BY StreamAssumption
<1>1. CASE TimePasses
  BY <1>1 DEF TimePasses
<1>2. CASE AckWaitExpires
  BY <1>2 DEF AckWaitExpires
<1>3. CASE Open
  BY <1>3, <1>0 DEF Open, SentIsMatch, OpenForClient, Over
<1>4. CASE Subscribe
  BY <1>4 DEF Subscribe
<1>5. CASE SubscribeFails
  BY <1>5, FaultCounts DEF SubscribeFails, Fail
<1>6. CASE CheckTime
  BY <1>6 DEF CheckTime
<1>7. CASE Fetch
  <2>1. CASE Deliverable = {} /\ pc' = "loop" /\ UNCHANGED <<batch, outstanding>>
    BY <1>7, <2>1 DEF Fetch
  <2>2. CASE batch' \in Batches /\ outstanding' = outstanding \cup batch' /\ pc' = "batch"
    <3>1. batch' \subseteq (start + 1)..Len(log)
      BY <2>2 DEF Batches, Deliverable
    <3>2. batch' \subseteq 1..Len(log)
      BY <3>1, <1>0
    <3> QED BY <1>7, <2>2, <3>1, <3>2 DEF Fetch
  <2> QED BY <1>7, <2>1, <2>2 DEF Fetch
<1>8. CASE FetchFails
  <2>1. \A b \in Batches \cup {{}} : b \subseteq 1..Len(log)
    BY <1>0 DEF Batches, Deliverable
  <2>2. outstanding' \subseteq 1..Len(log)
    BY <1>8, <2>1 DEF FetchFails
  <2> QED BY <1>8, <2>2, FaultCounts DEF FetchFails, Fail
<1>9. CASE Unsubscribe
  BY <1>9, FaultCounts DEF Unsubscribe, Fail
<1>10. CASE SendMatch
  <2>1. PICK p \in batch : sent' = p
    BY <1>10 DEF SendMatch
  <2>2. sent' \in 0..Len(log)
    BY <2>1, <1>0
  <2>3. sent = 0
    BY <1>10 DEF SendMatch, SentIsMatch, Over
  <2> QED BY <1>10, <2>2, <2>3 DEF SendMatch
<1>11. CASE AckOther
  <2>1. PICK p \in batch :
          /\ batch' = batch \ {p}
          /\ \/ acked' = acked \cup {p} /\ outstanding' = outstanding \ {p}
             \/ UNCHANGED <<acked, outstanding>>
          /\ pc' \in {"loop", "batch", "closing"}
          /\ failed' \in BOOLEAN
          /\ faults' \in 0..MaxFaults
    BY <1>11, FaultCounts DEF AckOther, Fail
  <2>2. p \in 1..Len(log)
    BY <1>0, <2>1
  <2>3. acked' \subseteq 1..Len(log) /\ outstanding' \subseteq 1..Len(log)
    BY <2>1, <2>2
  <2> QED BY <1>11, <2>1, <2>3 DEF AckOther
<1>12. CASE RejectBad
  BY <1>12 DEF RejectBad, Fail
<1>13. CASE Close
  BY <1>13, FaultCounts DEF Close
<1>14. CASE Disconnected
  BY <1>14 DEF Disconnected
<1>15. CASE Crash
  BY <1>15, FaultCounts DEF Crash
<1>16. CASE RelayLine
  BY <1>16 DEF RelayLine
<1>17. CASE RelayEnd
  BY <1>17 DEF RelayEnd
<1>18. CASE RelayBreaks
  BY <1>18, FaultCounts DEF RelayBreaks
<1>19. CASE ClientLeaves
  BY <1>19 DEF ClientLeaves
<1> QED
  BY <1>1, <1>2, <1>3, <1>4, <1>5, <1>6, <1>7, <1>8, <1>9, <1>10, <1>11, <1>12,
     <1>13, <1>14, <1>15, <1>16, <1>17, <1>18, <1>19 DEF Next, Generator, Relay

\* Of the steps that leave the log alone, each keeps one subscription.
LEMMA SubscriptionStep ==
    ASSUME IInv, Next, \A kind \in Kinds : ~Publish(kind)
    PROVE  OneSubscription'
<1> USE DEF IInv, OneSubscription, nats, waypoint, app
<1>1. CASE Subscribe
  BY <1>1 DEF Subscribe
<1>2. CASE SubscribeFails
  BY <1>2 DEF SubscribeFails, Fail
<1>3. CASE CheckTime \/ Fetch \/ FetchFails
  BY <1>3 DEF CheckTime, Fetch, FetchFails, Fail
<1>4. CASE Unsubscribe
  BY <1>4 DEF Unsubscribe, Fail
<1>5. CASE SendMatch \/ RejectBad
  BY <1>5 DEF SendMatch, RejectBad, Fail
<1>6. CASE AckOther
  BY <1>6 DEF AckOther, Fail
<1>7. CASE Close \/ Disconnected \/ Crash
  BY <1>7 DEF Close, Disconnected, Crash
<1>8. CASE TimePasses \/ AckWaitExpires \/ Relay \/ ClientLeaves
  BY <1>8 DEF TimePasses, AckWaitExpires, Relay, RelayLine, RelayEnd, RelayBreaks,
     ClientLeaves
<1>9. CASE Open
  BY <1>9 DEF Open, OpenForClient, TypeOK
<1> QED
  BY <1>1, <1>2, <1>3, <1>4, <1>5, <1>6, <1>7, <1>8, <1>9 DEF Next, Generator

\* Of the steps that leave the log alone, each keeps what the ends rest on.
LEMMA ReasonStep ==
    ASSUME IInv, Next, \A kind \in Kinds : ~Publish(kind)
    PROVE  SentIsMatch' /\ OpenForClient' /\ EndsForReason'
<1>0. log' = log /\ TypeOK /\ Len(log) \in Nat
  BY TypeStep DEF IInv, TypeOK
<1> USE <1>0 DEF IInv, SentIsMatch, OpenForClient, EndsForReason, Over, EW!Matches,
                 nats, waypoint, app
<1>1. CASE Open
  BY <1>1 DEF Open
<1>2. CASE Subscribe
  BY <1>2 DEF Subscribe
<1>3. CASE SubscribeFails
  BY <1>3 DEF SubscribeFails, Fail
<1>4. CASE CheckTime
  BY <1>4 DEF CheckTime
<1>5. CASE Fetch
  BY <1>5 DEF Fetch
<1>6. CASE FetchFails
  BY <1>6 DEF FetchFails, Fail
<1>7. CASE Unsubscribe
  BY <1>7 DEF Unsubscribe, Fail
<1>8. CASE SendMatch
  <2>1. PICK p \in batch : log[p] = "match" /\ sent' = p
    BY <1>8 DEF SendMatch
  <2>2. p \in (start + 1)..Len(log) /\ start \in Nat
    BY <2>1 DEF TypeOK
  <2>3. sent' # 0 /\ sent' \in EW!Matches'
    BY <1>8, <2>1, <2>2 DEF SendMatch
  <2> QED BY <1>8, <2>3 DEF SendMatch
<1>9. CASE AckOther
  BY <1>9 DEF AckOther, Fail
<1>10. CASE RejectBad
  BY <1>10 DEF RejectBad, Fail
<1>11. CASE Close
  BY <1>11 DEF Close
<1>12. CASE Disconnected
  BY <1>12 DEF Disconnected
<1>13. CASE Crash
  BY <1>13 DEF Crash
<1>14. CASE TimePasses
  BY <1>14 DEF TimePasses
<1>15. CASE AckWaitExpires
  BY <1>15 DEF AckWaitExpires
<1>16. CASE RelayLine
  BY <1>16 DEF RelayLine
<1>17. CASE RelayEnd
  BY <1>17 DEF RelayEnd
<1>18. CASE RelayBreaks
  BY <1>18 DEF RelayBreaks, TypeOK
<1>19. CASE ClientLeaves
  BY <1>19 DEF ClientLeaves
<1> QED
  BY <1>1, <1>2, <1>3, <1>4, <1>5, <1>6, <1>7, <1>8, <1>9, <1>10, <1>11, <1>12,
     <1>13, <1>14, <1>15, <1>16, <1>17, <1>18, <1>19 DEF Next, Generator, Relay

\* Every step keeps the invariant.
LEMMA StepInv == IInv /\ [Next]_vars => IInv'
<1>1. ASSUME IInv, NEW kind \in Kinds, Publish(kind) PROVE IInv'
  BY <1>1, PublishInv
<1>2. ASSUME IInv, Next, \A kind \in Kinds : ~Publish(kind) PROVE IInv'
  BY <1>2, TypeStep, SubscriptionStep, ReasonStep DEF IInv
<1>3. ASSUME IInv, UNCHANGED vars PROVE IInv'
  <2>1. UNCHANGED <<log, start, timeUp, subs, current, outstanding, acked, pc, failed,
                    batch, sent, relay, client, received, faults>>
    BY <1>3 DEF vars, nats, waypoint, app
  <2>2. TypeOK' /\ OneSubscription'
    BY <1>3, <2>1 DEF IInv, TypeOK, OneSubscription
  <2>3. SentIsMatch' /\ OpenForClient' /\ EndsForReason'
    BY <1>3, <2>1 DEF IInv, SentIsMatch, OpenForClient, EndsForReason, Over, EW!Matches
  <2> QED BY <2>2, <2>3 DEF IInv
<1> QED BY <1>1, <1>2, <1>3

\* The invariant holds throughout.
LEMMA Invariance == Spec => []IInv
BY InitInv, StepInv, PTL DEF Spec

-----------------------------------------------------------------------------
\* The state of a stream has its types, for every log, batch and fault.
THEOREM TypeCorrect == Spec => []TypeOK
<1>1. IInv => TypeOK
  BY DEF IInv
<1> QED BY <1>1, Invariance, PTL

\* A stream holds one subscription at most, however often it loses one: the
\* handler of TimeoutError gives up the old one before it makes another.
THEOREM HoldsOneSubscription == Spec => []OneSubscription
<1>1. IInv => OneSubscription
  BY DEF IInv
<1> QED BY <1>1, Invariance, PTL

\* A step of the two services is one of what the client is promised, or none.
LEMMA StepImplements == IInv /\ [Next]_vars => [EW!Next]_(EW!vars)
<1> SUFFICES ASSUME IInv, [Next]_vars PROVE EW!Next \/ UNCHANGED EW!vars
  OBVIOUS
<1> USE DEF EW!vars, nats, waypoint, app
<1>1. CASE \E kind \in Kinds : Publish(kind)
  BY <1>1 DEF Publish, EW!Next, EW!Publish, Kinds
<1>2. CASE TimePasses
  <2>1. client # "none"
    BY <1>2 DEF IInv, OpenForClient, TimePasses
  <2> QED BY <1>2, <2>1 DEF TimePasses, EW!Next, EW!TimePasses
<1>3. CASE Open
  BY <1>3 DEF Open, IInv, OpenForClient, EW!Next, EW!Open
<1>4. CASE Subscribe \/ SubscribeFails \/ CheckTime \/ Fetch \/ FetchFails \/ Unsubscribe
  BY <1>4 DEF Subscribe, SubscribeFails, CheckTime, Fetch, FetchFails, Unsubscribe
<1>5. CASE SendMatch \/ AckOther \/ RejectBad \/ Close \/ Disconnected \/ Crash
  BY <1>5 DEF SendMatch, AckOther, RejectBad, Close, Disconnected, Crash
<1>6. CASE AckWaitExpires
  BY <1>6 DEF AckWaitExpires
<1>7. CASE RelayLine
  <2>1. CASE client = "waiting" /\ received # sent /\ received' = sent
    <3>1. received = 0 /\ received' \in EW!Matches
      BY <2>1 DEF IInv, TypeOK, SentIsMatch
    <3> QED BY <1>7, <2>1, <3>1 DEF RelayLine, EW!Next, EW!Deliver
  <2>2. CASE UNCHANGED received
    BY <1>7, <2>2 DEF RelayLine
  <2> QED BY <1>7, <2>1, <2>2 DEF RelayLine
<1>8. CASE RelayEnd
  <2>1. received # 0 \/ timeUp
    BY <1>8 DEF RelayEnd, IInv, EndsForReason, Over
  <2> QED BY <1>8, <2>1 DEF RelayEnd, EW!Next, EW!End
<1>9. CASE RelayBreaks
  <2>1. client = "waiting" => EW!GiveUp
    BY <1>9 DEF RelayBreaks, EW!GiveUp
  <2>2. client # "waiting" => UNCHANGED EW!vars
    BY <1>9 DEF RelayBreaks
  <2> QED BY <2>1, <2>2 DEF EW!Next
<1>10. CASE ClientLeaves
  BY <1>10 DEF ClientLeaves, EW!Next, EW!GiveUp
<1>11. CASE UNCHANGED vars
  BY <1>11 DEF vars
<1> QED
  BY <1>1, <1>2, <1>3, <1>4, <1>5, <1>6, <1>7, <1>8, <1>9, <1>10, <1>11
  DEF Next, Generator, Relay

\* What reaches the client is what EventWait promises: one event at most, a
\* match not older than the time looked back on, and no end without it before
\* the time is over.
THEOREM StreamImplementsEventWait == Spec => ImplementsEventWait
<1>1. Init => EW!Init
  BY DEF Init, EW!Init
<1> QED BY <1>1, StepImplements, Invariance, PTL DEF Spec, ImplementsEventWait, EW!Spec

-----------------------------------------------------------------------------
(* Which subscription can be left behind.                                  *)

\* A stream that ended has given up its first subscription, the one that
\* process_events knows, when no call to NATS raises an unexpected error: what it
\* can leave behind is one that replaced it.
OnlyReplacementsLeak == pc = "ended" /\ current <= 1 => subs = {}

\* Close gives up the first subscription, and one subscription is held at most.
ClosedInv == pc = "ended" => 1 \notin subs

\* The first subscription is given up at the end.
LEMMA ClosedStep ==
    ASSUME "error" \notin Faults
    PROVE  IInv /\ ClosedInv /\ [Next]_vars => ClosedInv'
<1> SUFFICES ASSUME IInv, ClosedInv, [Next]_vars PROVE ClosedInv'
  OBVIOUS
<1> USE DEF ClosedInv, vars, nats, waypoint, app
<1>1. CASE UNCHANGED vars \/ \E kind \in Kinds : Publish(kind)
  BY <1>1 DEF Publish
<1>2. CASE Close \/ Crash
  BY <1>2 DEF Close, Crash, Fault
<1>3. CASE Open \/ Subscribe \/ SubscribeFails \/ CheckTime \/ Fetch \/ FetchFails
           \/ Unsubscribe
  BY <1>3 DEF Open, Subscribe, SubscribeFails, CheckTime, Fetch, FetchFails,
              Unsubscribe, Fail
<1>4. CASE SendMatch \/ AckOther \/ RejectBad \/ Disconnected
  BY <1>4 DEF SendMatch, AckOther, RejectBad, Disconnected, Fail
<1>5. CASE TimePasses \/ AckWaitExpires \/ Relay \/ ClientLeaves
  BY <1>5 DEF TimePasses, AckWaitExpires, Relay, RelayLine, RelayEnd, RelayBreaks,
              ClientLeaves
<1> QED BY <1>1, <1>2, <1>3, <1>4, <1>5 DEF Next, Generator

\* A stream that never lost its connection to NATS leaves nothing behind.
THEOREM FirstSubscriptionIsClosed ==
    ASSUME "error" \notin Faults
    PROVE  Spec => []OnlyReplacementsLeak
<1>1. Init => ClosedInv
  BY DEF Init, ClosedInv
<1>2. IInv /\ ClosedInv => OnlyReplacementsLeak
  BY DEF IInv, TypeOK, OneSubscription, ClosedInv, OnlyReplacementsLeak
<1>3. IInv /\ ClosedInv /\ [Next]_vars => ClosedInv'
  BY ClosedStep
<1> QED BY <1>1, <1>2, <1>3, Invariance, PTL DEF Spec

\* Without a TimeoutError there is no second subscription.
FirstInv ==
    /\ current <= 1
    /\ pc \in {"idle", "subscribe"} => current = 0
    /\ pc # "unsubscribe"

\* No other step subscribes again.
LEMMA FirstStep ==
    ASSUME "timeout" \notin Faults
    PROVE  IInv /\ FirstInv /\ [Next]_vars => FirstInv'
<1> SUFFICES ASSUME IInv, FirstInv, [Next]_vars PROVE FirstInv'
  OBVIOUS
<1> USE DEF FirstInv, vars, nats, waypoint, app, Fault, Fail
<1>1. CASE UNCHANGED vars \/ \E kind \in Kinds : Publish(kind)
  BY <1>1 DEF Publish
<1>2. CASE Close \/ Crash
  BY <1>2 DEF Close, Crash
<1>3. CASE Open \/ Subscribe \/ SubscribeFails \/ CheckTime \/ Fetch \/ FetchFails
           \/ Unsubscribe
  BY <1>3 DEF Open, Subscribe, SubscribeFails, CheckTime, Fetch, FetchFails,
              Unsubscribe
<1>4. CASE SendMatch \/ AckOther \/ RejectBad \/ Disconnected
  BY <1>4 DEF SendMatch, AckOther, RejectBad, Disconnected
<1>5. CASE TimePasses \/ AckWaitExpires \/ Relay \/ ClientLeaves
  BY <1>5 DEF TimePasses, AckWaitExpires, Relay, RelayLine, RelayEnd, RelayBreaks,
              ClientLeaves
<1> QED BY <1>1, <1>2, <1>3, <1>4, <1>5 DEF Next, Generator

\* "Subscription closed" is true of every stream when the connection to NATS is
\* never lost and its calls raise no unexpected error: of these the violated run
\* has the loss only.
THEOREM NothingIsLeftSubscribed ==
    ASSUME "timeout" \notin Faults, "error" \notin Faults
    PROVE  Spec => []NothingLeftSubscribed
<1>1. Init => FirstInv
  BY DEF Init, FirstInv
<1>2. IInv /\ FirstInv /\ [Next]_vars => FirstInv'
  BY FirstStep
<1>3. FirstInv /\ OnlyReplacementsLeak => NothingLeftSubscribed
  BY DEF FirstInv, OnlyReplacementsLeak, NothingLeftSubscribed
<1>4. Spec => []OnlyReplacementsLeak
  BY FirstSubscriptionIsClosed
<1> QED BY <1>1, <1>2, <1>3, <1>4, Invariance, PTL DEF Spec

-----------------------------------------------------------------------------
(* No match is lost.                                                       *)

\* An event that matches stays with NATS, to be delivered or delivered again,
\* whatever was lost: the consumer in use never has an acknowledgement of it.
\* This is the part of MatchReachesClient that needs no fairness.
MatchesAreKept ==
    /\ EW!Matches \cap acked = {}
    /\ EW!Matches \subseteq Deliverable \cup outstanding

\* Only what has not the field is acknowledged.
AckedInv == \A p \in acked : log[p] = "other"

\* A step acknowledges no match and makes none of what is acknowledged.
LEMMA AckedStep == IInv /\ AckedInv /\ [Next]_vars => AckedInv'
<1> SUFFICES ASSUME IInv, AckedInv, [Next]_vars PROVE AckedInv'
  OBVIOUS
<1> USE DEF AckedInv, vars, nats, waypoint, app
<1>1. ASSUME NEW kind \in Kinds, Publish(kind) PROVE AckedInv'
  <2>1. \A i \in 1..Len(log) : log'[i] = log[i]
    BY <1>1, AppendKeeps DEF IInv, TypeOK, Publish
  <2> QED BY <1>1, <2>1 DEF Publish, IInv, TypeOK
<1>2. CASE UNCHANGED vars \/ Open \/ Close \/ Crash
  BY <1>2 DEF Open, Close, Crash
<1>3. CASE Subscribe \/ SubscribeFails \/ CheckTime \/ Fetch \/ FetchFails
           \/ Unsubscribe
  BY <1>3 DEF Subscribe, SubscribeFails, CheckTime, Fetch, FetchFails,
              Unsubscribe
<1>4. CASE SendMatch \/ RejectBad \/ Disconnected
  BY <1>4 DEF SendMatch, RejectBad, Disconnected
<1>5. CASE AckOther
  <2>1. PICK p \in batch : /\ log[p] = "other"
                           /\ acked' = acked \cup {p} \/ UNCHANGED acked
    BY <1>5 DEF AckOther
  <2> QED BY <1>5, <2>1 DEF AckOther
<1>6. CASE TimePasses \/ AckWaitExpires \/ Relay \/ ClientLeaves
  BY <1>6 DEF TimePasses, AckWaitExpires, Relay, RelayLine, RelayEnd, RelayBreaks,
              ClientLeaves
<1> QED BY <1>1, <1>2, <1>3, <1>4, <1>5, <1>6 DEF Next, Generator

\* No event that the client may be waiting for is taken from the stream.
THEOREM MatchesKept == Spec => []MatchesAreKept
<1>1. Init => AckedInv
  BY DEF Init, AckedInv
<1>2. IInv /\ AckedInv => MatchesAreKept
  BY DEF IInv, TypeOK, AckedInv, MatchesAreKept, EW!Matches, Deliverable
<1> QED BY <1>1, <1>2, AckedStep, Invariance, PTL DEF Spec

-----------------------------------------------------------------------------
(* The end of a stream.                                                    *)

\* The order in which a stream passes its labels once its time is over.
Towards == [l \in {"idle", "fetch", "batch", "unsubscribe", "subscribe", "loop",
                   "closing", "ended"} |->
    CASE l = "idle" -> 0        [] l = "fetch" -> 1      [] l = "batch" -> 2
      [] l = "unsubscribe" -> 3 [] l = "subscribe" -> 4  [] l = "loop" -> 5
      [] l = "closing" -> 6     [] l = "ended" -> 7]

\* A step brings the generator nearer to its end, or takes a message from the
\* batch in hand.
Nearer ==
    \/ Towards[pc] < Towards[pc']
    \/ UNCHANGED pc /\ batch' \subseteq batch /\ batch' # batch

\* Once the time is over no step leads the generator away from its end: nothing
\* is fetched any more, and neither events that are published on and on nor a new
\* subscription make the loop start over.  A step of the generator that does
\* not bring it nearer is a fault, the retry of subscribe, which looks at no
\* clock.  This is the part of StreamEnds that needs no fairness.
EndsAfterTime ==
    [][timeUp => \/ Nearer
                 \/ UNCHANGED <<pc, batch>> /\ (Generator => faults' # faults)]_vars

\* The places of the labels.
LEMMA Places ==
    /\ Towards["idle"] = 0 /\ Towards["fetch"] = 1 /\ Towards["batch"] = 2
    /\ Towards["unsubscribe"] = 3 /\ Towards["subscribe"] = 4
    /\ Towards["loop"] = 5 /\ Towards["closing"] = 6 /\ Towards["ended"] = 7
  BY DEF Towards

\* The generator's own steps.
LEMMA NearerGenerator ==
    ASSUME IInv, timeUp, Generator \/ Disconnected \/ Crash \/ Open
    PROVE  Nearer \/ (UNCHANGED <<pc, batch>> /\ faults' # faults)
<1> USE Places DEF Nearer
<1>1. CASE Subscribe
  BY <1>1 DEF Subscribe
<1>2. CASE Close
  BY <1>2 DEF Close
<1>3. CASE SubscribeFails
  <2>1. CASE Fault("timeout") /\ UNCHANGED pc
    BY <1>3, <2>1 DEF SubscribeFails, Fault, IInv, TypeOK
  <2>2. CASE Fail
    BY <1>3, <2>2 DEF SubscribeFails, Fail
  <2> QED BY <1>3, <2>1, <2>2 DEF SubscribeFails
<1>4. CASE FetchFails
  <2>1. pc = "fetch" /\ pc' \in {"loop", "unsubscribe", "closing"}
    BY <1>4 DEF FetchFails, Fail
  <2> QED BY <2>1
<1>5. CASE CheckTime
  BY <1>5 DEF CheckTime
<1>6. CASE Fetch
  <2>1. pc = "fetch" /\ pc' \in {"loop", "batch"}
    BY <1>6 DEF Fetch
  <2> QED BY <2>1
<1>7. CASE Unsubscribe
  <2>1. pc = "unsubscribe" /\ pc' \in {"subscribe", "closing"}
    BY <1>7 DEF Unsubscribe, Fail
  <2> QED BY <2>1
<1>8. CASE SendMatch \/ RejectBad
  <2>1. pc = "batch" /\ pc' = "closing"
    BY <1>8 DEF SendMatch, RejectBad, Fail
  <2> QED BY <2>1
<1>9. CASE AckOther
  <2>1. PICK p \in batch : /\ batch' = batch \ {p}
                           /\ pc' \in {"loop", "batch", "closing"}
    BY <1>9 DEF AckOther, Fail
  <2> QED BY <1>9, <2>1 DEF AckOther
<1>10. CASE Disconnected
  <2>1. pc' = "closing" /\ pc \in {"subscribe", "loop", "fetch", "batch", "unsubscribe"}
    BY <1>10 DEF Disconnected, IInv, TypeOK
  <2> QED BY <2>1
<1>11. CASE Crash
  <2>1. /\ pc' = "ended"
        /\ pc \in {"subscribe", "loop", "fetch", "batch", "unsubscribe", "closing"}
    BY <1>11 DEF Crash, IInv, TypeOK
  <2> QED BY <2>1
<1>12. CASE Open
  BY <1>12 DEF Open
<1> QED
  BY <1>1, <1>2, <1>3, <1>4, <1>5, <1>6, <1>7, <1>8, <1>9, <1>10, <1>11, <1>12
     DEF Generator

\* Once its time is over a stream only moves towards its end.
THEOREM StreamMovesToItsEnd == Spec => EndsAfterTime
<1>1. IInv /\ [Next]_vars =>
        [timeUp => \/ Nearer
                   \/ UNCHANGED <<pc, batch>> /\ (Generator => faults' # faults)]_vars
  <2> SUFFICES ASSUME IInv, Next, timeUp
               PROVE  \/ Nearer
                      \/ UNCHANGED <<pc, batch>> /\ (Generator => faults' # faults)
    OBVIOUS
  <2>1. CASE Generator \/ Disconnected \/ Crash \/ Open
    BY <2>1, NearerGenerator
  <2>2. CASE ~Generator /\ \/ \E kind \in Kinds : Publish(kind)
                           \/ TimePasses \/ AckWaitExpires \/ Relay \/ ClientLeaves
    BY <2>2 DEF Publish, TimePasses, AckWaitExpires, Relay, RelayLine,
                RelayEnd, RelayBreaks, ClientLeaves, waypoint
  <2> QED BY <2>1, <2>2 DEF Next
<1> QED BY <1>1, Invariance, PTL DEF Spec, EndsAfterTime
=============================================================================

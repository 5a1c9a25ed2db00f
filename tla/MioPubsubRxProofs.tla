------------------------- MODULE MioPubsubRxProofs -------------------------
(***************************************************************************)
(* Proofs about MioPubsubRx for any number of receivers, any queue bound   *)
(* and any number of published responses.                                  *)
(***************************************************************************)
EXTENDS MioPubsubRx, Integers, FiniteSetTheorems, TLAPS

-----------------------------------------------------------------------------
(***************************************************************************)
(* Type correctness.                                                       *)
(***************************************************************************)

\* Taking a response off the queue keeps the queue and the history sequences
\* of items, as long as the counter is the length of the list
\* (_mio_pubsub_rx_queue_dequeue).
LEMMA DequeueType ==
    ASSUME rx_queue \in Seq(Items), delivered \in Seq(Items),
           rx_len = Len(rx_queue), Dequeue
    PROVE  /\ rx_queue' \in Seq(Items)
           /\ delivered' \in Seq(Items)
           /\ rx_len' = Len(rx_queue')
           /\ rx_len' \in Nat
           /\ rx_len' < rx_len
           /\ rx_queue # <<>>
<1>1. Len(rx_queue) > 0 /\ rx_queue # <<>>
  BY DEF Dequeue
<1>2. Head(rx_queue) \in Items /\ Tail(rx_queue) \in Seq(Items)
      /\ Len(Tail(rx_queue)) = Len(rx_queue) - 1
  BY <1>1
<1> QED
  BY <1>1, <1>2 DEF Dequeue

\* The part of the inductive invariant about the queue: the counter is exact,
\* bounded, and strictly below the bound while the event thread is about to
\* count it up.
QueueInv ==
    /\ RxTypeOK
    /\ rx_len = Len(rx_queue)
    /\ rx_len <= QueueMaxLen
    /\ ev = "insert" => rx_len < QueueMaxLen
    /\ ev # "idle" => evItem \in Items
    /\ ctl \in {"signal", "delete"} => rx_entry # 0
    /\ ev \in {"readlen", "insert", "replace", "signal"} => evReq # 0
    /\ \A r \in Receivers : rpc[r] \in {"sem", "add", "hook"} => rreq[r] # 0

LEMMA QueueInvInit == RxInit => QueueInv
<1> SUFFICES ASSUME RxInit PROVE QueueInv
  OBVIOUS
<1>1. predicate \in [Requests -> BOOLEAN]
  BY Zenon DEF RxInit
<1>2. /\ request \in [Requests -> {"none", "live", "freed"}]
      /\ rpc \in [Receivers -> RxLocations]
      /\ rreq \in [Receivers -> Requests \cup {0}]
      /\ rret \in [Receivers -> {"none", "ok", "no_response", "too_many"}]
  BY DEF RxInit, RxLocations
<1>3. /\ rx_queue \in Seq(Items)
      /\ delivered \in Seq(Items)
      /\ Len(rx_queue) = 0
  BY DEF RxInit
<1>4. RxTypeOK
  <2>1. rx_len \in Nat /\ published \in 0..MaxItems /\ open_slots \in Nat
    BY RxConstants DEF RxInit
  <2>2. /\ rx_entry \in Requests \cup {0}
        /\ evItem \in Items \cup {0}
        /\ evReq \in Requests \cup {0}
    BY DEF RxInit
  <2>3. /\ rx_listening \in BOOLEAN
        /\ hooked = "none" /\ ev = "idle" /\ ctl = "idle"
    BY Zenon DEF RxInit
  <2> QED
    BY <2>1, <2>2, <2>3, <1>1, <1>2, <1>3, Zenon DEF RxTypeOK
<1> QED
  <2>1. /\ ev = "idle" /\ ctl = "idle" /\ rx_len = 0
        /\ \A r \in Receivers : rpc[r] = "idle"
    BY DEF RxInit
  <2> QED
    BY <2>1, <1>3, <1>4, RxConstants DEF QueueInv

LEMMA QueueInvEvent ==
    ASSUME QueueInv, EventRead \/ EventSteps PROVE QueueInv'
<1> USE DEF QueueInv
<1>1. CASE EventRead
  BY <1>1, RxConstants DEF EventRead, RxTypeOK, queueVars, listenVars, recvVars, Items
<1>2. CASE EventGetRequest
  BY <1>2 DEF EventGetRequest, RxTypeOK, queueVars, listenVars, recvVars
<1>3. CASE EnqueueReadLen
  BY <1>3, RxConstants DEF EnqueueReadLen, RxTypeOK, queueVars, listenVars, recvVars
<1>4. CASE EnqueueInsert
  BY <1>4, RxConstants DEF EnqueueInsert, RxTypeOK, queueVars, listenVars, recvVars
<1>5. CASE EnqueueReplace
  <2>1. CASE rx_queue = <<>>
    BY <1>5, <2>1 DEF EnqueueReplace, RxTypeOK, queueVars, listenVars, recvVars
  <2>2. CASE rx_queue # <<>>
    <3>1. Tail(rx_queue) \in Seq(Items) /\ Len(Tail(rx_queue)) = Len(rx_queue) - 1
      BY <2>2 DEF RxTypeOK
    <3>2. evItem \in Items
      BY <1>5 DEF EnqueueReplace
    <3>3. /\ Append(Tail(rx_queue), evItem) \in Seq(Items)
          /\ Len(Append(Tail(rx_queue), evItem)) = Len(rx_queue)
      BY <3>1, <3>2 DEF RxTypeOK
    <3> QED
      BY <1>5, <2>2, <3>3 DEF EnqueueReplace, RxTypeOK, queueVars, listenVars, recvVars
  <2> QED
    BY <2>1, <2>2
<1>6. CASE EventSignal
  BY <1>6 DEF EventSignal, Signal, RxTypeOK, RxLocations, queueVars, listenVars, recvVars
<1> QED
  BY <1>1, <1>2, <1>3, <1>4, <1>5, <1>6 DEF EventSteps

\* The part of QueueInv about the receivers' own variables.
RecvInv ==
    /\ rpc \in [Receivers -> RxLocations]
    /\ rreq \in [Receivers -> Requests \cup {0}]
    /\ rret \in [Receivers -> {"none", "ok", "no_response", "too_many"}]
    /\ \A r \in Receivers : rpc[r] \in {"sem", "add", "hook"} => rreq[r] # 0

\* A step of a receiver that goes elsewhere with the request it has, or with
\* another one, or that returns, keeps the receivers' part.
LEMMA ReceiverMoves ==
    ASSUME RecvInv, NEW r \in Receivers, NEW l \in RxLocations,
           NEW q \in Requests \cup {0},
           NEW c \in {"none", "ok", "no_response", "too_many"},
           rpc' = [rpc EXCEPT ![r] = l],
           rreq' = rreq \/ rreq' = [rreq EXCEPT ![r] = q],
           rret' = rret \/ rret' = [rret EXCEPT ![r] = c],
           l \in {"sem", "add", "hook"} => rreq'[r] # 0
    PROVE  RecvInv'
<1>1. rpc' \in [Receivers -> RxLocations]
  BY DEF RecvInv
<1>2. rreq' \in [Receivers -> Requests \cup {0}]
  BY DEF RecvInv
<1>3. rret' \in [Receivers -> {"none", "ok", "no_response", "too_many"}]
  BY DEF RecvInv
<1>4. \A u \in Receivers : rpc'[u] \in {"sem", "add", "hook"} => rreq'[u] # 0
  BY DEF RecvInv
<1> QED
  BY <1>1, <1>2, <1>3, <1>4 DEF RecvInv

\* A receiver that leaves the queue alone.
LEMMA ReceiverKeeps ==
    ASSUME QueueInv, RecvInv', UNCHANGED <<queueVars, evVars, ctl, delivered>>,
           rx_entry' \in Requests \cup {0}, rx_entry # 0 => rx_entry' # 0,
           request' \in [Requests -> {"none", "live", "freed"}],
           predicate' \in [Requests -> BOOLEAN],
           open_slots' \in Nat, hooked' \in {"none", "pubsub", "other"},
           rx_listening' \in BOOLEAN
    PROVE  QueueInv'
<1>1. RxTypeOK'
  BY DEF QueueInv, RxTypeOK, RecvInv, queueVars, evVars
<1> QED
  BY <1>1 DEF QueueInv, RecvInv, queueVars, evVars

\* A receiver that takes the oldest response.
LEMMA ReceiverTakes ==
    ASSUME QueueInv, RecvInv', Dequeue, UNCHANGED <<listenVars, evVars, ctl>>
    PROVE  QueueInv'
<1>1. /\ rx_queue' \in Seq(Items)
      /\ delivered' \in Seq(Items)
      /\ rx_len' = Len(rx_queue')
      /\ rx_len' \in Nat
      /\ rx_len' < rx_len
  BY DequeueType DEF QueueInv, RxTypeOK
<1>2. RxTypeOK'
  BY <1>1 DEF QueueInv, RxTypeOK, RecvInv, listenVars, evVars
<1> QED
  BY <1>1, <1>2, RxConstants DEF QueueInv, RxTypeOK, RecvInv, listenVars, evVars

LEMMA QueueInvReceive ==
    ASSUME QueueInv, NEW r \in Receivers, ReceiveSteps(r) \/ ReceiveSpurious(r)
    PROVE  QueueInv'
<1>a. RecvInv /\ rreq[r] \in Requests \cup {0}
  BY DEF QueueInv, RxTypeOK, RecvInv
<1>b. /\ rx_entry \in Requests \cup {0}
      /\ request \in [Requests -> {"none", "live", "freed"}]
      /\ predicate \in [Requests -> BOOLEAN]
      /\ open_slots \in Nat /\ hooked \in {"none", "pubsub", "other"}
      /\ rx_listening \in BOOLEAN
  BY Zenon DEF QueueInv, RxTypeOK
<1> USE DEF ReceiveGoto, ReceiveReturn
<1>1. CASE ReceiveFirst(r)
  <2>1. CASE Dequeue /\ ReceiveReturn(r, "ok")
    <3>1. RecvInv'
      BY <1>a, <2>1, ReceiverMoves DEF RxLocations
    <3> QED
      BY <1>1, <2>1, <3>1, ReceiverTakes DEF ReceiveFirst
  <2>2. CASE /\ ReceiveGoto(r, "find")
             /\ rret' = [rret EXCEPT ![r] = "none"]
             /\ UNCHANGED <<queueVars, delivered, rreq>>
    <3>1. RecvInv'
      BY <1>a, <2>2, ReceiverMoves DEF RxLocations
    <3> QED
      BY <1>1, <1>b, <2>2, <3>1, ReceiverKeeps DEF ReceiveFirst, listenVars
  <2> QED
    BY <1>1, <2>1, <2>2 DEF ReceiveFirst
<1>2. CASE ReceiveFind(r)
  <2>0. UNCHANGED <<queueVars, rx_listening, rx_entry, predicate, open_slots,
                    hooked, evVars, rret, ctl, delivered>>
    BY <1>2 DEF ReceiveFind
  <2>1. CASE rx_entry # 0
    <3>1. /\ rreq' = [rreq EXCEPT ![r] = rx_entry]
          /\ rpc' = [rpc EXCEPT ![r] = "test"]
          /\ request' = request
      BY <1>2, <2>1 DEF ReceiveFind
    <3>2. RecvInv'
      BY <1>a, <1>b, <2>0, <3>1, ReceiverMoves DEF RxLocations
    <3> QED
      BY <1>b, <2>0, <3>1, <3>2, ReceiverKeeps
  <2>2. CASE rx_entry = 0
    <3>1. PICK q \in Requests :
             /\ request' = [request EXCEPT ![q] = "live"]
             /\ rreq' = [rreq EXCEPT ![r] = q]
             /\ rpc' = [rpc EXCEPT ![r] = "sem"]
      BY <1>2, <2>2 DEF ReceiveFind
    <3>2. q # 0 /\ rreq'[r] = q
      BY <1>a, <3>1, RxConstants DEF Requests, RecvInv
    <3>3. RecvInv'
      BY <1>a, <2>0, <3>1, <3>2, ReceiverMoves DEF RxLocations
    <3>4. request' \in [Requests -> {"none", "live", "freed"}]
      BY <1>b, <3>1
    <3> QED
      BY <1>b, <2>0, <3>3, <3>4, ReceiverKeeps
  <2> QED
    BY <2>1, <2>2
<1>3. CASE ListenSemWait(r)
  <2>1. RecvInv'
    BY <1>3, <1>a, ReceiverMoves DEF ListenSemWait, RxLocations, RecvInv
  <2>2. open_slots' \in Nat
    BY <1>3, <1>b DEF ListenSemWait
  <2> QED
    BY <1>3, <1>b, <2>1, <2>2, ReceiverKeeps DEF ListenSemWait
<1>4. CASE ListenRequestAdd(r)
  <2>1. RecvInv'
    <3>1. CASE open_slots <= 0
      BY <1>4, <1>a, <3>1, ReceiverMoves DEF ListenRequestAdd, RxLocations
    <3>2. CASE ~(open_slots <= 0)
      <4>1. rpc[r] = "add" /\ rreq[r] # 0
        BY <1>4, <1>a DEF ListenRequestAdd, RecvInv
      <4>2. rpc' = [rpc EXCEPT ![r] = "hook"] /\ rreq' = rreq /\ rret' = rret
        BY <1>4, <3>2 DEF ListenRequestAdd
      <4> QED
        BY <1>a, <4>1, <4>2, ReceiverMoves DEF RxLocations
    <3> QED
      BY <3>1, <3>2
  <2>2. rx_entry' \in Requests \cup {0} /\ (rx_entry # 0 => rx_entry' # 0)
    BY <1>4, <1>a, <1>b DEF ListenRequestAdd
  <2> QED
    BY <1>4, <1>b, <2>1, <2>2, ReceiverKeeps DEF ListenRequestAdd
<1>5. CASE ListenHandlerAdd(r)
  <2>1. RecvInv'
    BY <1>5, <1>a, ReceiverMoves DEF ListenHandlerAdd, RxLocations
  <2>2. hooked' \in {"none", "pubsub", "other"} /\ rx_listening' \in BOOLEAN
    BY <1>5, <1>b DEF ListenHandlerAdd
  <2> QED
    BY <1>5, <1>b, <2>1, <2>2, ReceiverKeeps DEF ListenHandlerAdd
<1>6. CASE ReceiveRefind(r)
  <2>1. RecvInv'
    BY <1>6, <1>a, <1>b, ReceiverMoves DEF ReceiveRefind, RxLocations
  <2> QED
    BY <1>6, <1>b, <2>1, ReceiverKeeps DEF ReceiveRefind, listenVars
<1>7. CASE ReceiveTest(r) \/ ReceivePredicate(r)
  <2>1. RecvInv'
    BY <1>7, <1>a, ReceiverMoves DEF ReceiveTest, ReceivePredicate, RxLocations
  <2> QED
    BY <1>7, <1>b, <2>1, ReceiverKeeps DEF ReceiveTest, ReceivePredicate, listenVars
<1>8. CASE ReceiveLockAndWait(r) \/ ReceiveSpurious(r)
  <2>1. RecvInv'
    BY <1>8, <1>a, ReceiverMoves DEF ReceiveLockAndWait, ReceiveSpurious, RxLocations
  <2> QED
    BY <1>8, <1>b, <2>1, ReceiverKeeps DEF ReceiveLockAndWait, ReceiveSpurious, listenVars
<1>9. CASE ReceiveClear(r)
  <2>1. RecvInv'
    BY <1>9, <1>a, ReceiverMoves DEF ReceiveClear, RxLocations
  <2>2. predicate' \in [Requests -> BOOLEAN]
    BY <1>9, <1>b, Zenon DEF ReceiveClear
  <2> QED
    BY <1>9, <1>b, <2>1, <2>2, ReceiverKeeps DEF ReceiveClear
<1>10. CASE ReceiveTake(r)
  <2>1. RecvInv'
    BY <1>10, <1>a, ReceiverMoves DEF ReceiveTake, RxLocations
  <2>2. CASE Dequeue
    BY <1>10, <2>1, <2>2, ReceiverTakes DEF ReceiveTake
  <2>3. CASE UNCHANGED <<queueVars, delivered>>
    BY <1>10, <1>b, <2>1, <2>3, ReceiverKeeps DEF ReceiveTake, listenVars
  <2> QED
    BY <1>10, <2>2, <2>3 DEF ReceiveTake
<1> QED
  BY <1>1, <1>2, <1>3, <1>4, <1>5, <1>6, <1>7, <1>8, <1>9, <1>10
     DEF ReceiveSteps

LEMMA QueueInvCtl ==
    ASSUME QueueInv, ListenStop \/ ClearFirst \/ CtlSteps \/ OtherHandlerAdd
    PROVE  QueueInv'
<1> USE DEF QueueInv
<1> USE DEF queueVars, listenVars, evVars, recvVars
<1>1. CASE ListenStop
  BY <1>1 DEF ListenStop, RxTypeOK
<1>2. CASE ListenStopSignal
  BY <1>2 DEF ListenStopSignal, Signal, RxTypeOK, RxLocations
<1>3. CASE ListenStopDelete
  BY <1>3 DEF ListenStopDelete, RxTypeOK
<1>4. CASE ClearFirst
  <2>1. /\ rx_queue' \in Seq(Items)
        /\ delivered' \in Seq(Items)
        /\ rx_len' = Len(rx_queue')
        /\ rx_len' \in Nat
        /\ rx_len' < rx_len
    BY <1>4, DequeueType DEF ClearFirst, RxTypeOK
  <2> QED
    BY <1>4, <2>1, RxConstants DEF ClearFirst, RxTypeOK
<1>5. CASE ClearNext
  <2>1. CASE Dequeue /\ UNCHANGED ctl
    <3>1. /\ rx_queue' \in Seq(Items)
          /\ delivered' \in Seq(Items)
          /\ rx_len' = Len(rx_queue')
          /\ rx_len' \in Nat
          /\ rx_len' < rx_len
      BY <2>1, DequeueType DEF RxTypeOK
    <3> QED
      BY <1>5, <2>1, <3>1, RxConstants DEF ClearNext, RxTypeOK
  <2>2. CASE ctl' = "crashed" /\ UNCHANGED <<queueVars, delivered>>
    BY <1>5, <2>2 DEF ClearNext, RxTypeOK
  <2> QED
    BY <1>5, <2>1, <2>2 DEF ClearNext
<1>6. CASE OtherHandlerAdd
  BY <1>6 DEF OtherHandlerAdd, RxTypeOK
<1> QED
  BY <1>1, <1>2, <1>3, <1>4, <1>5, <1>6 DEF CtlSteps

LEMMA QueueInvStutter ==
    ASSUME QueueInv, UNCHANGED rxVars PROVE QueueInv'
BY DEF QueueInv, RxTypeOK, rxVars, queueVars, listenVars, evVars, recvVars

\* The queue invariant holds in every reachable state, for any number of
\* receivers and whatever the control thread calls.
THEOREM QueueInvariant == RxSpec => []QueueInv
<1>1. RxInit => QueueInv
  BY QueueInvInit
<1>2. QueueInv /\ [RxNext]_rxVars => QueueInv'
  BY QueueInvEvent, QueueInvReceive, QueueInvCtl, QueueInvStutter DEF RxNext
<1> QED
  BY <1>1, <1>2, PTL DEF RxSpec

\* pubsub_rx_queue_len is the length of pubsub_rx_queue and stays within
\* MIO_PUBSUB_RX_QUEUE_MAX_LEN, although _mio_pubsub_rx_queue_enqueue reads it
\* outside the mutex.
THEOREM QueueLenIsExact == RxSpec => []QueueLenExact
<1>1. QueueInv => QueueLenExact
  BY DEF QueueInv, QueueLenExact
<1> QED
  BY <1>1, QueueInvariant, PTL

\* Every variable of the receive path keeps its type.
THEOREM RxTypeCorrect == RxSpec => []RxTypeOK
<1>1. QueueInv => RxTypeOK
  BY DEF QueueInv
<1> QED
  BY <1>1, QueueInvariant, PTL

-----------------------------------------------------------------------------
(***************************************************************************)
(* The order of delivery and the refinement of RxChannel.                  *)
(***************************************************************************)

Sorted(s) == \A i, j \in 1..Len(s) : i < j => s[i] < s[j]
AtMost(s, x) == \A i \in 1..Len(s) : s[i] <= x
AllBefore(s, t) == \A i \in 1..Len(s), j \in 1..Len(t) : s[i] < t[j]

\* Appending a number larger than all keeps a sequence sorted, and before
\* whatever it was before.
LEMMA AppendOrdered ==
    ASSUME NEW s \in Seq(Nat), NEW x \in Nat, NEW y \in Int, y < x,
           Sorted(s), AtMost(s, y)
    PROVE  /\ Sorted(Append(s, x))
           /\ AtMost(Append(s, x), x)
           /\ \A d \in Seq(Nat) :
                 AllBefore(d, s) /\ AtMost(d, y) => AllBefore(d, Append(s, x))
<1> DEFINE a == Append(s, x)
<1>1. /\ Len(s) \in Nat /\ Len(a) = Len(s) + 1
      /\ \A i \in 1..Len(s) : s[i] \in Nat /\ a[i] = s[i]
      /\ a[Len(s) + 1] = x
  OBVIOUS
<1> HIDE DEF a
<1>2. \A i \in 1..Len(s) : a[i] < x /\ a[i] \in Nat
  BY <1>1 DEF AtMost
<1>3. ASSUME NEW i \in 1..Len(a), NEW j \in 1..Len(a), i < j PROVE a[i] < a[j]
  <2>1. i \in 1..Len(s)
    BY <1>1, <1>3
  <2>2. CASE j = Len(s) + 1
    BY <1>1, <1>2, <2>1, <2>2
  <2>3. CASE j \in 1..Len(s)
    BY <1>1, <1>3, <2>1, <2>3 DEF Sorted
  <2> QED
    BY <1>1, <2>2, <2>3
<1>4. ASSUME NEW i \in 1..Len(a) PROVE a[i] <= x
  BY <1>1, <1>2
<1>5. ASSUME NEW d \in Seq(Nat), AllBefore(d, s), AtMost(d, y),
             NEW i \in 1..Len(d), NEW j \in 1..Len(a)
      PROVE  d[i] < a[j]
  <2>1. d[i] \in Nat /\ d[i] < x
    BY <1>5 DEF AtMost
  <2>2. CASE j = Len(s) + 1
    BY <1>1, <2>1, <2>2
  <2>3. CASE j \in 1..Len(s)
    <3>1. d[i] < s[j]
      BY <1>5, <2>3 DEF AllBefore
    <3>2. a[j] = s[j]
      BY <1>1, <2>3
    <3> QED
      BY <3>1, <3>2
  <2>4. j = Len(s) + 1 \/ j \in 1..Len(s)
    <3>1. Len(s) \in Nat /\ Len(a) = Len(s) + 1
      BY <1>1
    <3> QED
      BY <3>1
  <2> QED
    BY <2>2, <2>3, <2>4
<1>6. Sorted(a) /\ AtMost(a, x)
  BY <1>3, <1>4 DEF Sorted, AtMost
<1>7. \A d \in Seq(Nat) : AllBefore(d, s) /\ AtMost(d, y) => AllBefore(d, a)
  BY <1>5 DEF AllBefore
<1> QED
  BY <1>6, <1>7 DEF a

\* Dropping the head keeps order and bound, and the head comes before the rest.
LEMMA TailOrdered ==
    ASSUME NEW s \in Seq(Nat), s # <<>>, NEW y \in Int, Sorted(s), AtMost(s, y)
    PROVE  /\ Tail(s) \in Seq(Nat) /\ Head(s) \in Nat
           /\ Sorted(Tail(s))
           /\ AtMost(Tail(s), y) /\ Head(s) <= y
           /\ \A i \in 1..Len(Tail(s)) : Head(s) < Tail(s)[i]
           /\ \A d \in Seq(Nat) : AllBefore(d, s) =>
                 /\ AllBefore(d, Tail(s))
                 /\ \A i \in 1..Len(d) : d[i] < Head(s)
<1> DEFINE t == Tail(s)
<1>1. /\ t \in Seq(Nat) /\ Head(s) \in Nat /\ Head(s) = s[1]
      /\ Len(s) \in Nat /\ 1 \in 1..Len(s) /\ Len(t) = Len(s) - 1
      /\ \A i \in 1..Len(t) : t[i] = s[i + 1]
  OBVIOUS
<1> HIDE DEF t
<1>2. \A i \in 1..Len(t) : i + 1 \in 1..Len(s) /\ 1 < i + 1 /\ t[i] = s[i + 1]
  BY <1>1
<1>3. ASSUME NEW i \in 1..Len(t), NEW j \in 1..Len(t), i < j PROVE t[i] < t[j]
  <2>1. i + 1 \in 1..Len(s) /\ j + 1 \in 1..Len(s) /\ i + 1 < j + 1
    BY <1>2, <1>3
  <2> QED
    BY <1>2, <2>1 DEF Sorted
<1>4. AtMost(t, y) /\ Head(s) <= y
  BY <1>1, <1>2 DEF AtMost
<1>5. \A i \in 1..Len(t) : Head(s) < t[i]
  BY <1>1, <1>2 DEF Sorted
<1>6. \A d \in Seq(Nat) : AllBefore(d, s) =>
          AllBefore(d, t) /\ \A i \in 1..Len(d) : d[i] < Head(s)
  BY <1>1, <1>2 DEF AllBefore
<1>7. Sorted(t)
  BY <1>3 DEF Sorted
<1> QED
  BY <1>1, <1>4, <1>5, <1>6, <1>7 DEF t

\* The event thread has read a response and not yet queued or dropped it.
InFlight == ev \in {"get", "readlen", "insert", "replace"}

\* The newest response that can be in the queue or delivered.
Newest == IF InFlight THEN published - 1 ELSE published

\* The part of the inductive invariant about the order: what is queued was
\* published after all that is delivered, and what is in the event thread's
\* hands after both.
OrderInv ==
    /\ InFlight => evItem = published
    /\ AtMost(rx_queue, Newest)
    /\ AtMost(delivered, Newest)
    /\ Sorted(rx_queue)
    /\ Sorted(delivered)
    /\ AllBefore(delivered, rx_queue)

\* The four things a step can do to the queue.
LeavesQueue ==
    /\ UNCHANGED <<rx_queue, delivered>>
    /\ Newest' >= Newest
    /\ InFlight' => evItem' = published'

TakesOldest ==
    /\ Dequeue
    /\ UNCHANGED evVars

AppendsNewest ==
    /\ InFlight /\ ~InFlight'
    /\ rx_len < QueueMaxLen
    /\ rx_queue' = Append(rx_queue, evItem)
    /\ UNCHANGED <<delivered, evItem, published>>

ReplacesOldest ==
    /\ InFlight /\ ~InFlight'
    /\ rx_queue # <<>>
    /\ rx_queue' = Append(Tail(rx_queue), evItem)
    /\ UNCHANGED <<delivered, evItem, published>>

\* Every step of every thread is of one of the four kinds.
LEMMA StepKinds ==
    ASSUME QueueInv, OrderInv, [RxNext]_rxVars
    PROVE  LeavesQueue \/ TakesOldest \/ AppendsNewest \/ ReplacesOldest
<1> USE DEF queueVars, listenVars, evVars, recvVars, Newest, InFlight
<1>0. published \in Nat
  BY RxConstants DEF QueueInv, RxTypeOK
<1>1. CASE EventRead
  BY <1>0, <1>1 DEF EventRead, LeavesQueue
<1>2. CASE EventGetRequest \/ EnqueueReadLen \/ EventSignal
  BY <1>0, <1>2 DEF EventGetRequest, EnqueueReadLen, EventSignal, LeavesQueue, OrderInv
<1>3. CASE EnqueueInsert
  BY <1>3 DEF EnqueueInsert, AppendsNewest, QueueInv
<1>4. CASE EnqueueReplace
  <2>1. CASE rx_queue = <<>>
    BY <1>0, <1>4, <2>1 DEF EnqueueReplace, LeavesQueue
  <2>2. CASE rx_queue # <<>>
    BY <1>4, <2>2 DEF EnqueueReplace, ReplacesOldest
  <2> QED
    BY <2>1, <2>2
<1>5. ASSUME NEW r \in Receivers, ReceiveSteps(r) \/ ReceiveSpurious(r)
      PROVE  LeavesQueue \/ TakesOldest
  <2>1. CASE ReceiveFirst(r) \/ ReceiveTake(r)
    BY <1>0, <2>1 DEF ReceiveFirst, ReceiveTake, LeavesQueue, TakesOldest, OrderInv
  <2>2. CASE ReceiveFind(r) \/ ListenSemWait(r) \/ ListenRequestAdd(r)
             \/ ListenHandlerAdd(r) \/ ReceiveRefind(r) \/ ReceiveTest(r)
             \/ ReceivePredicate(r) \/ ReceiveLockAndWait(r) \/ ReceiveClear(r)
             \/ ReceiveSpurious(r)
    <3>1. UNCHANGED <<rx_queue, delivered, ev, evItem, published>>
      BY <2>2 DEF ReceiveFind, ListenSemWait, ListenRequestAdd, ListenHandlerAdd,
         ReceiveRefind, ReceiveTest, ReceivePredicate, ReceiveLockAndWait,
         ReceiveClear, ReceiveSpurious
    <3> QED
      BY <1>0, <3>1 DEF LeavesQueue, OrderInv
  <2> QED
    BY <1>5, <2>1, <2>2 DEF ReceiveSteps
<1>6. CASE ListenStop \/ ListenStopSignal \/ ListenStopDelete \/ OtherHandlerAdd
  BY <1>0, <1>6 DEF ListenStop, ListenStopSignal, ListenStopDelete, OtherHandlerAdd,
     LeavesQueue, OrderInv
<1>7. CASE ClearFirst \/ ClearNext
  BY <1>0, <1>7 DEF ClearFirst, ClearNext, LeavesQueue, TakesOldest, OrderInv
<1>8. CASE UNCHANGED rxVars
  BY <1>0, <1>8 DEF rxVars, LeavesQueue, OrderInv
<1> QED
  BY <1>1, <1>2, <1>3, <1>4, <1>5, <1>6, <1>7, <1>8 DEF RxNext, EventSteps, CtlSteps

LEMMA OrderInvInit == RxInit => OrderInv
BY DEF RxInit, OrderInv, InFlight, AtMost, Sorted, AllBefore

LEMMA OrderInvStep ==
    ASSUME QueueInv, OrderInv, [RxNext]_rxVars
    PROVE  OrderInv'
<1>0. /\ published \in Nat /\ Newest \in Int
      /\ rx_queue \in Seq(Nat) /\ delivered \in Seq(Nat)
  BY RxConstants DEF QueueInv, RxTypeOK, Items, Newest
<1>1. CASE LeavesQueue
  <2>1. published' \in Nat
    BY QueueInvEvent, QueueInvReceive, QueueInvCtl, QueueInvStutter, RxConstants
       DEF RxNext, QueueInv, RxTypeOK
  <2>2. Newest' \in Int /\ Newest' >= Newest
    BY <1>1, <2>1 DEF LeavesQueue, Newest
  <2>3. /\ \A i \in 1..Len(rx_queue) : rx_queue[i] \in Nat
        /\ \A i \in 1..Len(delivered) : delivered[i] \in Nat
    BY <1>0
  <2>4. AtMost(rx_queue, Newest') /\ AtMost(delivered, Newest')
    BY <1>0, <2>2, <2>3 DEF OrderInv, AtMost
  <2> QED
    BY <1>1, <2>4 DEF LeavesQueue, OrderInv, AtMost, Sorted, AllBefore
<1>2. CASE TakesOldest
  <2> DEFINE h == Head(rx_queue)
             t == Tail(rx_queue)
             d == Append(delivered, h)
  <2>1. /\ rx_queue # <<>> /\ rx_queue' = t /\ delivered' = d
        /\ Newest' = Newest /\ (InFlight' => evItem' = published')
    BY <1>2 DEF TakesOldest, Dequeue, QueueInv, evVars, Newest, InFlight, OrderInv
  <2>2. /\ t \in Seq(Nat) /\ h \in Nat
        /\ Sorted(t) /\ AtMost(t, Newest) /\ h <= Newest
        /\ \A i \in 1..Len(t) : h < t[i]
        /\ AllBefore(delivered, t)
        /\ \A i \in 1..Len(delivered) : delivered[i] < h
    BY <1>0, <2>1, TailOrdered DEF OrderInv
  <2> HIDE DEF h, t
  <2>3. AtMost(delivered, h - 1) /\ h - 1 \in Int /\ h - 1 < h
    BY <1>0, <2>2 DEF AtMost
  <2>4. Sorted(d) /\ AtMost(d, h)
    BY <1>0, <2>2, <2>3, AppendOrdered DEF OrderInv
  <2>5. /\ Len(delivered) \in Nat /\ Len(d) = Len(delivered) + 1
        /\ d[Len(delivered) + 1] = h
        /\ \A i \in 1..Len(delivered) : d[i] = delivered[i]
        /\ \A i \in 1..Len(d) : d[i] \in Nat
    BY <1>0, <2>2
  <2> HIDE DEF d
  <2>6. AtMost(d, Newest)
    BY <1>0, <2>2, <2>4, <2>5 DEF AtMost
  <2>7. ASSUME NEW i \in 1..Len(d), NEW j \in 1..Len(t) PROVE d[i] < t[j]
    <3>1. CASE i = Len(delivered) + 1
      BY <2>2, <2>5, <3>1
    <3>2. CASE i \in 1..Len(delivered)
      BY <2>2, <2>5, <3>2 DEF AllBefore
    <3> QED
      BY <2>5, <3>1, <3>2
  <2>8. AllBefore(d, t)
    BY <2>7 DEF AllBefore
  <2> QED
    BY <2>1, <2>2, <2>4, <2>6, <2>8 DEF OrderInv, AtMost, Sorted, AllBefore
<1>3. CASE AppendsNewest
  <2>1. /\ evItem \in Nat /\ Newest < evItem /\ Newest' = evItem /\ ~InFlight'
        /\ rx_queue' = Append(rx_queue, evItem) /\ delivered' = delivered
    BY <1>0, <1>3 DEF AppendsNewest, OrderInv, Newest
  <2>2. /\ Sorted(Append(rx_queue, evItem))
        /\ AtMost(Append(rx_queue, evItem), evItem)
        /\ AllBefore(delivered, Append(rx_queue, evItem))
    BY <1>0, <2>1, AppendOrdered DEF OrderInv
  <2>3. AtMost(delivered, evItem)
    BY <1>0, <2>1 DEF OrderInv, AtMost
  <2> QED
    BY <2>1, <2>2, <2>3 DEF OrderInv, AtMost, Sorted, AllBefore
<1>4. CASE ReplacesOldest
  <2> DEFINE t == Tail(rx_queue)
  <2>1. /\ evItem \in Nat /\ Newest < evItem /\ Newest' = evItem /\ ~InFlight'
        /\ rx_queue # <<>> /\ rx_queue' = Append(t, evItem) /\ delivered' = delivered
    BY <1>0, <1>4 DEF ReplacesOldest, OrderInv, Newest
  <2>2. t \in Seq(Nat) /\ Sorted(t) /\ AtMost(t, Newest) /\ AllBefore(delivered, t)
    BY <1>0, <2>1, TailOrdered DEF OrderInv
  <2> HIDE DEF t
  <2>3. /\ Sorted(Append(t, evItem))
        /\ AtMost(Append(t, evItem), evItem)
        /\ AllBefore(delivered, Append(t, evItem))
    BY <1>0, <2>1, <2>2, AppendOrdered DEF OrderInv
  <2>4. AtMost(delivered, evItem)
    BY <1>0, <2>1 DEF OrderInv, AtMost
  <2> QED
    BY <2>1, <2>3, <2>4 DEF OrderInv, AtMost, Sorted, AllBefore
<1> QED
  BY <1>1, <1>2, <1>3, <1>4, StepKinds

\* The order invariant holds in every reachable state.
THEOREM OrderInvariant == RxSpec => [](QueueInv /\ OrderInv)
<1>1. RxInit => QueueInv /\ OrderInv
  BY QueueInvInit, OrderInvInit
<1>2. QueueInv /\ OrderInv /\ [RxNext]_rxVars => (QueueInv /\ OrderInv)'
  BY QueueInvEvent, QueueInvReceive, QueueInvCtl, QueueInvStutter, OrderInvStep
     DEF RxNext
<1> QED
  BY <1>1, <1>2, PTL DEF RxSpec

\* However many threads receive or clear, responses leave the queue in the
\* order in which they were published and none leaves it twice.
THEOREM DeliveryIsOrdered == RxSpec => []DeliveredInOrder
<1>1. QueueInv /\ OrderInv => DeliveredInOrder
  <2> SUFFICES ASSUME QueueInv, OrderInv,
                      NEW i \in 1..Len(delivered \o rx_queue),
                      NEW j \in 1..Len(delivered \o rx_queue), i < j
               PROVE  (delivered \o rx_queue)[i] < (delivered \o rx_queue)[j]
    BY DEF DeliveredInOrder
  <2>1. delivered \in Seq(Nat) /\ rx_queue \in Seq(Nat)
    BY RxConstants DEF QueueInv, RxTypeOK, Items
  <2>2. /\ Len(delivered) \in Nat /\ Len(rx_queue) \in Nat
        /\ Len(delivered \o rx_queue) = Len(delivered) + Len(rx_queue)
        /\ \A k \in 1..Len(delivered) : (delivered \o rx_queue)[k] = delivered[k]
        /\ \A k \in Len(delivered) + 1 .. Len(delivered) + Len(rx_queue) :
              (delivered \o rx_queue)[k] = rx_queue[k - Len(delivered)]
    BY <2>1
  <2>3. CASE j <= Len(delivered)
    BY <2>2, <2>3 DEF OrderInv, Sorted
  <2>4. CASE i <= Len(delivered) /\ j > Len(delivered)
    BY <2>2, <2>4 DEF OrderInv, AllBefore
  <2>5. CASE i > Len(delivered)
    <3>1. /\ i - Len(delivered) \in 1..Len(rx_queue)
          /\ j - Len(delivered) \in 1..Len(rx_queue)
          /\ i - Len(delivered) < j - Len(delivered)
      BY <2>2, <2>5
    <3> QED
      BY <2>2, <2>5, <3>1 DEF OrderInv, Sorted
  <2> QED
    BY <2>2, <2>3, <2>4, <2>5
<1> QED
  BY <1>1, OrderInvariant, PTL

\* The queue of libMIO, filled and emptied by its threads, implements the
\* bounded drop-oldest channel RxChannel.
THEOREM RxRefinesChannel == RxSpec => ImplementsRxChannel
<1>1. RxInit => Channel!ChannelInit
  BY DEF RxInit, Channel!ChannelInit
<1>2. QueueInv /\ OrderInv /\ [RxNext]_rxVars => [Channel!ChannelNext]_(Channel!channelVars)
  <2> SUFFICES ASSUME QueueInv, OrderInv, [RxNext]_rxVars
               PROVE  [Channel!ChannelNext]_(Channel!channelVars)
    OBVIOUS
  <2>0. /\ published \in Nat
        /\ rx_queue \in Seq(Nat) /\ delivered \in Seq(Nat)
    BY RxConstants DEF QueueInv, RxTypeOK, Items
  <2>a. InFlight => Channel!Newer(evItem) /\ evItem \in Items
    <3> SUFFICES ASSUME InFlight PROVE Channel!Newer(evItem) /\ evItem \in Items
      OBVIOUS
    <3>1. evItem \in Items
      BY DEF QueueInv, InFlight
    <3>2. Newest < evItem /\ Newest \in Int /\ evItem \in Int
      BY <2>0 DEF OrderInv, Newest
    <3>3. /\ \A i \in 1..Len(rx_queue) : rx_queue[i] < evItem
          /\ \A i \in 1..Len(delivered) : delivered[i] < evItem
      BY <2>0, <3>2 DEF OrderInv, AtMost
    <3> QED
      BY <3>1, <3>3 DEF Channel!Newer
  <2>1. CASE LeavesQueue
    BY <2>1 DEF LeavesQueue, Channel!channelVars
  <2>2. CASE TakesOldest
    <3>1. Channel!Take
      BY <2>2, <2>0 DEF TakesOldest, Dequeue, QueueInv, Channel!Take
    <3> QED
      BY <3>1 DEF Channel!ChannelNext
  <2>3. CASE AppendsNewest
    <3>1. Channel!Put(evItem) /\ evItem \in Items
      BY <2>3, <2>a DEF AppendsNewest, QueueInv, Channel!Put
    <3> QED
      BY <3>1 DEF Channel!ChannelNext
  <2>4. CASE ReplacesOldest
    <3>1. Channel!PutDroppingOldest(evItem) /\ evItem \in Items
      BY <2>4, <2>a DEF ReplacesOldest, Channel!PutDroppingOldest
    <3> QED
      BY <3>1 DEF Channel!ChannelNext
  <2> QED
    BY <2>1, <2>2, <2>3, <2>4, StepKinds
<1> QED
  BY <1>1, <1>2, OrderInvariant, PTL DEF RxSpec, ImplementsRxChannel, Channel!ChannelSpec

-----------------------------------------------------------------------------
(***************************************************************************)
(* The listen request and its slots.                                       *)
(***************************************************************************)

\* A receiver has a request of its own that nobody else knows of.
HasFresh(r) == rpc[r] \in {"sem", "add"}

\* The request in the table is allocated, and so is every fresh one; no two
\* of them are the same.
EntryInv ==
    /\ EntryIsLive
    /\ \A r \in Receivers :
          HasFresh(r) => request[rreq[r]] = "live" /\ rreq[r] # rx_entry
    /\ \A r, u \in Receivers :
          HasFresh(r) /\ HasFresh(u) /\ r # u => rreq[r] # rreq[u]

\* Allocated requests whose sem_wait is done.
Held == {q \in Requests :
            /\ request[q] = "live"
            /\ ~ \E r \in Receivers : rpc[r] = "sem" /\ rreq[r] = q}

\* A step that touches neither the request in the table nor a fresh one.
LeavesRequests ==
    /\ UNCHANGED <<request, rx_entry, open_slots>>
    /\ \A r \in Receivers :
          \/ rpc'[r] = rpc[r] /\ rreq'[r] = rreq[r]
          \/ rpc[r] # "sem" /\ rpc'[r] \notin {"sem", "add"}

LEMMA LeavesRequestsSteps ==
    ASSUME QueueInv, [RxNext]_rxVars,
           ~ListenStopDelete,
           \A r \in Receivers :
              ~(ReceiveFind(r) \/ ListenSemWait(r) \/ ListenRequestAdd(r))
    PROVE  LeavesRequests
<1> USE DEF queueVars, listenVars, evVars, recvVars, ReceiveGoto, ReceiveReturn
<1>0. rpc \in [Receivers -> RxLocations] /\ rreq \in [Receivers -> Requests \cup {0}]
  BY DEF QueueInv, RxTypeOK
<1>1. CASE EventRead \/ EventGetRequest \/ EnqueueReadLen \/ EnqueueInsert \/ EnqueueReplace
  BY <1>1 DEF EventRead, EventGetRequest, EnqueueReadLen, EnqueueInsert,
     EnqueueReplace, LeavesRequests
<1>2. CASE EventSignal
  BY <1>0, <1>2 DEF EventSignal, Signal, LeavesRequests
<1>3. ASSUME NEW r \in Receivers, ReceiveSteps(r) \/ ReceiveSpurious(r)
      PROVE  LeavesRequests
  <2>1. CASE ReceiveFirst(r) \/ ReceiveTake(r)
    BY <1>0, <2>1 DEF ReceiveFirst, ReceiveTake, LeavesRequests
  <2>2. CASE ListenHandlerAdd(r) \/ ReceiveRefind(r) \/ ReceiveTest(r)
    BY <1>0, <2>2 DEF ListenHandlerAdd, ReceiveRefind, ReceiveTest, LeavesRequests
  <2>3. CASE ReceivePredicate(r) \/ ReceiveLockAndWait(r) \/ ReceiveSpurious(r)
             \/ ReceiveClear(r)
    BY <1>0, <2>3 DEF ReceivePredicate, ReceiveLockAndWait, ReceiveSpurious,
       ReceiveClear, LeavesRequests
  <2> QED
    BY <1>3, <2>1, <2>2, <2>3 DEF ReceiveSteps
<1>4. CASE ListenStop \/ OtherHandlerAdd \/ ClearFirst \/ ClearNext
  BY <1>4 DEF ListenStop, OtherHandlerAdd, ClearFirst, ClearNext, LeavesRequests
<1>5. CASE ListenStopSignal
  BY <1>0, <1>5 DEF ListenStopSignal, Signal, LeavesRequests
<1>6. CASE UNCHANGED rxVars
  BY <1>6 DEF rxVars, LeavesRequests
<1> QED
  BY <1>1, <1>2, <1>3, <1>4, <1>5, <1>6 DEF RxNext, EventSteps, CtlSteps

LEMMA EntryInvStep ==
    ASSUME QueueInv, EntryInv, [RxNext]_rxVars PROVE EntryInv'
<1> USE DEF EntryIsLive, HasFresh, ReceiveGoto, ReceiveReturn
<1>0. /\ rpc \in [Receivers -> RxLocations]
      /\ rreq \in [Receivers -> Requests \cup {0}]
      /\ request \in [Requests -> {"none", "live", "freed"}]
      /\ rx_entry \in Requests \cup {0}
      /\ 0 \notin Requests
      /\ \A r \in Receivers : HasFresh(r) => rreq[r] \in Requests
  BY RxConstants DEF QueueInv, RxTypeOK, Requests
<1>1. CASE LeavesRequests
  BY <1>1 DEF LeavesRequests, EntryInv
<1>2. ASSUME NEW r \in Receivers, ReceiveFind(r) PROVE EntryInv'
  <2>1. CASE rx_entry # 0
    BY <1>0, <1>2, <2>1 DEF ReceiveFind, EntryInv
  <2>2. CASE rx_entry = 0
    <3>1. PICK q \in Requests :
             /\ request[q] = "none"
             /\ request' = [request EXCEPT ![q] = "live"]
             /\ rreq' = [rreq EXCEPT ![r] = q]
             /\ rpc' = [rpc EXCEPT ![r] = "sem"]
      BY <1>2, <2>2 DEF ReceiveFind
    <3>2. rx_entry' = 0
      BY <1>2, <2>2 DEF ReceiveFind
    <3>3. \A u \in Receivers : HasFresh(u) => rreq[u] # q
      BY <3>1 DEF EntryInv
    <3> QED
      BY <1>0, <2>2, <3>1, <3>2, <3>3 DEF EntryInv
  <2> QED
    BY <2>1, <2>2
<1>3. ASSUME NEW r \in Receivers, ListenSemWait(r) PROVE EntryInv'
  BY <1>0, <1>3 DEF ListenSemWait, EntryInv
<1>4. ASSUME NEW r \in Receivers, ListenRequestAdd(r) PROVE EntryInv'
  BY <1>0, <1>4 DEF ListenRequestAdd, EntryInv
<1>5. CASE ListenStopDelete
  BY <1>0, <1>5 DEF ListenStopDelete, EntryInv, recvVars
<1> QED
  BY <1>1, <1>2, <1>3, <1>4, <1>5, LeavesRequestsSteps

LEMMA ListenSlotStep ==
    ASSUME QueueInv, EntryInv, ListenSlotAccounting, [RxNext]_rxVars
    PROVE  ListenSlotAccounting'
<1> USE DEF ReceiveGoto, ReceiveReturn
<1>0. /\ rpc \in [Receivers -> RxLocations]
      /\ rreq \in [Receivers -> Requests \cup {0}]
      /\ request \in [Requests -> {"none", "live", "freed"}]
      /\ open_slots \in Nat
      /\ \A r \in Receivers : HasFresh(r) => rreq[r] \in Requests
  BY DEF QueueInv, RxTypeOK, HasFresh
<1>h. ListenSlotAccounting <=> open_slots + Cardinality(Held) = OpenSlots
  BY DEF ListenSlotAccounting, Held
<1>p. ListenSlotAccounting' <=> open_slots' + Cardinality(Held') = OpenSlots
  BY DEF ListenSlotAccounting, Held
<1>f. IsFiniteSet(Held) /\ Cardinality(Held) \in Nat
  <2>1. IsFiniteSet(Requests)
    BY FS_Interval, RxConstants DEF Requests
  <2> QED
    BY <2>1, FS_Subset, FS_CardinalityType DEF Held
<1>1. ASSUME Held' = Held, open_slots' = open_slots PROVE ListenSlotAccounting'
  BY <1>1, <1>h, <1>p
<1>2. CASE LeavesRequests
  <2>1. Held' = Held /\ open_slots' = open_slots
    BY <1>2 DEF LeavesRequests, Held
  <2> QED
    BY <1>1, <2>1
<1>3. ASSUME NEW r \in Receivers, ReceiveFind(r) PROVE ListenSlotAccounting'
  <2>1. open_slots' = open_slots
    BY <1>3 DEF ReceiveFind
  <2>2. CASE rx_entry # 0
    <3>1. Held' = Held
      BY <1>0, <1>3, <2>2 DEF ReceiveFind, Held
    <3> QED
      BY <1>1, <2>1, <3>1
  <2>3. CASE rx_entry = 0
    <3>1. PICK q \in Requests :
             /\ request[q] = "none"
             /\ request' = [request EXCEPT ![q] = "live"]
             /\ rreq' = [rreq EXCEPT ![r] = q]
             /\ rpc' = [rpc EXCEPT ![r] = "sem"]
      BY <1>3, <2>3 DEF ReceiveFind
    <3>2. rpc[r] = "find"
      BY <1>3 DEF ReceiveFind
    <3>3. Held' = Held
      BY <1>0, <3>1, <3>2 DEF Held
    <3> QED
      BY <1>1, <2>1, <3>3
  <2> QED
    BY <2>2, <2>3
<1>4. ASSUME NEW r \in Receivers, ListenSemWait(r) PROVE ListenSlotAccounting'
  <2>1. /\ rpc[r] = "sem" /\ rpc' = [rpc EXCEPT ![r] = "add"]
        /\ open_slots' = open_slots - 1
        /\ UNCHANGED <<rreq, request>>
    BY <1>4 DEF ListenSemWait
  <2>2. /\ rreq[r] \in Requests /\ request[rreq[r]] = "live"
        /\ \A u \in Receivers : rpc[u] = "sem" /\ u # r => rreq[u] # rreq[r]
    BY <1>0, <2>1 DEF EntryInv, HasFresh
  <2>3. Held' = Held \cup {rreq[r]} /\ rreq[r] \notin Held
    BY <1>0, <2>1, <2>2 DEF Held
  <2>4. Cardinality(Held \cup {rreq[r]}) = Cardinality(Held) + 1
    BY <1>f, <2>3, FS_AddElement
  <2> QED
    BY <1>0, <1>f, <1>h, <1>p, <2>1, <2>3, <2>4, RxConstants
<1>5. ASSUME NEW r \in Receivers, ListenRequestAdd(r) PROVE ListenSlotAccounting'
  <2>1. Held' = Held /\ open_slots' = open_slots
    BY <1>0, <1>5 DEF ListenRequestAdd, Held
  <2> QED
    BY <1>1, <2>1
<1>6. CASE ListenStopDelete
  <2>1. /\ request' = [request EXCEPT ![rx_entry] = "freed"]
        /\ open_slots' = open_slots + 1
        /\ UNCHANGED <<rpc, rreq>>
    BY <1>6 DEF ListenStopDelete, recvVars
  <2>2. rx_entry \in Requests
    BY <1>6 DEF ListenStopDelete, QueueInv, RxTypeOK
  <2>3. Held' = Held \ {rx_entry} /\ rx_entry \in Held
    BY <1>0, <2>1, <2>2, RxConstants DEF Held, EntryInv, EntryIsLive, HasFresh, Requests
  <2>4. Cardinality(Held \ {rx_entry}) = Cardinality(Held) - 1
    BY <1>f, <2>3, FS_RemoveElement
  <2> QED
    BY <1>0, <1>f, <1>h, <1>p, <2>1, <2>3, <2>4, RxConstants
<1> QED
  BY <1>2, <1>3, <1>4, <1>5, <1>6, LeavesRequestsSteps

ListenInv == QueueInv /\ EntryInv /\ ListenSlotAccounting

LEMMA ListenInvInit == RxInit => ListenInv
<1> SUFFICES ASSUME RxInit PROVE ListenInv
  OBVIOUS
<1>1. QueueInv
  BY QueueInvInit
<1>2. EntryInv
  BY DEF RxInit, EntryInv, EntryIsLive, HasFresh
<1>3. Held = {} /\ open_slots = OpenSlots
  BY DEF RxInit, Held
<1>4. ListenSlotAccounting
  BY <1>3, FS_EmptySet, RxConstants DEF ListenSlotAccounting, Held
<1> QED
  BY <1>1, <1>2, <1>4 DEF ListenInv

LEMMA ListenInvStep == ListenInv /\ [RxNext]_rxVars => ListenInv'
BY QueueInvEvent, QueueInvReceive, QueueInvCtl, QueueInvStutter, EntryInvStep,
   ListenSlotStep DEF RxNext, ListenInv

\* The request under "pubsub_data_rx" is allocated memory whenever
\* _mio_request_get returns it, however starts and stops interleave.
THEOREM EntryStaysLive == RxSpec => []EntryIsLive
<1>1. ListenInv => EntryIsLive
  BY DEF ListenInv, EntryInv
<1> QED
  BY <1>1, ListenInvInit, ListenInvStep, PTL DEF RxSpec

\* A slot taken for listening belongs to a request that is still allocated:
\* stopping gives back one slot per request, and no slot twice.
THEOREM ListenSlotsAreAccounted == RxSpec => []ListenSlotAccounting
<1>1. ListenInv => ListenSlotAccounting
  BY DEF ListenInv
<1> QED
  BY <1>1, ListenInvInit, ListenInvStep, PTL DEF RxSpec

=============================================================================

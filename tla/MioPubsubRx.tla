---------------------------- MODULE MioPubsubRx ----------------------------
(***************************************************************************)
(* Receiving published data: the event thread appends every pubsub event   *)
(* to conn->pubsub_rx_queue and signals the request "pubsub_data_rx";      *)
(* threads in mio_pubsub_data_receive() take responses from the queue, or  *)
(* start listening and wait on that request; a control thread may stop the *)
(* listening, clear the queue or register a handler of its own.            *)
(*                                                                         *)
(* The connection is authenticated throughout.  Published responses are    *)
(* the numbers 1, 2, .. in the order in which the event thread reads them. *)
(* Every call of mio_pubsub_data_listen_start allocates a new mio_request; *)
(* requests are numbered in the order of allocation.                       *)
(***************************************************************************)
EXTENDS Naturals, Sequences, FiniteSets

CONSTANTS
    Receivers,      \* threads that call mio_pubsub_data_receive
    CtlCalls,       \* what the control thread calls: "stop", "clear", "handler"
    QueueMaxLen,    \* MIO_PUBSUB_RX_QUEUE_MAX_LEN
    OpenSlots,      \* slots of mio_open_requests left for listening
    MaxItems,       \* bound: responses published
    MaxStarts       \* bound: calls of mio_pubsub_data_listen_start

ASSUME RxConstants ==
    /\ CtlCalls \subseteq {"stop", "clear", "handler"}
    /\ QueueMaxLen \in Nat \ {0}
    /\ OpenSlots \in Nat
    /\ MaxItems \in Nat
    /\ MaxStarts \in Nat

Items == 1..MaxItems
Requests == 1..MaxStarts

VARIABLES
    rx_queue,     \* conn->pubsub_rx_queue
    rx_len,       \* conn->pubsub_rx_queue_len
    rx_listening, \* conn->pubsub_rx_listening
    rx_entry,     \* the request under "pubsub_data_rx" in the table, 0: none
    request,      \* [Requests -> {"none", "live", "freed"}]
    predicate,    \* [Requests -> BOOLEAN]
    open_slots,   \* the semaphore conn->mio_open_requests
    hooked,       \* which mio handler libstrophe has under mio_handler_generic
    ev,           \* where the event thread is
    evItem,       \* the response it handles
    evReq,        \* the request its handler found
    rpc,          \* where each receiver is
    rreq,         \* the request each receiver works with, 0: none
    rret,         \* what its last call returned
    ctl,          \* where the control thread is
    published,    \* responses read from the socket so far
    delivered     \* responses taken off the queue, in that order (history)

queueVars == <<rx_queue, rx_len>>
listenVars == <<rx_listening, rx_entry, request, predicate, open_slots, hooked>>
evVars == <<ev, evItem, evReq, published>>
recvVars == <<rpc, rreq, rret>>
rxVars == <<queueVars, listenVars, evVars, recvVars, ctl, delivered>>

RxLocations ==
    {"idle", "find", "sem", "add", "hook", "refind", "test", "predicate",
     "lock", "wait", "clear", "take", "crashed"}

\* Types of the queue, of the listening requests and of the threads around them.
RxTypeOK ==
    /\ rx_queue \in Seq(Items)
    /\ rx_len \in Nat
    /\ rx_listening \in BOOLEAN
    /\ rx_entry \in Requests \cup {0}
    /\ request \in [Requests -> {"none", "live", "freed"}]
    /\ predicate \in [Requests -> BOOLEAN]
    /\ open_slots \in Nat
    /\ hooked \in {"none", "pubsub", "other"}
    /\ ev \in {"idle", "get", "readlen", "insert", "replace", "signal", "crashed"}
    /\ evItem \in Items \cup {0}
    /\ evReq \in Requests \cup {0}
    /\ rpc \in [Receivers -> RxLocations]
    /\ rreq \in [Receivers -> Requests \cup {0}]
    /\ rret \in [Receivers -> {"none", "ok", "no_response", "too_many"}]
    /\ ctl \in {"idle", "signal", "delete", "drain", "crashed"}
    /\ published \in 0..MaxItems
    /\ delivered \in Seq(Items)

RxInit ==
    /\ rx_queue = <<>>
    /\ rx_len = 0
    /\ rx_listening = FALSE
    /\ rx_entry = 0
    /\ request = [q \in Requests |-> "none"]
    /\ predicate = [q \in Requests |-> FALSE]
    /\ open_slots = OpenSlots
    /\ hooked = "none"
    /\ ev = "idle"
    /\ evItem = 0
    /\ evReq = 0
    /\ rpc = [r \in Receivers |-> "idle"]
    /\ rreq = [r \in Receivers |-> 0]
    /\ rret = [r \in Receivers |-> "none"]
    /\ ctl = "idle"
    /\ published = 0
    /\ delivered = <<>>

-----------------------------------------------------------------------------
(***************************************************************************)
(* The queue and the request.                                              *)
(***************************************************************************)

\* _mio_pubsub_rx_queue_dequeue with something in the queue; the counter, not
\* the list, is what the code looks at.
Dequeue ==
    /\ rx_len > 0
    /\ rx_queue' = Tail(rx_queue)
    /\ rx_len' = rx_len - 1
    /\ delivered' = Append(delivered, Head(rx_queue))

\* _mio_cond_signal on request q: one waiting receiver, if any, is woken.
Signal(q) ==
    /\ predicate' = [predicate EXCEPT ![q] = TRUE]
    /\ LET waiting == {r \in Receivers : rpc[r] = "wait" /\ rreq[r] = q}
       IN  IF waiting = {}
           THEN UNCHANGED rpc
           ELSE \E r \in waiting : rpc' = [rpc EXCEPT ![r] = "predicate"]

\* What reading request->predicate can give: anything once it is freed.
PredicateRead(q) ==
    IF request[q] = "freed" THEN BOOLEAN ELSE {predicate[q]}

-----------------------------------------------------------------------------
(***************************************************************************)
(* The event thread: mio_handler_pubsub_data_receive, called for every     *)
(* pubsub event once the handler is registered.  The thread holds          *)
(* event_loop_mutex from EventRead until it is idle again.                 *)
(***************************************************************************)

EventRead ==
    /\ ev = "idle"
    /\ hooked = "pubsub"
    /\ published < MaxItems
    /\ published' = published + 1
    /\ evItem' = published + 1
    /\ ev' = "get"
    /\ UNCHANGED <<queueVars, listenVars, evReq, recvVars, ctl, delivered>>

\* _mio_request_get(conn, "pubsub_data_rx"), twice, and _mio_xml_parse; without
\* a request, or when the event is no data packet, it is dropped and the handler
\* kept.  The handler is registered without a response (mio.c 4913): what is
\* done with a NULL response when there is no request is to log its id.
EventGetRequest ==
    /\ ev = "get"
    /\ evReq' = rx_entry
    /\ \/ rx_entry # 0 /\ ev' = "readlen"
       \/ ev' = "idle"
    /\ UNCHANGED <<queueVars, listenVars, evItem, published, recvVars, ctl,
                   delivered>>

\* _mio_pubsub_rx_queue_enqueue reads the length before it takes the mutex.
EnqueueReadLen ==
    /\ ev = "readlen"
    /\ ev' = IF rx_len >= QueueMaxLen THEN "replace" ELSE "insert"
    /\ UNCHANGED <<queueVars, listenVars, evItem, evReq, published, recvVars,
                   ctl, delivered>>

\* Mutant: TAILQ_INSERT_HEAD in place of TAILQ_INSERT_TAIL.
EnqueueInsertAtHead ==
    /\ ev = "insert"
    /\ rx_queue' = <<evItem>> \o rx_queue
    /\ rx_len' = rx_len + 1
    /\ ev' = "signal"
    /\ UNCHANGED <<listenVars, evItem, evReq, published, recvVars, ctl, delivered>>

EnqueueInsert ==
    /\ ev = "insert"
    /\ rx_queue' = Append(rx_queue, evItem)
    /\ rx_len' = rx_len + 1
    /\ ev' = "signal"
    /\ UNCHANGED <<listenVars, evItem, evReq, published, recvVars, ctl, delivered>>

\* Mutant: the length is counted up in both branches.
EnqueueReplaceCounts ==
    /\ ev = "replace"
    /\ IF rx_queue = <<>>
       THEN ev' = "crashed" /\ UNCHANGED queueVars
       ELSE /\ ev' = "signal"
            /\ rx_queue' = Append(Tail(rx_queue), evItem)
            /\ rx_len' = rx_len + 1
    /\ UNCHANGED <<listenVars, evItem, evReq, published, recvVars, ctl, delivered>>

\* Mutant: the whole list is emptied, not only its oldest response.
EnqueueReplaceDropsAll ==
    /\ ev = "replace"
    /\ IF rx_queue = <<>>
       THEN ev' = "crashed" /\ UNCHANGED queueVars
       ELSE /\ ev' = "signal"
            /\ rx_queue' = <<evItem>>
            /\ rx_len' = 1
    /\ UNCHANGED <<listenVars, evItem, evReq, published, recvVars, ctl, delivered>>

\* The oldest response is unlinked and the new one appended; the first item
\* of a list that was drained meanwhile is NULL.
EnqueueReplace ==
    /\ ev = "replace"
    /\ IF rx_queue = <<>>
       THEN ev' = "crashed" /\ UNCHANGED rx_queue
       ELSE ev' = "signal" /\ rx_queue' = Append(Tail(rx_queue), evItem)
    /\ UNCHANGED <<rx_len, listenVars, evItem, evReq, published, recvVars,
                   ctl, delivered>>

EventSignal ==
    /\ ev = "signal"
    /\ Signal(evReq)
    /\ ev' = "idle"
    /\ UNCHANGED <<queueVars, rx_listening, rx_entry, request, open_slots,
                   hooked, evItem, evReq, published, rreq, rret, ctl, delivered>>

-----------------------------------------------------------------------------
(***************************************************************************)
(* A receiver: mio_pubsub_data_receive, and the call it may make of        *)
(* mio_pubsub_data_listen_start.                                           *)
(***************************************************************************)

\* A call that returns gives up its local variables; rret is "none" while a
\* call is under way.
ReceiveGoto(r, l) == rpc' = [rpc EXCEPT ![r] = l]
ReceiveReturn(r, code) ==
    /\ rpc' = [rpc EXCEPT ![r] = "idle"]
    /\ rreq' = [rreq EXCEPT ![r] = 0]
    /\ rret' = [rret EXCEPT ![r] = code]

\* The first look at the queue, at the start of the call.
ReceiveFirst(r) ==
    /\ rpc[r] = "idle"
    /\ \/ Dequeue /\ ReceiveReturn(r, "ok")
       \/ /\ rx_len <= 0
          /\ ReceiveGoto(r, "find")
          /\ rret' = [rret EXCEPT ![r] = "none"]
          /\ UNCHANGED <<queueVars, delivered, rreq>>
    /\ UNCHANGED <<listenVars, evVars, ctl>>

\* _mio_request_get, and a new request for mio_pubsub_data_listen_start when
\* there is none.
ReceiveFind(r) ==
    /\ rpc[r] = "find"
    /\ IF rx_entry # 0
       THEN /\ rreq' = [rreq EXCEPT ![r] = rx_entry]
            /\ ReceiveGoto(r, "test")
            /\ UNCHANGED request
       ELSE \E q \in {p \in Requests : request[p] = "none"} :
               /\ \A p \in Requests : request[p] = "none" => q <= p
               /\ request' = [request EXCEPT ![q] = "live"]
               /\ rreq' = [rreq EXCEPT ![r] = q]
               /\ ReceiveGoto(r, "sem")
    /\ UNCHANGED <<queueVars, rx_listening, rx_entry, predicate, open_slots,
                   hooked, evVars, rret, ctl, delivered>>

ListenSemWait(r) ==
    /\ rpc[r] = "sem"
    /\ open_slots > 0
    /\ open_slots' = open_slots - 1
    /\ ReceiveGoto(r, "add")
    /\ UNCHANGED <<queueVars, rx_listening, rx_entry, request, predicate,
                   hooked, evVars, rreq, rret, ctl, delivered>>

\* _mio_request_add: refused with the last slot gone, a no-op that succeeds
\* when another thread has entered "pubsub_data_rx" before.
ListenRequestAdd(r) ==
    /\ rpc[r] = "add"
    /\ IF open_slots <= 0
       THEN ReceiveReturn(r, "too_many") /\ UNCHANGED rx_entry
       ELSE /\ rx_entry' = IF rx_entry = 0 THEN rreq[r] ELSE rx_entry
            /\ ReceiveGoto(r, "hook")
            /\ UNCHANGED <<rreq, rret>>
    /\ UNCHANGED <<queueVars, rx_listening, request, predicate, open_slots,
                   hooked, evVars, ctl, delivered>>

\* xmpp_handler_add under event_loop_mutex: libstrophe keeps one handler per
\* function pointer, and every mio handler is mio_handler_generic to it.
ListenHandlerAdd(r) ==
    /\ rpc[r] = "hook"
    /\ ev = "idle"
    /\ hooked' = IF hooked = "none" THEN "pubsub" ELSE hooked
    /\ rx_listening' = TRUE
    /\ ReceiveGoto(r, "refind")
    /\ UNCHANGED <<queueVars, rx_entry, request, predicate, open_slots,
                   evVars, rreq, rret, ctl, delivered>>

\* The request is fetched again after listen_start, and dereferenced even if
\* a concurrent stop has removed it.
ReceiveRefind(r) ==
    /\ rpc[r] = "refind"
    /\ rreq' = [rreq EXCEPT ![r] = rx_entry]
    /\ ReceiveGoto(r, IF rx_entry = 0 THEN "crashed" ELSE "test")
    /\ UNCHANGED <<queueVars, listenVars, evVars, rret, ctl, delivered>>

\* The outer loop condition, read without a lock.
ReceiveTest(r) ==
    /\ rpc[r] = "test"
    /\ ReceiveGoto(r, IF rx_len <= 0 /\ rx_listening THEN "predicate" ELSE "clear")
    /\ UNCHANGED <<queueVars, listenVars, evVars, rreq, rret, ctl, delivered>>

\* The inner loop condition, read without request->mutex.
ReceivePredicate(r) ==
    /\ rpc[r] = "predicate"
    /\ \E b \in PredicateRead(rreq[r]) : ReceiveGoto(r, IF b THEN "test" ELSE "lock")
    /\ UNCHANGED <<queueVars, listenVars, evVars, rreq, rret, ctl, delivered>>

\* pthread_mutex_lock and pthread_cond_wait: no second look, no timeout.
ReceiveLockAndWait(r) ==
    /\ rpc[r] = "lock"
    /\ ReceiveGoto(r, "wait")
    /\ UNCHANGED <<queueVars, listenVars, evVars, rreq, rret, ctl, delivered>>

ReceiveSpurious(r) ==
    /\ rpc[r] = "wait"
    /\ ReceiveGoto(r, "predicate")
    /\ UNCHANGED <<queueVars, listenVars, evVars, rreq, rret, ctl, delivered>>

\* request->predicate = 0, without request->mutex.
ReceiveClear(r) ==
    /\ rpc[r] = "clear"
    /\ predicate' = IF request[rreq[r]] = "live"
                    THEN [predicate EXCEPT ![rreq[r]] = FALSE]
                    ELSE predicate
    /\ ReceiveGoto(r, "take")
    /\ UNCHANGED <<queueVars, rx_listening, rx_entry, request, open_slots,
                   hooked, evVars, rreq, rret, ctl, delivered>>

\* The second look at the queue.
ReceiveTake(r) ==
    /\ rpc[r] = "take"
    /\ \/ Dequeue /\ ReceiveReturn(r, "ok")
       \/ /\ rx_len <= 0
          /\ ReceiveReturn(r, "no_response")
          /\ UNCHANGED <<queueVars, delivered>>
    /\ UNCHANGED <<listenVars, evVars, ctl>>

-----------------------------------------------------------------------------
(***************************************************************************)
(* The control thread.                                                     *)
(***************************************************************************)

\* mio_pubsub_data_listen_stop, if a request is found: listening ends, ...
ListenStop ==
    /\ "stop" \in CtlCalls
    /\ ctl = "idle"
    /\ rx_entry # 0
    /\ rx_listening' = FALSE
    /\ ctl' = "signal"
    /\ UNCHANGED <<queueVars, rx_entry, request, predicate, open_slots,
                   hooked, evVars, recvVars, delivered>>

\* ... the request is signalled ...
ListenStopSignal ==
    /\ ctl = "signal"
    /\ Signal(rx_entry)
    /\ ctl' = "delete"
    /\ UNCHANGED <<queueVars, rx_listening, rx_entry, request, open_slots,
                   hooked, evVars, rreq, rret, delivered>>

\* Mutant: the request is freed without HASH_DEL.
ListenStopKeepsEntry ==
    /\ ctl = "delete"
    /\ request' = [request EXCEPT ![rx_entry] = "freed"]
    /\ open_slots' = open_slots + 1
    /\ ctl' = "idle"
    /\ UNCHANGED <<queueVars, rx_listening, rx_entry, predicate, hooked, evVars,
                   recvVars, delivered>>

\* Mutant: the sem_post is forgotten.
ListenStopNoPost ==
    /\ ctl = "delete"
    /\ request' = [request EXCEPT ![rx_entry] = "freed"]
    /\ rx_entry' = 0
    /\ ctl' = "idle"
    /\ UNCHANGED <<queueVars, rx_listening, predicate, open_slots, hooked,
                   evVars, recvVars, delivered>>

\* ... and _mio_request_delete frees it and posts its slot.
ListenStopDelete ==
    /\ ctl = "delete"
    /\ request' = [request EXCEPT ![rx_entry] = "freed"]
    /\ rx_entry' = 0
    /\ open_slots' = open_slots + 1
    /\ ctl' = "idle"
    /\ UNCHANGED <<queueVars, rx_listening, predicate, hooked, evVars,
                   recvVars, delivered>>

\* mio_pubsub_data_rx_queue_clear takes the first response and, while it got
\* one, takes the next and frees that one: in the end NULL.
ClearFirst ==
    /\ "clear" \in CtlCalls
    /\ ctl = "idle"
    /\ Dequeue
    /\ ctl' = "drain"
    /\ UNCHANGED <<listenVars, evVars, recvVars>>

ClearNext ==
    /\ ctl = "drain"
    /\ \/ Dequeue /\ UNCHANGED ctl
       \/ rx_len <= 0 /\ ctl' = "crashed" /\ UNCHANGED <<queueVars, delivered>>
    /\ UNCHANGED <<listenVars, evVars, recvVars>>

\* mio_handler_add by the application, for stanzas of its own.
OtherHandlerAdd ==
    /\ "handler" \in CtlCalls
    /\ ctl = "idle"
    /\ ev = "idle"
    /\ hooked = "none"
    /\ hooked' = "other"
    /\ UNCHANGED <<queueVars, rx_listening, rx_entry, request, predicate,
                   open_slots, evVars, recvVars, ctl, delivered>>

-----------------------------------------------------------------------------
EventSteps ==
    \/ EventGetRequest \/ EnqueueReadLen \/ EnqueueInsert \/ EnqueueReplace
    \/ EventSignal

ReceiveSteps(r) ==
    \/ ReceiveFirst(r) \/ ReceiveFind(r) \/ ListenSemWait(r)
    \/ ListenRequestAdd(r) \/ ListenHandlerAdd(r) \/ ReceiveRefind(r)
    \/ ReceiveTest(r) \/ ReceivePredicate(r) \/ ReceiveLockAndWait(r)
    \/ ReceiveClear(r) \/ ReceiveTake(r)

CtlSteps == ListenStopSignal \/ ListenStopDelete \/ ClearNext

RxNext ==
    \/ EventRead
    \/ EventSteps
    \/ \E r \in Receivers : ReceiveSteps(r) \/ ReceiveSpurious(r)
    \/ ListenStop
    \/ ClearFirst
    \/ CtlSteps
    \/ OtherHandlerAdd

\* All threads are scheduled; a receiver gets event_loop_mutex although the
\* event thread takes it again and again.  Nothing is published by fairness.
RxFairness ==
    /\ WF_rxVars(EventSteps)
    /\ WF_rxVars(CtlSteps)
    /\ \A r \in Receivers : SF_rxVars(ReceiveSteps(r))

RxSpec == RxInit /\ [][RxNext]_rxVars /\ RxFairness

-----------------------------------------------------------------------------
(***************************************************************************)
(* Properties.                                                             *)
(***************************************************************************)

\* The counter the code trusts is the length of the list, although the event
\* thread decides between its two ways of enqueuing on a stale reading, and
\* the list never grows past MIO_PUBSUB_RX_QUEUE_MAX_LEN.
QueueLenExact ==
    /\ rx_len = Len(rx_queue)
    /\ rx_len <= QueueMaxLen

\* Responses leave the queue in the order in which they were published, each
\* at most once, whichever threads take them and whichever are dropped.
DeliveredInOrder ==
    LET out == delivered \o rx_queue
    IN  \A i, j \in 1..Len(out) : i < j => out[i] < out[j]

\* mio_pubsub_data_listen_stop frees a request only after taking it out of
\* the table: what _mio_request_get returns is allocated memory.
EntryIsLive == rx_entry # 0 => request[rx_entry] = "live"

\* Every slot of mio_open_requests taken for listening belongs to a request
\* that is still allocated: stopping gives back exactly one slot per request.
ListenSlotAccounting ==
    open_slots
      + Cardinality({q \in Requests :
                        /\ request[q] = "live"
                        /\ ~ \E r \in Receivers : rpc[r] = "sem" /\ rreq[r] = q})
      = OpenSlots

\* The queue implements RxChannel.
Channel == INSTANCE RxChannel WITH
    Bound <- QueueMaxLen, buf <- rx_queue, out <- delivered

ImplementsRxChannel == Channel!ChannelSpec

-----------------------------------------------------------------------------
(***************************************************************************)
(* What the comments of the code claim and the code does not do.           *)
(***************************************************************************)

\* mio_pubsub_data_receive: "If there is a pubsub response waiting on the
\* pubsub_rx_queue, return it. Else block until we receive one."
BlockedOnlyWhileEmpty ==
    \A r \in Receivers : (rpc[r] = "wait" /\ rx_len > 0) ~> (rpc[r] # "wait" \/ rx_len = 0)

=============================================================================

----------------------------- MODULE MioRequest -----------------------------
(***************************************************************************)
(* Blocking requests over one connection: every query of libMIO builds a   *)
(* stanza with a fresh id and hands it to _mio_send_blocking(), which      *)
(*   - takes one of MIO_MAX_OPEN_REQUESTS slots from a semaphore,          *)
(*   - enters the request in conn->mio_request_table and an id handler in  *)
(*     libstrophe's id_handlers,                                           *)
(*   - queues the stanza through _mio_send_nonblocking(),                  *)
(*   - and waits on the request's condition variable until the event       *)
(*     thread, in the id handler, has parsed the reply and signals it.     *)
(*                                                                         *)
(* One member of Callers is one call of _mio_send_blocking, with the id of *)
(* its stanza.  The module extends MioConnection: the event thread is the  *)
(* same thread, and the calls meet it at event_loop_mutex, at conn_mutex,  *)
(* in the send queue, in the two tables and at the condition variables.    *)
(* The server is external: it answers each stanza it was sent, or never.   *)
(***************************************************************************)
EXTENDS MioConnection, FiniteSets

CONSTANTS
    MaxOpenRequests,  \* MIO_MAX_OPEN_REQUESTS
    SendRetries       \* MIO_SEND_RETRIES

ASSUME RequestConstants ==
    /\ MaxOpenRequests \in Nat
    /\ SendRetries \in Nat \ {0}
    /\ IsFiniteSet(Callers)

VARIABLES
    pc,          \* where each call is in _mio_send_blocking
    ret,         \* what it returns, or will return
    open_slots,  \* the value of the semaphore conn->mio_open_requests
    table,       \* ids in conn->mio_request_table
    request,     \* the mio_request_t of each call: "none", "live", "freed"
    predicate,   \* request->predicate
    attempts,    \* send_attempts
    id_handlers, \* ids with a handler in xmpp_conn->id_handlers
    cur,         \* the id whose handler the event thread runs
    sent,        \* stanzas the server has and may answer
    replies      \* answers on their way back

callVars == <<pc, ret, open_slots, table, request, predicate, attempts,
              id_handlers>>
wireVars == <<cur, sent, replies>>
vars == <<connVars, callVars, wireVars>>

Locations ==
    {"idle", "sem", "add", "insert", "hooklock", "hook", "send", "enqlock",
     "enqueue", "wake", "connlock", "connwait", "connwoken", "connretest",
     "conntimedout", "unhook", "delete", "check", "lock", "wait", "woken", "timedout", "done"}

ReturnCodes == {"none", "ok", "connection", "timeout", "predicate"}

ReqTypeOK ==
    /\ ConnTypeOK
    /\ pc \in [Callers -> Locations]
    /\ ret \in [Callers -> ReturnCodes]
    /\ open_slots \in Nat
    /\ table \in SUBSET Callers
    /\ request \in [Callers -> {"none", "live", "freed"}]
    /\ predicate \in [Callers -> BOOLEAN]
    /\ attempts \in [Callers -> 0..SendRetries]
    /\ id_handlers \in SUBSET Callers
    /\ cur \in Callers \cup {"none"}
    /\ sent \in SUBSET Callers
    /\ replies \in SUBSET Callers

CallInit ==
    /\ pc = [c \in Callers |-> "idle"]
    /\ ret = [c \in Callers |-> "none"]
    /\ open_slots = MaxOpenRequests
    /\ table = {}
    /\ request = [c \in Callers |-> "none"]
    /\ predicate = [c \in Callers |-> FALSE]
    /\ attempts = [c \in Callers |-> 0]
    /\ id_handlers = {}
    /\ cur = "none"
    /\ sent = {}
    /\ replies = {}

\* A connection on which mio_connect has returned MIO_OK and the event loop
\* is turning.
SessionInit ==
    /\ conn_state = "connected"
    /\ authenticated = TRUE
    /\ loop_status = "running"
    /\ event_loop_mutex = "none"
    /\ conn_mutex = "none"
    /\ conn_predicate = FALSE
    /\ shd = "live"
    /\ connResponse = "freed"
    /\ presence_status = "unknown"
    /\ send_queue = <<>>
    /\ cleanup = FALSE
    /\ wake_request = FALSE
    /\ run = "loop"
    /\ app = "returned"
    /\ connectRet = "ok"

-----------------------------------------------------------------------------
(***************************************************************************)
(* A call of _mio_send_blocking.                                           *)
(***************************************************************************)

Goto(c, l) == pc' = [pc EXCEPT ![c] = l]

\* The application uses the connection once mio_connect has returned,
\* whatever it returned.
MayCall == app \in {"returned", "stop", "xdisconnect", "strayunlock", "closed"}

\* mio_disconnect closes the semaphore; the process faults at the next use of
\* it, which the model leaves out.
SemaphoreMapped == app \notin {"strayunlock", "closed"}

\* _mio_request_new.
RequestNew(c) ==
    /\ pc[c] = "idle"
    /\ MayCall
    /\ request' = [request EXCEPT ![c] = "live"]
    /\ Goto(c, "sem")
    /\ UNCHANGED <<connVars, wireVars, ret, open_slots, table, predicate,
                   attempts, id_handlers>>

\* Mutant: sem_trywait whose failure is not looked at.
SemWaitUnchecked(c) ==
    /\ pc[c] = "sem"
    /\ SemaphoreMapped
    /\ open_slots' = open_slots - 1
    /\ Goto(c, "add")
    /\ UNCHANGED <<connVars, wireVars, ret, table, request, predicate,
                   attempts, id_handlers>>

\* sem_wait(conn->mio_open_requests), which has no timeout.
SemWait(c) ==
    /\ pc[c] = "sem"
    /\ SemaphoreMapped
    /\ open_slots > 0
    /\ open_slots' = open_slots - 1
    /\ Goto(c, "add")
    /\ UNCHANGED <<connVars, wireVars, ret, table, request, predicate,
                   attempts, id_handlers>>

\* The sem_getvalue test of _mio_request_add: with no slot left the request
\* is refused, and _mio_send_blocking does not look at the refusal.
RequestAddTest(c) ==
    /\ pc[c] = "add"
    /\ SemaphoreMapped
    /\ Goto(c, IF open_slots <= 0 THEN "send" ELSE "insert")
    /\ UNCHANGED <<connVars, wireVars, ret, open_slots, table, request,
                   predicate, attempts, id_handlers>>

\* _mio_request_add under the write lock of mio_hash_lock.
RequestAdd(c) ==
    /\ pc[c] = "insert"
    /\ table' = table \cup {c}
    /\ Goto(c, "hooklock")
    /\ UNCHANGED <<connVars, wireVars, ret, open_slots, request, predicate,
                   attempts, id_handlers>>

\* mio_handler_id_add takes event_loop_mutex ...
HandlerIdAddLock(c) ==
    /\ pc[c] = "hooklock"
    /\ event_loop_mutex = "none"
    /\ event_loop_mutex' = c
    /\ Goto(c, "hook")
    /\ UNCHANGED <<linkVars, conn_mutex, conn_predicate, dataVars, run, app,
                   connectRet, wireVars, ret, open_slots, table, request,
                   predicate, attempts, id_handlers>>

\* ... calls xmpp_id_handler_add, and unlocks.
HandlerIdAdd(c) ==
    /\ pc[c] = "hook"
    /\ id_handlers' = id_handlers \cup {c}
    /\ event_loop_mutex' = "none"
    /\ Goto(c, "send")
    /\ UNCHANGED <<linkVars, conn_mutex, conn_predicate, dataVars, run, app,
                   connectRet, wireVars, ret, open_slots, table, request,
                   predicate, attempts>>

\* _mio_send_nonblocking tests authenticated; when it fails the caller gives
\* up after MIO_SEND_RETRIES attempts or waits for the connection.
SendTest(c) ==
    /\ pc[c] = "send"
    /\ IF authenticated
       THEN Goto(c, "enqlock") /\ UNCHANGED <<ret, attempts>>
       ELSE /\ attempts' = [attempts EXCEPT ![c] = @ + 1]
            /\ IF attempts[c] + 1 >= SendRetries
               THEN Goto(c, "unhook") /\ ret' = [ret EXCEPT ![c] = "connection"]
               ELSE Goto(c, "connlock") /\ UNCHANGED ret
    /\ UNCHANGED <<connVars, wireVars, open_slots, table, request, predicate,
                   id_handlers>>

\* Mutant: the stanza is queued without waiting for event_loop_mutex.
EnqueueLockSkipped(c) ==
    /\ pc[c] = "enqlock"
    /\ Goto(c, "enqueue")
    /\ UNCHANGED <<connVars, wireVars, ret, open_slots, table, request,
                   predicate, attempts, id_handlers>>

EnqueueLock(c) ==
    /\ pc[c] = "enqlock"
    /\ event_loop_mutex = "none"
    /\ event_loop_mutex' = c
    /\ Goto(c, "enqueue")
    /\ UNCHANGED <<linkVars, conn_mutex, conn_predicate, dataVars, run, app,
                   connectRet, wireVars, ret, open_slots, table, request,
                   predicate, attempts, id_handlers>>

\* xmpp_send_raw, which drops the stanza when the link is down, and unlock.
Enqueue(c) ==
    /\ pc[c] = "enqueue"
    /\ SendUnlocked(c)
    /\ event_loop_mutex' = "none"
    /\ Goto(c, "wake")
    /\ UNCHANGED <<linkVars, conn_mutex, conn_predicate, shd, connResponse,
                   wake_request, run, app, connectRet, wireVars, ret,
                   open_slots, table, request, predicate, attempts, id_handlers>>

\* _mio_cond_signal on send_request_cond.
WakeLoop(c) ==
    /\ pc[c] = "wake"
    /\ wake_request' = TRUE
    /\ Goto(c, "check")
    /\ UNCHANGED <<linkVars, lockVars, shd, connResponse, send_queue, run,
                   app, connectRet, wireVars, ret, open_slots, table, request,
                   predicate, attempts, id_handlers>>

\* pthread_mutex_lock(&conn_mutex): if the predicate is still set from an
\* earlier event, the send is retried with the mutex held.
ReconnectLock(c) ==
    /\ pc[c] = "connlock"
    /\ conn_mutex = "none"
    /\ IF conn_predicate
       THEN conn_mutex' = c /\ Goto(c, "send")
       ELSE Goto(c, "connwait") /\ UNCHANGED conn_mutex
    /\ UNCHANGED <<linkVars, event_loop_mutex, conn_predicate, dataVars, run,
                   app, connectRet, wireVars, ret, open_slots, table, request,
                   predicate, attempts, id_handlers>>

\* The wait returned 0: the mutex is taken again, and unlocked.
ReconnectWoken(c) ==
    /\ pc[c] = "connwoken"
    /\ conn_mutex = "none"
    /\ Goto(c, "connretest")
    /\ UNCHANGED <<connVars, wireVars, ret, open_slots, table, request,
                   predicate, attempts, id_handlers>>

\* The predicate is tested without the mutex.  If it was reset meanwhile the
\* code waits again on a mutex it does not hold, which releases it whoever
\* its owner is.
ReconnectRetest(c) ==
    /\ pc[c] = "connretest"
    /\ IF conn_predicate
       THEN Goto(c, "send") /\ UNCHANGED conn_mutex
       ELSE Goto(c, "connwait") /\ conn_mutex' = "none"
    /\ UNCHANGED <<linkVars, event_loop_mutex, conn_predicate, dataVars, run,
                   app, connectRet, wireVars, ret, open_slots, table, request,
                   predicate, attempts, id_handlers>>

\* ETIMEDOUT after MIO_RECONNECTION_TIMEOUT_S ...
ReconnectTimeout(c) ==
    /\ pc[c] = "connwait"
    /\ Goto(c, "conntimedout")
    /\ UNCHANGED <<connVars, wireVars, ret, open_slots, table, request,
                   predicate, attempts, id_handlers>>

\* ... with the mutex taken again, and released.
ReconnectTimedOut(c) ==
    /\ pc[c] = "conntimedout"
    /\ conn_mutex = "none"
    /\ ret' = [ret EXCEPT ![c] = "timeout"]
    /\ Goto(c, "unhook")
    /\ UNCHANGED <<connVars, wireVars, open_slots, table, request, predicate,
                   attempts, id_handlers>>

\* xmpp_id_handler_delete, called without event_loop_mutex.
IdHandlerDelete(c) ==
    /\ pc[c] = "unhook"
    /\ id_handlers' = id_handlers \ {c}
    /\ Goto(c, "delete")
    /\ UNCHANGED <<connVars, wireVars, ret, open_slots, table, request,
                   predicate, attempts>>

\* Mutant: the slot is posted whether or not the request was found.
RequestDeleteAlwaysPosts(c) ==
    /\ pc[c] = "delete"
    /\ c \in table => SemaphoreMapped
    /\ open_slots' = open_slots + 1
    /\ IF c \in table
       THEN table' = table \ {c} /\ request' = [request EXCEPT ![c] = "freed"]
       ELSE UNCHANGED <<table, request>>
    /\ Goto(c, "done")
    /\ UNCHANGED <<connVars, wireVars, ret, predicate, attempts, id_handlers>>

\* Mutant: the sem_post is forgotten.
RequestDeleteNoPost(c) ==
    /\ pc[c] = "delete"
    /\ c \in table => SemaphoreMapped
    /\ IF c \in table
       THEN table' = table \ {c} /\ request' = [request EXCEPT ![c] = "freed"]
       ELSE UNCHANGED <<table, request>>
    /\ Goto(c, "done")
    /\ UNCHANGED <<connVars, wireVars, ret, open_slots, predicate, attempts,
                   id_handlers>>

\* Mutant: the request is freed without HASH_DEL.
RequestDeleteKeepsEntry(c) ==
    /\ pc[c] = "delete"
    /\ c \in table => SemaphoreMapped
    /\ IF c \in table
       THEN /\ request' = [request EXCEPT ![c] = "freed"]
            /\ open_slots' = open_slots + 1
       ELSE UNCHANGED <<request, open_slots>>
    /\ Goto(c, "done")
    /\ UNCHANGED <<connVars, wireVars, ret, table, predicate, attempts,
                   id_handlers>>

\* _mio_request_delete: unlink under the write lock, free, sem_post; nothing
\* of the kind when the id is not in the table.  The call then returns.
RequestDelete(c) ==
    /\ pc[c] = "delete"
    /\ c \in table => SemaphoreMapped
    /\ IF c \in table
       THEN /\ table' = table \ {c}
            /\ request' = [request EXCEPT ![c] = "freed"]
            /\ open_slots' = open_slots + 1
       ELSE UNCHANGED <<table, request, open_slots>>
    /\ Goto(c, "done")
    /\ UNCHANGED <<connVars, wireVars, ret, predicate, attempts, id_handlers>>

\* while (!request->predicate), read without request->mutex.  A reply that is
\* already in makes the call return MIO_ERROR_PREDICATE, its request in place.
PredicateTest(c) ==
    /\ pc[c] = "check"
    /\ IF predicate[c]
       THEN Goto(c, "done") /\ ret' = [ret EXCEPT ![c] = "predicate"]
       ELSE Goto(c, "lock") /\ UNCHANGED ret
    /\ UNCHANGED <<connVars, wireVars, open_slots, table, request, predicate,
                   attempts, id_handlers>>

\* pthread_mutex_lock(&request->mutex) and pthread_cond_timedwait, with no
\* second look at the predicate.
LockAndWait(c) ==
    /\ pc[c] = "lock"
    /\ Goto(c, "wait")
    /\ UNCHANGED <<connVars, wireVars, ret, open_slots, table, request,
                   predicate, attempts, id_handlers>>

SpuriousWake(c) ==
    /\ SpuriousWakeups
    /\ \/ pc[c] = "wait" /\ Goto(c, "woken")
       \/ pc[c] = "connwait" /\ Goto(c, "connwoken")
    /\ UNCHANGED <<connVars, wireVars, ret, open_slots, table, request,
                   predicate, attempts, id_handlers>>

WaitWoken(c) ==
    /\ pc[c] = "woken"
    /\ ret' = [ret EXCEPT ![c] = "ok"]
    /\ Goto(c, "delete")
    /\ UNCHANGED <<connVars, wireVars, open_slots, table, request, predicate,
                   attempts, id_handlers>>

\* Mutant: ETIMEDOUT is taken for a signal.
WaitTimeoutTakenForSignal(c) ==
    /\ pc[c] = "wait"
    /\ Goto(c, "woken")
    /\ UNCHANGED <<connVars, wireVars, ret, open_slots, table, request,
                   predicate, attempts, id_handlers>>

\* Mutant: pthread_cond_wait in place of pthread_cond_timedwait.
WaitTimeoutNever(c) == FALSE /\ pc[c] = "wait" /\ UNCHANGED vars

\* ETIMEDOUT after MIO_REQUEST_TIMEOUT_S; the thread has request->mutex ...
WaitTimeout(c) ==
    /\ pc[c] = "wait"
    /\ Goto(c, "timedout")
    /\ UNCHANGED <<connVars, wireVars, ret, open_slots, table, request,
                   predicate, attempts, id_handlers>>

\* Mutant: the id handler is not deleted on a timeout.
WaitTimedOutKeepsHandler(c) ==
    /\ pc[c] = "timedout"
    /\ ret' = [ret EXCEPT ![c] = "timeout"]
    /\ Goto(c, "delete")
    /\ UNCHANGED <<connVars, wireVars, open_slots, table, request, predicate,
                   attempts, id_handlers>>

\* ... while it calls xmpp_id_handler_delete without event_loop_mutex.
WaitTimedOut(c) ==
    /\ pc[c] = "timedout"
    /\ id_handlers' = id_handlers \ {c}
    /\ ret' = [ret EXCEPT ![c] = "timeout"]
    /\ Goto(c, "delete")
    /\ UNCHANGED <<connVars, wireVars, open_slots, table, request, predicate,
                   attempts>>

-----------------------------------------------------------------------------
(***************************************************************************)
(* The event thread, at the places where it meets the calls.               *)
(***************************************************************************)

ReqFlush(n) ==
    /\ RunFlush(n)
    /\ sent' = sent \cup {send_queue[i] : i \in {j \in 1..n : send_queue[j] \in Callers}}
    /\ UNCHANGED <<callVars, cur, replies>>

\* With the socket, every answer still on its way is gone.
ReqConnLost ==
    /\ RunConnLost
    /\ sent' = {}
    /\ replies' = {}
    /\ UNCHANGED <<callVars, cur>>

\* The broadcast on conn_cond also wakes calls waiting for the connection.
ReqBroadcast ==
    /\ RunBroadcast
    /\ pc' = [c \in Callers |-> IF pc[c] = "connwait" THEN "connwoken" ELSE pc[c]]
    /\ UNCHANGED <<wireVars, ret, open_slots, table, request, predicate,
                   attempts, id_handlers>>

\* A reply is read and handler_fire_stanza looks its id up.
Receive(r) ==
    /\ run = "select"
    /\ conn_state = "connected"
    /\ r \in replies
    /\ replies' = replies \ {r}
    /\ IF r \in id_handlers /\ authenticated
       THEN run' = "get" /\ cur' = r
       ELSE UNCHANGED <<run, cur>>
    /\ UNCHANGED <<linkVars, lockVars, dataVars, app, connectRet, callVars, sent>>

\* The handler starts with _mio_request_get; without a request it returns an
\* error, and mio_handler_generic_id keeps the handler.
HandlerRequestGet ==
    /\ run = "get"
    /\ run' = IF cur \in table THEN "parse" ELSE "select"
    /\ cur' = IF cur \in table THEN cur ELSE "none"
    /\ UNCHANGED <<linkVars, lockVars, dataVars, app, connectRet, callVars,
                   sent, replies>>

\* _mio_xml_parse succeeds, or the handler returns its error and is kept.
HandlerParse ==
    /\ run = "parse"
    /\ \/ run' = "signal" /\ UNCHANGED cur
       \/ run' = "select" /\ cur' = "none"
    /\ UNCHANGED <<linkVars, lockVars, dataVars, app, connectRet, callVars,
                   sent, replies>>

\* _mio_cond_signal through the pointer that _mio_request_get returned.
HandlerSignal ==
    /\ run = "signal"
    /\ pc[cur] # "timedout"
    /\ predicate' = [predicate EXCEPT ![cur] = TRUE]
    /\ pc' = IF pc[cur] = "wait" THEN [pc EXCEPT ![cur] = "woken"] ELSE pc
    /\ run' = "unhook"
    /\ UNCHANGED <<linkVars, lockVars, dataVars, app, connectRet, ret,
                   open_slots, table, request, attempts, id_handlers, wireVars>>

\* The handler returned MIO_OK: mio_handler_generic_id frees its data and
\* handler_fire_stanza removes the one-shot item.
HandlerRemove ==
    /\ run = "unhook"
    /\ id_handlers' = id_handlers \ {cur}
    /\ run' = "select"
    /\ cur' = "none"
    /\ UNCHANGED <<linkVars, lockVars, dataVars, app, connectRet, pc, ret,
                   open_slots, table, request, predicate, attempts, sent, replies>>

\* The server answers a stanza it was sent (external).
ServerReply(c) ==
    /\ c \in sent
    /\ sent' = sent \ {c}
    /\ replies' = replies \cup {c}
    /\ UNCHANGED <<connVars, callVars, cur>>

-----------------------------------------------------------------------------
\* Steps of MioConnection that touch no call and no stanza of one.
ConnAlone ==
    /\ \/ RunConnectClient \/ RunEnterLoop \/ RunLock \/ RunExit
       \/ RunOnceTest \/ RunOnceSet
       \/ RunConnHandler \/ RunIdle \/ RunUnlock \/ RunSleep
       \/ RunConnected \/ RunAuthenticated
       \/ ConnectSteps \/ ConnectSpurious
       \/ ListenStart \/ DisconnectListenStop \/ DisconnectSteps
    /\ UNCHANGED <<callVars, wireVars>>

\* Steps of a call that only wait for their turn.
CallSteps(c) ==
    \/ SemWait(c) \/ RequestAddTest(c) \/ RequestAdd(c)
    \/ HandlerIdAddLock(c) \/ HandlerIdAdd(c) \/ SendTest(c)
    \/ EnqueueLock(c) \/ Enqueue(c) \/ WakeLoop(c)
    \/ ReconnectLock(c) \/ ReconnectWoken(c) \/ ReconnectRetest(c)
    \/ ReconnectTimeout(c) \/ ReconnectTimedOut(c)
    \/ IdHandlerDelete(c) \/ RequestDelete(c) \/ PredicateTest(c)
    \/ LockAndWait(c) \/ WaitWoken(c) \/ WaitTimeout(c) \/ WaitTimedOut(c)

HandlerSteps ==
    HandlerRequestGet \/ HandlerParse \/ HandlerSignal \/ HandlerRemove

Next ==
    \/ ConnAlone
    \/ \E n \in 0..Len(send_queue) : ReqFlush(n)
    \/ ReqConnLost
    \/ ReqBroadcast
    \/ HandlerSteps
    \/ \E c \in Callers :
          \/ RequestNew(c) \/ CallSteps(c) \/ SpuriousWake(c)
          \/ Receive(c) \/ ServerReply(c)

\* The event thread keeps running, and timed waits end.  A call competes for
\* the mutexes with an event thread that sleeps outside event_loop_mutex in
\* every round, so a call that could take a lock again and again gets it.
EventThread ==
    \/ /\ \/ RunConnectClient \/ RunEnterLoop \/ RunLock \/ RunExit
          \/ RunOnceTest \/ RunOnceSet
          \/ RunConnHandler \/ RunIdle \/ RunUnlock \/ RunSleep
       /\ UNCHANGED <<callVars, wireVars>>
    \/ \E n \in 0..Len(send_queue) : ReqFlush(n)
    \/ ReqBroadcast
    \/ HandlerSteps

Fairness ==
    /\ WF_vars(EventThread)
    /\ WF_vars(ConnectSteps /\ UNCHANGED <<callVars, wireVars>>)
    /\ \A c \in Callers : SF_vars(CallSteps(c))

\* A session that mio_connect reported established.
Init == SessionInit /\ CallInit
Spec == Init /\ [][Next]_vars /\ Fairness

\* From mio_connect on.
FullInit == ConnInit /\ CallInit
FullSpec == FullInit /\ [][Next]_vars /\ Fairness

-----------------------------------------------------------------------------
(***************************************************************************)
(* Properties.                                                             *)
(***************************************************************************)

\* Calls past sem_wait whose request was not given back.
SlotHolders == {c \in Callers : request[c] = "live" /\ pc[c] \notin {"idle", "sem"}}

\* Every slot taken from mio_open_requests is held by exactly one call whose
\* request is still allocated: no path of _mio_send_blocking posts the
\* semaphore twice, or posts it for a request it leaves behind.
SlotAccounting == open_slots + Cardinality(SlotHolders) = MaxOpenRequests

\* An entry of mio_request_table is allocated memory and belongs to a call
\* past its _mio_request_add that has not been cleaned up; in particular no
\* call returns MIO_OK or MIO_ERROR_TIMEOUT with its entry left in the table.
TableEntriesLive ==
    \A c \in table :
        /\ request[c] = "live"
        /\ pc[c] = "done" => ret[c] = "predicate"

\* A call that has returned leaves no id handler behind, except the one the
\* event thread is about to remove after running it.
NoStaleHandler ==
    \A c \in id_handlers : pc[c] = "done" => run = "unhook" /\ cur = c

\* MIO_OK is returned only when the event thread processed this call's reply.
OkMeansAnswered ==
    \A c \in Callers : pc[c] = "done" /\ ret[c] = "ok" => predicate[c]

\* While nobody tears the connection down, event_loop_mutex keeps the calls
\* that add handlers or queue stanzas apart from each other and from the
\* event thread inside xmpp_run_once.
InLoopSection(c) == pc[c] \in {"hook", "enqueue"}
LoopExclusion ==
    app # "closed" =>
        /\ \A c \in Callers : InLoopSection(c) => ~InRunOnce
        /\ \A c, d \in Callers : InLoopSection(c) /\ InLoopSection(d) => c = d

\* A call that got its slot returns, whatever the server does.
SlotHolderReturns ==
    \A c \in Callers : (pc[c] = "add") ~> (pc[c] = "done")

\* conn_mutex is gone for good with a thread that went on without unlocking
\* it: mio_connect, which found the predicate set and returned (mio.c 1923), or
\* a call that found it set and sends again with the mutex (mio.c 1625).
ConnMutexKept ==
    \/ conn_mutex = "app" /\ connectRet = "predicate"
    \/ \E c \in Callers : conn_mutex = c /\ attempts[c] > 0 /\ conn_predicate

\* A connection event is reported to its waiters: the event thread does not
\* stay in _mio_cond_broadcast, except behind the two threads that keep
\* conn_mutex (ConnMutexKept).  Whoever else takes the mutex, mio_connect and
\* calls that wait for the connection, time out or are woken, gives it back.
EventsAreReported == (run = "broadcast") ~> (run # "broadcast" \/ ConnMutexKept)

\* What xmpp_stop, called by mio_disconnect, did is nothing or will be nothing.
StopLost ==
    \/ loop_status = "notstarted"  \* there was no loop to stop, one starts later
    \/ run = "setrunning"          \* xmpp_run_once has tested loop_status and
                                   \* is about to overwrite it
    \/ loop_status = "running"     \* either of these has happened

\* mio_disconnect stops the event thread (mio.c 1929: "stop running all mio
\* threads"), with three exceptions: xmpp_stop finds the loop not started and
\* does nothing (event.c 345-351), it falls between the test and the write of
\* loop_status in xmpp_run_once (event.c 91), both StopLost, or the thread waits
\* in a broadcast for a conn_mutex that was kept (ConnMutexKept).
StopEndsThread ==
    (app = "xdisconnect" /\ ~StopLost) ~> (run = "exited" \/ ConnMutexKept)

\* The calls implement BlockingCall.
PhaseOf(c) ==
    CASE pc[c] \in {"idle", "sem"} -> "idle"
      [] pc[c] = "done" -> "returned"
      [] OTHER -> "open"

OutcomeOf(c) ==
    CASE pc[c] # "done" -> "none"
      [] pc[c] = "done" /\ ret[c] = "ok" -> "ok"
      [] OTHER -> "error"

Abstract == INSTANCE BlockingCall WITH
    Calls <- Callers,
    MaxOpen <- MaxOpenRequests,
    phase <- [c \in Callers |-> PhaseOf(c)],
    slots <- SlotHolders,
    answered <- {c \in Callers : predicate[c]},
    outcome <- [c \in Callers |-> OutcomeOf(c)]

ImplementsBlockingCall == Abstract!AbstractSpec

-----------------------------------------------------------------------------
(***************************************************************************)
(* What the comments of the code claim and the code does not do.           *)
(***************************************************************************)

\* _mio_send_blocking: "The function returns once the server's response has
\* been processed or an error occurs" (mio.c 1573) and "If we have too many open
\* requests, wait" (1598), of a call that waits for a slot.  The call that took
\* the last slot does not give it back: it reads 0 from the semaphore (1078), is
\* not entered in the table, is sent without a handler, times out, and
\* _mio_request_delete, which finds no entry, does not post.
EveryCallReturns ==
    \A c \in Callers : (pc[c] = "sem") ~> (pc[c] = "done")

=============================================================================

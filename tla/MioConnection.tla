--------------------------- MODULE MioConnection ---------------------------
(***************************************************************************)
(* The life of one mio_conn_t: mio_connect() spawns the event thread       *)
(* _mio_run() and waits for the first connection event, the event thread   *)
(* turns xmpp_run_once() under event_loop_mutex and reports connection     *)
(* events through mio_handler_conn_generic(), and mio_disconnect() tears   *)
(* the connection down from the application thread.                        *)
(*                                                                         *)
(* Two threads are modelled: "app", which calls mio_connect, optionally    *)
(* mio_listen_start and finally mio_disconnect, and "run", the detached    *)
(* event thread.  The XMPP server and the network are the environment:     *)
(* they decide when a connection is accepted, refused, authenticated or    *)
(* lost.  The build is the one of the repository, MIO_CONNECTION_RETRIES   *)
(* = 0, in which a lost connection is reported and never re-established.   *)
(***************************************************************************)
EXTENDS Naturals, Sequences

CONSTANTS
    Callers,          \* threads that share the connection and send requests
    SpuriousWakeups,  \* POSIX lets a condition wait return without a signal
    AppCalls          \* which of mio_listen_start and mio_disconnect "app" calls

ASSUME ConnectionConstants ==
    /\ SpuriousWakeups \in BOOLEAN
    /\ AppCalls \subseteq {"listen", "disconnect"}
    /\ Callers \cap {"none", "app", "run", "presence", "end"} = {}

VARIABLES
    conn_state,       \* xmpp_conn->state
    authenticated,    \* xmpp_conn->authenticated
    loop_status,      \* ctx->loop_status
    event_loop_mutex, \* its owner, or "none"
    conn_mutex,       \* its owner, or "none"
    conn_predicate,   \* conn->conn_predicate
    shd,              \* the handler data mio_connect allocates
    connResponse,     \* shd->response
    presence_status,  \* conn->presence_status
    send_queue,       \* xmpp_conn->send_queue_head ..
    cleanup,          \* libstrophe's timed handler _disconnect_cleanup is set
    wake_request,     \* conn->send_request_predicate
    run,              \* where the event thread is
    app,              \* where the application thread is
    connectRet        \* what mio_connect returned

linkVars == <<conn_state, authenticated, loop_status, presence_status, cleanup>>
lockVars == <<event_loop_mutex, conn_mutex, conn_predicate>>
dataVars == <<shd, connResponse, send_queue, wake_request>>
connVars == <<linkVars, lockVars, dataVars, run, app, connectRet>>

Threads == Callers \cup {"app", "run"}
Stanzas == Callers \cup {"presence", "end"}

RunLocations ==
    {"none", "start", "timed", "loop", "once", "setrunning", "flush",
     "select", "report_connect", "report_disconnect", "broadcast",
     "unlock", "sleep", "exited",
     \* locations inside a stanza handler, used by MioRequest
     "get", "parse", "signal", "unhook"}

AppLocations ==
    {"start", "lock", "wait", "woken", "timedout", "reset", "returned",
     "stop", "xdisconnect", "strayunlock", "closed", "crashed"}

\* Types of the connection: states of the link and of both threads, owners of
\* the mutexes, and what is queued.
ConnTypeOK ==
    /\ conn_state \in {"disconnected", "connecting", "connected"}
    /\ authenticated \in BOOLEAN
    /\ loop_status \in {"notstarted", "running", "quit"}
    /\ event_loop_mutex \in Threads \cup {"none"}
    /\ conn_mutex \in Threads \cup {"none"}
    /\ conn_predicate \in BOOLEAN
    /\ shd \in {"none", "live", "freed"}
    /\ connResponse \in {"none", "ok", "error", "freed"}
    /\ presence_status \in {"unknown", "present", "unavailable"}
    /\ send_queue \in Seq(Stanzas)
    /\ cleanup \in BOOLEAN
    /\ wake_request \in BOOLEAN
    /\ run \in RunLocations
    /\ app \in AppLocations
    /\ connectRet \in {"none", "ok", "connection", "timeout", "predicate"}

\* mio_conn_new and xmpp_conn_new.
ConnInit ==
    /\ conn_state = "disconnected"
    /\ authenticated = FALSE
    /\ loop_status = "notstarted"
    /\ event_loop_mutex = "none"
    /\ conn_mutex = "none"
    /\ conn_predicate = FALSE
    /\ shd = "none"
    /\ connResponse = "none"
    /\ presence_status = "unknown"
    /\ send_queue = <<>>
    /\ cleanup = FALSE
    /\ wake_request = FALSE
    /\ run = "none"
    /\ app = "start"
    /\ connectRet = "none"

-----------------------------------------------------------------------------
(***************************************************************************)
(* The event thread, _mio_run.                                             *)
(***************************************************************************)

\* The event thread is inside xmpp_run_once, or in a handler it called.
InRunOnce ==
    run \in {"once", "setrunning", "flush", "select", "report_connect",
             "report_disconnect", "broadcast", "unlock",
             "get", "parse", "signal", "unhook"}

\* xmpp_connect_client: the socket is opened, or the thread exits and nobody
\* is told.
RunConnectClient ==
    /\ run = "start"
    /\ \/ conn_state' = "connecting" /\ run' = "timed"
       \/ UNCHANGED conn_state /\ run' = "exited"
    /\ UNCHANGED <<authenticated, loop_status, presence_status, cleanup,
                   lockVars, dataVars, app, connectRet>>

\* mio_handler_timed_add takes and releases event_loop_mutex; then the loop
\* is entered unless the context's loop was started before.
RunEnterLoop ==
    /\ run = "timed"
    /\ event_loop_mutex = "none"
    /\ presence_status' = "unknown"
    /\ IF loop_status = "notstarted"
       THEN loop_status' = "running" /\ run' = "loop"
       ELSE UNCHANGED loop_status /\ run' = "exited"
    /\ UNCHANGED <<conn_state, authenticated, cleanup, lockVars, dataVars,
                   app, connectRet>>

\* The loop condition holds and pthread_mutex_lock(&event_loop_mutex) returns.
RunLock ==
    /\ run = "loop"
    /\ loop_status = "running"
    /\ event_loop_mutex = "none"
    /\ event_loop_mutex' = "run"
    /\ run' = "once"
    /\ UNCHANGED <<linkVars, conn_mutex, conn_predicate, dataVars, app, connectRet>>

RunExit ==
    /\ run = "loop"
    /\ loop_status # "running"
    /\ run' = "exited"
    /\ UNCHANGED <<linkVars, lockVars, dataVars, app, connectRet>>

\* xmpp_run_once tests loop_status ...
RunOnceTest ==
    /\ run = "once"
    /\ run' = IF loop_status = "quit" THEN "unlock" ELSE "setrunning"
    /\ UNCHANGED <<linkVars, lockVars, dataVars, app, connectRet>>

\* ... and writes it back, with no lock that xmpp_stop would take.
RunOnceSet ==
    /\ run = "setrunning"
    /\ loop_status' = "running"
    /\ run' = "flush"
    /\ UNCHANGED <<conn_state, authenticated, presence_status, cleanup,
                   lockVars, dataVars, app, connectRet>>

\* The send queue is written to the socket up to the first item that would
\* block (n items get out).
RunFlush(n) ==
    /\ run = "flush"
    /\ n \in 0..Len(send_queue)
    /\ conn_state # "connected" => n = 0
    /\ send_queue' = SubSeq(send_queue, n + 1, Len(send_queue))
    /\ run' = "select"
    /\ UNCHANGED <<linkVars, lockVars, shd, connResponse, wake_request,
                   app, connectRet>>

\* conn_disconnect: a write error while flushing, a refused or timed out
\* connection attempt, a closed socket, a malformed stream, a failed
\* authentication, or the forced cleanup after xmpp_disconnect.  The queue is
\* not torn down and authenticated is not reset.
RunConnLost ==
    /\ \/ run = "flush" /\ conn_state = "connected"
       \/ run = "select" /\ conn_state # "disconnected"
    /\ conn_state' = "disconnected"
    /\ cleanup' = FALSE
    /\ run' = "report_disconnect"
    /\ UNCHANGED <<authenticated, loop_status, presence_status, lockVars,
                   dataVars, app, connectRet>>

\* The TCP connection is up: conn_open_stream.
RunConnected ==
    /\ run = "select"
    /\ conn_state = "connecting"
    /\ conn_state' = "connected"
    /\ UNCHANGED <<authenticated, loop_status, presence_status, cleanup,
                   lockVars, dataVars, run, app, connectRet>>

\* Mutant: the waiters are woken before the handler has set the response.
RunAuthenticatedWakesFirst ==
    /\ run = "select"
    /\ conn_state = "connected"
    /\ ~authenticated
    /\ authenticated' = TRUE
    /\ run' = "broadcast"
    /\ UNCHANGED <<conn_state, loop_status, presence_status, cleanup,
                   lockVars, dataVars, app, connectRet>>

\* The stream is negotiated: auth.c sets authenticated and calls the handler.
RunAuthenticated ==
    /\ run = "select"
    /\ conn_state = "connected"
    /\ ~authenticated
    /\ authenticated' = TRUE
    /\ run' = "report_connect"
    /\ UNCHANGED <<conn_state, loop_status, presence_status, cleanup,
                   lockVars, dataVars, app, connectRet>>

\* Mutant: the error branch forgets to set the response type.
RunConnHandlerIgnoresError ==
    /\ run \in {"report_connect", "report_disconnect"}
    /\ connResponse' = IF connResponse = "freed" THEN "freed" ELSE "ok"
    /\ run' = "broadcast"
    /\ UNCHANGED <<linkVars, lockVars, shd, send_queue, wake_request,
                   app, connectRet>>

\* mio_handler_conn_generic up to the broadcast: the response is allocated if
\* there is none (one that was freed is written all the same).
RunConnHandler ==
    /\ run \in {"report_connect", "report_disconnect"}
    /\ connResponse' =
          CASE connResponse = "freed" -> "freed"
            [] run = "report_connect" -> "ok"
            [] OTHER -> "error"
    /\ run' = "broadcast"
    /\ UNCHANGED <<linkVars, lockVars, shd, send_queue, wake_request,
                   app, connectRet>>

\* _mio_cond_broadcast on conn_cond.
RunBroadcast ==
    /\ run = "broadcast"
    /\ conn_mutex = "none"
    /\ conn_predicate' = TRUE
    /\ app' = IF app = "wait" THEN "woken" ELSE app
    /\ run' = "select"
    /\ UNCHANGED <<linkVars, event_loop_mutex, conn_mutex, dataVars, connectRet>>

\* select() reports nothing (more): xmpp_run_once returns.
RunIdle ==
    /\ run = "select"
    /\ run' = "unlock"
    /\ UNCHANGED <<linkVars, lockVars, dataVars, app, connectRet>>

RunUnlock ==
    /\ run = "unlock"
    /\ event_loop_mutex' = "none"
    /\ run' = "sleep"
    /\ UNCHANGED <<linkVars, conn_mutex, conn_predicate, dataVars, app, connectRet>>

\* Mutant: pthread_cond_wait in place of pthread_cond_timedwait.
RunSleepUntilRequest ==
    /\ run = "sleep"
    /\ wake_request
    /\ wake_request' = FALSE
    /\ run' = "loop"
    /\ UNCHANGED <<linkVars, lockVars, shd, connResponse, send_queue, app,
                   connectRet>>

\* The wait for a send request ends, by a signal or by MIO_SEND_REQUEST_TIMEOUT.
RunSleep ==
    /\ run = "sleep"
    /\ wake_request' = FALSE
    /\ run' = "loop"
    /\ UNCHANGED <<linkVars, lockVars, shd, connResponse, send_queue, app,
                   connectRet>>

-----------------------------------------------------------------------------
(***************************************************************************)
(* The application thread: mio_connect.                                    *)
(***************************************************************************)

\* The handler data is allocated and the event thread is spawned.
ConnectSpawn ==
    /\ app = "start"
    /\ shd' = "live"
    /\ run' = "start"
    /\ app' = "lock"
    /\ UNCHANGED <<linkVars, lockVars, connResponse, send_queue, wake_request,
                   connectRet>>

\* pthread_mutex_lock(&conn_mutex) and the first test of the predicate.  When
\* the event came first, mio_connect frees shd and returns with the mutex held.
ConnectLock ==
    /\ app = "lock"
    /\ conn_mutex = "none"
    /\ IF conn_predicate
       THEN /\ conn_mutex' = "app"
            /\ shd' = "freed"
            /\ connectRet' = "predicate"
            /\ app' = "returned"
       ELSE /\ app' = "wait"
            /\ UNCHANGED <<conn_mutex, shd, connectRet>>
    /\ UNCHANGED <<linkVars, event_loop_mutex, conn_predicate, connResponse,
                   send_queue, wake_request, run>>

ConnectSpurious ==
    /\ SpuriousWakeups
    /\ app = "wait"
    /\ app' = "woken"
    /\ UNCHANGED <<linkVars, lockVars, dataVars, run, connectRet>>

\* Mutant: conn_mutex is not unlocked on the successful path.
ConnectWokenKeepsMutex ==
    /\ app = "woken"
    /\ conn_mutex = "none"
    /\ conn_mutex' = "app"
    /\ CASE connResponse = "none" -> app' = "crashed" /\ UNCHANGED connectRet
         [] connResponse = "ok" -> app' = "reset" /\ connectRet' = "ok"
         [] OTHER -> app' = "reset" /\ connectRet' = "connection"
    /\ UNCHANGED <<linkVars, event_loop_mutex, conn_predicate, dataVars, run>>

\* pthread_cond_timedwait returns 0: the response is read under the mutex
\* (a NULL response is dereferenced).
ConnectWoken ==
    /\ app = "woken"
    /\ conn_mutex = "none"
    /\ CASE connResponse = "none" -> app' = "crashed" /\ UNCHANGED connectRet
         [] connResponse = "ok" -> app' = "reset" /\ connectRet' = "ok"
         [] OTHER -> app' = "reset" /\ connectRet' = "connection"
    /\ UNCHANGED <<linkVars, lockVars, dataVars, run>>

\* conn_predicate = 0 after the unlock, then mio_response_free; shd keeps the
\* pointer.
ConnectReset ==
    /\ app = "reset"
    /\ conn_predicate' = FALSE
    /\ connResponse' = "freed"
    /\ app' = "returned"
    /\ UNCHANGED <<linkVars, event_loop_mutex, conn_mutex, shd, send_queue,
                   wake_request, run, connectRet>>

\* Mutant: pthread_cond_wait in place of pthread_cond_timedwait.
ConnectTimeoutNever == FALSE /\ UNCHANGED connVars

\* pthread_cond_timedwait returns ETIMEDOUT after MIO_REQUEST_TIMEOUT_S ...
ConnectTimeout ==
    /\ app = "wait"
    /\ app' = "timedout"
    /\ UNCHANGED <<linkVars, lockVars, dataVars, run, connectRet>>

\* ... having taken the mutex again; shd is freed under the event thread.
ConnectTimedOut ==
    /\ app = "timedout"
    /\ conn_mutex = "none"
    /\ shd' = "freed"
    /\ conn_predicate' = FALSE
    /\ connectRet' = "timeout"
    /\ app' = "returned"
    /\ UNCHANGED <<linkVars, event_loop_mutex, conn_mutex, connResponse,
                   send_queue, wake_request, run>>

-----------------------------------------------------------------------------
(***************************************************************************)
(* The application thread: mio_listen_start and mio_disconnect.  Both call *)
(* libstrophe without event_loop_mutex.                                    *)
(***************************************************************************)

\* xmpp_send_raw outside the mutex: dropped when not connected; while the
\* event thread unlinks queue items the new item may be lost with the tail.
SendUnlocked(s) ==
    \/ conn_state = "connected" /\ send_queue' = Append(send_queue, s)
    \/ (conn_state # "connected" \/ run = "flush") /\ UNCHANGED send_queue

\* mio_listen_start, as mio_pubsub_data_listen_start calls it (once).
ListenStart ==
    /\ "listen" \in AppCalls
    /\ app = "returned"
    /\ authenticated
    /\ presence_status # "present"
    /\ SendUnlocked("presence")
    /\ presence_status' = "present"
    /\ UNCHANGED <<conn_state, authenticated, loop_status, cleanup, lockVars,
                   shd, connResponse, wake_request, run, app, connectRet>>

\* mio_disconnect starts with mio_listen_stop and mio_pubsub_data_listen_stop;
\* the second is in MioPubsubRx and touches nothing of this module.
DisconnectListenStop ==
    /\ "disconnect" \in AppCalls
    /\ app = "returned"
    /\ app' = "stop"
    /\ IF authenticated
       THEN SendUnlocked("presence") /\ presence_status' = "unavailable"
       ELSE UNCHANGED <<send_queue, presence_status>>
    /\ UNCHANGED <<conn_state, authenticated, loop_status, cleanup, lockVars,
                   shd, connResponse, wake_request, run, connectRet>>

\* xmpp_stop.
DisconnectStop ==
    /\ app = "stop"
    /\ loop_status' = IF loop_status = "running" THEN "quit" ELSE loop_status
    /\ app' = "xdisconnect"
    /\ UNCHANGED <<conn_state, authenticated, presence_status, cleanup,
                   lockVars, dataVars, run, connectRet>>

\* xmpp_disconnect: the end of the stream is queued and the cleanup handler
\* set, unless the connection is down already.
DisconnectEndStream ==
    /\ app = "xdisconnect"
    /\ IF authenticated /\ conn_state # "disconnected"
       THEN SendUnlocked("end") /\ cleanup' = TRUE
       ELSE UNCHANGED <<send_queue, cleanup>>
    /\ app' = "strayunlock"
    /\ UNCHANGED <<conn_state, authenticated, loop_status, presence_status,
                   lockVars, shd, connResponse, wake_request, run, connectRet>>

\* pthread_mutex_unlock(&event_loop_mutex) by a thread that never locked it:
\* a default mutex is released whoever owns it.
DisconnectUnlock ==
    /\ app = "strayunlock"
    /\ event_loop_mutex' = "none"
    /\ app' = "closed"
    /\ UNCHANGED <<linkVars, conn_mutex, conn_predicate, dataVars, run, connectRet>>

-----------------------------------------------------------------------------
\* Steps the event thread takes by itself ...
RunSteps ==
    \/ RunConnectClient \/ RunEnterLoop \/ RunLock \/ RunExit
    \/ RunOnceTest \/ RunOnceSet
    \/ \E n \in 0..Len(send_queue) : RunFlush(n)
    \/ RunConnHandler \/ RunBroadcast \/ RunIdle \/ RunUnlock \/ RunSleep

\* ... and those in which the network has a say.
LinkSteps == RunConnLost \/ RunConnected \/ RunAuthenticated

ConnectSteps ==
    \/ ConnectSpawn \/ ConnectLock \/ ConnectWoken \/ ConnectReset
    \/ ConnectTimeout \/ ConnectTimedOut

DisconnectSteps == DisconnectStop \/ DisconnectEndStream \/ DisconnectUnlock

ConnNext ==
    \/ RunSteps
    \/ LinkSteps
    \/ ConnectSteps
    \/ ConnectSpurious
    \/ ListenStart
    \/ DisconnectListenStop
    \/ DisconnectSteps

\* Both threads are scheduled, timed waits end, and the timed cleanup handler
\* fires if the loop keeps running.  Nothing is assumed of the network.
ConnFairness ==
    /\ WF_connVars(RunSteps)
    /\ WF_connVars(ConnectSteps)
    /\ WF_connVars(DisconnectSteps)
    /\ SF_connVars(cleanup /\ RunConnLost)

ConnSpec == ConnInit /\ [][ConnNext]_connVars /\ ConnFairness

-----------------------------------------------------------------------------
(***************************************************************************)
(* Properties.                                                             *)
(***************************************************************************)

\* The verdict of mio_connect is about this connection: MIO_OK is returned
\* only when the stream was authenticated, MIO_ERROR_CONNECTION only when the
\* link is down, whatever happened between the event and the wakeup.
ConnectVerdict ==
    /\ connectRet = "ok" => authenticated
    /\ connectRet = "connection" => conn_state = "disconnected"

\* When mio_connect comes back from its condition wait there is a response
\* to read, and shd->response is not NULL; only a spurious wakeup, which the
\* code does not tell from an event, is excepted, until the event is reported.
WokenFindsResponse ==
    app \in {"woken", "reset"} =>
        \/ connResponse # "none"
        \/ app = "woken" /\ SpuriousWakeups /\ ~conn_predicate

\* mio_connect returns, whether or not the server ever answers.
ConnectReturns == (app = "lock") ~> (app \notin {"lock", "wait", "woken", "timedout", "reset"})

=============================================================================

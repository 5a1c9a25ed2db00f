------------------------ MODULE MioConnectionProofs ------------------------
(***************************************************************************)
(* Proofs about MioConnection, for every order of the two threads' steps   *)
(* and of the network's events.                                            *)
(***************************************************************************)
EXTENDS MioConnection, TLAPS

-----------------------------------------------------------------------------
(***************************************************************************)
(* Type correctness.                                                       *)
(***************************************************************************)

LEMMA ConnTypeInit == ConnInit => ConnTypeOK
<1> SUFFICES ASSUME ConnInit PROVE ConnTypeOK
  OBVIOUS
<1>1. /\ authenticated \in BOOLEAN /\ conn_predicate \in BOOLEAN
      /\ cleanup \in BOOLEAN /\ wake_request \in BOOLEAN
  BY Zenon DEF ConnInit
<1>2. send_queue \in Seq(Stanzas)
  BY DEF ConnInit
<1> QED
  BY <1>1, <1>2, Zenon DEF ConnInit, ConnTypeOK, RunLocations, AppLocations, Threads

\* Queuing a stanza keeps the send queue a sequence of stanzas.
LEMMA SendUnlockedType ==
    ASSUME send_queue \in Seq(Stanzas), NEW s \in Stanzas, SendUnlocked(s)
    PROVE  send_queue' \in Seq(Stanzas)
BY DEF SendUnlocked

\* Flushing part of the send queue leaves a sequence of stanzas.
LEMMA FlushType ==
    ASSUME send_queue \in Seq(Stanzas), NEW n \in 0..Len(send_queue)
    PROVE  SubSeq(send_queue, n + 1, Len(send_queue)) \in Seq(Stanzas)
OBVIOUS

LEMMA ConnTypeRun ==
    ASSUME ConnTypeOK, RunSteps \/ LinkSteps
    PROVE  ConnTypeOK'
<1> USE DEF ConnTypeOK, linkVars, lockVars, dataVars, RunLocations, AppLocations, Threads
<1>1. CASE RunConnectClient
  BY <1>1 DEF RunConnectClient
<1>2. CASE RunEnterLoop
  BY <1>2 DEF RunEnterLoop
<1>3. CASE RunLock
  BY <1>3 DEF RunLock
<1>4. CASE RunExit
  BY <1>4 DEF RunExit
<1>5. CASE RunOnceTest
  BY <1>5 DEF RunOnceTest
<1>6. CASE RunOnceSet
  BY <1>6 DEF RunOnceSet
<1>7. CASE \E n \in 0..Len(send_queue) : RunFlush(n)
  BY <1>7, FlushType DEF RunFlush
<1>8. CASE RunConnHandler
  BY <1>8 DEF RunConnHandler
<1>9. CASE RunBroadcast
  BY <1>9 DEF RunBroadcast
<1>10. CASE RunIdle
  BY <1>10 DEF RunIdle
<1>11. CASE RunUnlock
  BY <1>11 DEF RunUnlock
<1>12. CASE RunSleep
  <2>1. wake_request' \in BOOLEAN
    BY <1>12, Zenon DEF RunSleep
  <2> QED
    BY <1>12, <2>1 DEF RunSleep
<1>13. CASE RunConnLost
  <2>1. cleanup' \in BOOLEAN
    BY <1>13, Zenon DEF RunConnLost
  <2> QED
    BY <1>13, <2>1 DEF RunConnLost
<1>14. CASE RunConnected
  BY <1>14 DEF RunConnected
<1>15. CASE RunAuthenticated
  BY <1>15 DEF RunAuthenticated
<1> QED
  BY <1>1, <1>2, <1>3, <1>4, <1>5, <1>6, <1>7, <1>8, <1>9, <1>10, <1>11, <1>12,
     <1>13, <1>14, <1>15 DEF RunSteps, LinkSteps

LEMMA ConnTypeApp ==
    ASSUME ConnTypeOK,
           ConnectSteps \/ ConnectSpurious \/ ListenStart
             \/ DisconnectListenStop \/ DisconnectSteps
    PROVE  ConnTypeOK'
<1> USE DEF ConnTypeOK, linkVars, lockVars, dataVars, RunLocations, AppLocations, Threads
<1>1. CASE ConnectSpawn
  BY <1>1 DEF ConnectSpawn
<1>2. CASE ConnectLock
  BY <1>2 DEF ConnectLock
<1>3. CASE ConnectWoken
  BY <1>3 DEF ConnectWoken
<1>4. CASE ConnectReset
  <2>1. conn_predicate' \in BOOLEAN
    BY <1>4, Zenon DEF ConnectReset
  <2> QED
    BY <1>4, <2>1 DEF ConnectReset
<1>5. CASE ConnectTimeout \/ ConnectSpurious
  BY <1>5 DEF ConnectTimeout, ConnectSpurious
<1>6. CASE ConnectTimedOut
  <2>1. conn_predicate' \in BOOLEAN
    BY <1>6, Zenon DEF ConnectTimedOut
  <2> QED
    BY <1>6, <2>1 DEF ConnectTimedOut
<1>7. CASE ListenStart
  <2>1. send_queue' \in Seq(Stanzas)
    BY <1>7, SendUnlockedType DEF ListenStart, Stanzas
  <2> QED
    BY <1>7, <2>1 DEF ListenStart
<1>8. CASE DisconnectListenStop
  <2>1. send_queue' \in Seq(Stanzas)
    BY <1>8, SendUnlockedType DEF DisconnectListenStop, Stanzas
  <2> QED
    BY <1>8, <2>1 DEF DisconnectListenStop
<1>9. CASE DisconnectStop
  BY <1>9 DEF DisconnectStop
<1>10. CASE DisconnectEndStream
  <2>1. send_queue' \in Seq(Stanzas)
    BY <1>10, SendUnlockedType DEF DisconnectEndStream, Stanzas
  <2>2. cleanup' \in BOOLEAN
    BY <1>10, Zenon DEF DisconnectEndStream
  <2> QED
    BY <1>10, <2>1, <2>2 DEF DisconnectEndStream
<1>11. CASE DisconnectUnlock
  BY <1>11 DEF DisconnectUnlock
<1> QED
  BY <1>1, <1>2, <1>3, <1>4, <1>5, <1>6, <1>7, <1>8, <1>9, <1>10, <1>11
     DEF ConnectSteps, DisconnectSteps

LEMMA ConnTypeStutter ==
    ASSUME ConnTypeOK, UNCHANGED connVars PROVE ConnTypeOK'
BY DEF ConnTypeOK, connVars, linkVars, lockVars, dataVars

\* Every variable of the connection keeps its type.
THEOREM ConnTypeCorrect == ConnSpec => []ConnTypeOK
<1>1. ConnTypeOK /\ [ConnNext]_connVars => ConnTypeOK'
  BY ConnTypeRun, ConnTypeApp, ConnTypeStutter DEF ConnNext
<1> QED
  BY <1>1, ConnTypeInit, PTL DEF ConnSpec

-----------------------------------------------------------------------------
(***************************************************************************)
(* What mio_connect returns.                                               *)
(***************************************************************************)

\* mio_connect has not returned yet.
InConnect == app \in {"start", "lock", "wait", "woken", "timedout", "reset"}

\* A failure was reported, or is about to be, or mio_connect has returned it.
FailureKnown ==
    run = "report_disconnect" \/ connResponse = "error" \/ connectRet = "connection"

\* The inductive invariant behind ConnectVerdict: a response is what the link
\* was when the handler ran, no connection attempt follows a failure, and the
\* response is not freed under mio_connect.
VerdictInv ==
    /\ ConnTypeOK
    /\ (run = "report_connect" \/ connResponse = "ok" \/ connectRet = "ok") => authenticated
    /\ FailureKnown => conn_state = "disconnected" /\ run \notin {"none", "start"}
    /\ connResponse = "freed" => ~InConnect
    /\ app = "start" => run = "none"

LEMMA VerdictInit == ConnInit => VerdictInv
BY ConnTypeInit DEF ConnInit, VerdictInv, FailureKnown, InConnect

LEMMA VerdictStep ==
    ASSUME VerdictInv, [ConnNext]_connVars PROVE VerdictInv'
<1> USE DEF FailureKnown, InConnect, linkVars, lockVars, dataVars
<1>0. ConnTypeOK'
  BY ConnTypeRun, ConnTypeApp, ConnTypeStutter DEF ConnNext, VerdictInv
<1> DEFINE Rest ==
             /\ (run = "report_connect" \/ connResponse = "ok" \/ connectRet = "ok")
                  => authenticated
             /\ FailureKnown => conn_state = "disconnected" /\ run \notin {"none", "start"}
             /\ connResponse = "freed" => ~InConnect
             /\ app = "start" => run = "none"
<1>r. Rest
  BY DEF VerdictInv
<1> SUFFICES Rest'
  BY <1>0 DEF VerdictInv
<1>1. CASE RunConnectClient
  BY <1>1, <1>r DEF RunConnectClient
<1>2. CASE RunEnterLoop
  BY <1>2, <1>r DEF RunEnterLoop
<1>3. CASE RunLock \/ RunExit
  BY <1>3, <1>r DEF RunLock, RunExit
<1>4. CASE RunOnceTest \/ RunOnceSet
  BY <1>4, <1>r DEF RunOnceTest, RunOnceSet
<1>5. CASE \E n \in 0..Len(send_queue) : RunFlush(n)
  BY <1>5, <1>r DEF RunFlush
<1>6. CASE RunConnHandler
  BY <1>6, <1>r DEF RunConnHandler
<1>7. CASE RunBroadcast
  BY <1>7, <1>r DEF RunBroadcast
<1>8. CASE RunIdle \/ RunUnlock \/ RunSleep
  BY <1>8, <1>r DEF RunIdle, RunUnlock, RunSleep
<1>9. CASE RunConnLost
  BY <1>9, <1>r DEF RunConnLost
<1>10. CASE RunConnected
  BY <1>10, <1>r DEF RunConnected
<1>11. CASE RunAuthenticated
  BY <1>11, <1>r DEF RunAuthenticated
<1>12. CASE ConnectSpawn
  BY <1>12, <1>r DEF ConnectSpawn
<1>13. CASE ConnectLock
  BY <1>13, <1>r DEF ConnectLock
<1>14. CASE ConnectWoken
  <2>1. connResponse \in {"none", "ok", "error"}
    BY <1>14, <1>r DEF ConnectWoken, VerdictInv, ConnTypeOK
  <2> QED
    BY <1>14, <1>r, <2>1 DEF ConnectWoken
<1>15. CASE ConnectReset
  BY <1>15, <1>r DEF ConnectReset
<1>16. CASE ConnectTimeout \/ ConnectSpurious
  BY <1>16, <1>r DEF ConnectTimeout, ConnectSpurious
<1>17. CASE ConnectTimedOut
  BY <1>17, <1>r DEF ConnectTimedOut
<1>18. CASE ListenStart \/ DisconnectListenStop
  BY <1>18, <1>r DEF ListenStart, DisconnectListenStop
<1>19. CASE DisconnectSteps
  BY <1>19, <1>r DEF DisconnectSteps, DisconnectStop, DisconnectEndStream, DisconnectUnlock
<1>20. CASE UNCHANGED connVars
  BY <1>20, <1>r DEF connVars
<1> QED
  BY <1>1, <1>2, <1>3, <1>4, <1>5, <1>6, <1>7, <1>8, <1>9, <1>10, <1>11, <1>12,
     <1>13, <1>14, <1>15, <1>16, <1>17, <1>18, <1>19, <1>20
     DEF ConnNext, RunSteps, LinkSteps, ConnectSteps

\* mio_connect returns MIO_OK only on an authenticated stream and
\* MIO_ERROR_CONNECTION only with the link down, spurious wakeups included.
THEOREM ConnectVerdictHolds == ConnSpec => []ConnectVerdict
<1>1. VerdictInv /\ [ConnNext]_connVars => VerdictInv'
  BY VerdictStep
<1>2. VerdictInv => ConnectVerdict
  BY DEF VerdictInv, FailureKnown, ConnectVerdict
<1> QED
  BY <1>1, <1>2, VerdictInit, PTL DEF ConnSpec

-----------------------------------------------------------------------------
(***************************************************************************)
(* The response mio_connect reads.                                         *)
(***************************************************************************)

\* The handler sets the response before it wakes anybody.
ResponseInv ==
    /\ WokenFindsResponse
    /\ run = "broadcast" => connResponse # "none"
    /\ conn_predicate => connResponse # "none"

\* mio_connect never reads a response that mio_handler_conn_generic has not
\* allocated yet, unless its wait returned without a signal.
THEOREM WokenThreadFindsResponse == ConnSpec => []WokenFindsResponse
<1> USE DEF ResponseInv, WokenFindsResponse, linkVars, lockVars, dataVars
<1>1. ConnInit => ResponseInv
  BY DEF ConnInit
<1>2. ResponseInv /\ [ConnNext]_connVars => ResponseInv'
  <2> SUFFICES ASSUME ResponseInv, [ConnNext]_connVars PROVE ResponseInv'
    OBVIOUS
  <2>1. CASE RunConnectClient \/ RunEnterLoop \/ RunLock \/ RunExit
    BY <2>1 DEF RunConnectClient, RunEnterLoop, RunLock, RunExit
  <2>2. CASE RunOnceTest \/ RunOnceSet
    BY <2>2 DEF RunOnceTest, RunOnceSet
  <2>3. CASE \E n \in 0..Len(send_queue) : RunFlush(n)
    BY <2>3 DEF RunFlush
  <2>4. CASE RunConnHandler
    BY <2>4 DEF RunConnHandler
  <2>5. CASE RunBroadcast
    BY <2>5 DEF RunBroadcast
  <2>6. CASE RunIdle \/ RunUnlock \/ RunSleep
    BY <2>6 DEF RunIdle, RunUnlock, RunSleep
  <2>7. CASE LinkSteps
    BY <2>7 DEF LinkSteps, RunConnLost, RunConnected, RunAuthenticated
  <2>8. CASE ConnectSpawn \/ ConnectLock
    BY <2>8 DEF ConnectSpawn, ConnectLock
  <2>9. CASE ConnectWoken \/ ConnectReset
    BY <2>9 DEF ConnectWoken, ConnectReset
  <2>10. CASE ConnectTimeout \/ ConnectTimedOut
    BY <2>10 DEF ConnectTimeout, ConnectTimedOut
  <2>11. CASE ConnectSpurious
    BY <2>11 DEF ConnectSpurious
  <2>12. CASE ListenStart \/ DisconnectListenStop \/ DisconnectSteps
    BY <2>12 DEF ListenStart, DisconnectListenStop, DisconnectSteps, DisconnectStop,
       DisconnectEndStream, DisconnectUnlock
  <2>13. CASE UNCHANGED connVars
    BY <2>13 DEF connVars
  <2> QED
    BY <2>1, <2>2, <2>3, <2>4, <2>5, <2>6, <2>7, <2>8, <2>9, <2>10, <2>11, <2>12,
       <2>13 DEF ConnNext, RunSteps, ConnectSteps
<1>3. ResponseInv => WokenFindsResponse
  OBVIOUS
<1> QED
  BY <1>1, <1>2, <1>3, PTL DEF ConnSpec

=============================================================================

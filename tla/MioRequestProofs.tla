-------------------------- MODULE MioRequestProofs --------------------------
(***************************************************************************)
(* Proofs about MioRequest for any finite set of calls, any number of      *)
(* slots and any number of send attempts.  The theorems are about FullSpec,*)
(* which starts before mio_connect; the last one carries them over to      *)
(* Spec, which starts on an established session.                           *)
(***************************************************************************)
EXTENDS MioRequest, MioConnectionProofs, FiniteSetTheorems

-----------------------------------------------------------------------------
(***************************************************************************)
(* Type correctness.                                                       *)
(***************************************************************************)

\* Where a call can still come to the test of send_attempts.
MaySendAgain ==
    {"idle", "sem", "add", "insert", "hooklock", "hook", "send", "connlock",
     "connwait", "connwoken", "connretest"}

\* The conjuncts of ReqTypeOK about the calls, and the bound on send_attempts
\* that makes them inductive.
CallTypeOK ==
    /\ pc \in [Callers -> Locations]
    /\ ret \in [Callers -> ReturnCodes]
    /\ open_slots \in Nat
    /\ table \in SUBSET Callers
    /\ request \in [Callers -> {"none", "live", "freed"}]
    /\ predicate \in [Callers -> BOOLEAN]
    /\ attempts \in [Callers -> 0..SendRetries]
    /\ id_handlers \in SUBSET Callers
    /\ \A c \in Callers : pc[c] \in MaySendAgain => attempts[c] < SendRetries

WireTypeOK ==
    /\ cur \in Callers \cup {"none"}
    /\ sent \in SUBSET Callers
    /\ replies \in SUBSET Callers

TypeInv == ConnTypeOK /\ CallTypeOK /\ WireTypeOK

LEMMA CallTypeInit == CallInit => CallTypeOK /\ WireTypeOK
<1> SUFFICES ASSUME CallInit PROVE CallTypeOK /\ WireTypeOK
  OBVIOUS
<1>1. predicate \in [Callers -> BOOLEAN]
  BY Zenon DEF CallInit
<1>2. /\ pc \in [Callers -> Locations]
      /\ ret \in [Callers -> ReturnCodes]
      /\ request \in [Callers -> {"none", "live", "freed"}]
  BY DEF CallInit, Locations, ReturnCodes
<1>3. /\ open_slots \in Nat
      /\ attempts \in [Callers -> 0..SendRetries]
      /\ \A c \in Callers : attempts[c] < SendRetries
  BY RequestConstants DEF CallInit
<1>4. table \in SUBSET Callers /\ id_handlers \in SUBSET Callers /\ WireTypeOK
  BY DEF CallInit, WireTypeOK
<1> QED
  BY <1>1, <1>2, <1>3, <1>4, Zenon DEF CallTypeOK

LEMMA CallStepType ==
    ASSUME TypeInv, NEW c \in Callers, RequestNew(c) \/ CallSteps(c) \/ SpuriousWake(c)
    PROVE  CallTypeOK'
<1>0. CallTypeOK
  BY DEF TypeInv
<1> USE DEF Locations, MaySendAgain
<1>1. CASE RequestNew(c)
  BY <1>0, <1>1 DEF RequestNew, CallTypeOK, Goto
<1>2. CASE SemWait(c)
  BY <1>0, <1>2 DEF SemWait, CallTypeOK, Goto
<1>3. CASE RequestAddTest(c)
  BY <1>0, <1>3 DEF RequestAddTest, CallTypeOK, Goto
<1>4. CASE RequestAdd(c)
  BY <1>0, <1>4 DEF RequestAdd, CallTypeOK, Goto
<1>5. CASE HandlerIdAddLock(c)
  BY <1>0, <1>5 DEF HandlerIdAddLock, CallTypeOK, Goto
<1>6. CASE HandlerIdAdd(c)
  BY <1>0, <1>6 DEF HandlerIdAdd, CallTypeOK, Goto
<1>7. CASE SendTest(c)
  <2>1. CASE authenticated
    BY <1>0, <1>7, <2>1 DEF SendTest, CallTypeOK, Goto
  <2>2. CASE ~authenticated /\ attempts[c] + 1 >= SendRetries
    BY <1>0, <1>7, <2>2, RequestConstants
       DEF SendTest, CallTypeOK, Goto, ReturnCodes
  <2>3. CASE ~authenticated /\ ~(attempts[c] + 1 >= SendRetries)
    BY <1>0, <1>7, <2>3, RequestConstants DEF SendTest, CallTypeOK, Goto
  <2> QED
    BY <2>1, <2>2, <2>3
<1>8. CASE EnqueueLock(c)
  BY <1>0, <1>8 DEF EnqueueLock, CallTypeOK, Goto
<1>9. CASE Enqueue(c)
  BY <1>0, <1>9 DEF Enqueue, CallTypeOK, Goto
<1>10. CASE WakeLoop(c)
  BY <1>0, <1>10 DEF WakeLoop, CallTypeOK, Goto
<1>11. CASE ReconnectLock(c)
  BY <1>0, <1>11 DEF ReconnectLock, CallTypeOK, Goto
<1>12. CASE ReconnectWoken(c)
  BY <1>0, <1>12 DEF ReconnectWoken, CallTypeOK, Goto
<1>13. CASE ReconnectRetest(c)
  BY <1>0, <1>13 DEF ReconnectRetest, CallTypeOK, Goto
<1>14. CASE ReconnectTimeout(c) \/ LockAndWait(c) \/ WaitTimeout(c)
  BY <1>0, <1>14 DEF ReconnectTimeout, LockAndWait, WaitTimeout, CallTypeOK, Goto
<1>15. CASE ReconnectTimedOut(c) \/ WaitWoken(c)
  BY <1>0, <1>15 DEF ReconnectTimedOut, WaitWoken, CallTypeOK, Goto, ReturnCodes
<1>16. CASE IdHandlerDelete(c)
  BY <1>0, <1>16 DEF IdHandlerDelete, CallTypeOK, Goto
<1>17. CASE RequestDelete(c)
  BY <1>0, <1>17 DEF RequestDelete, CallTypeOK, Goto
<1>18. CASE PredicateTest(c)
  BY <1>0, <1>18 DEF PredicateTest, CallTypeOK, Goto, ReturnCodes
<1>19. CASE WaitTimedOut(c)
  BY <1>0, <1>19 DEF WaitTimedOut, CallTypeOK, Goto, ReturnCodes
<1>20. CASE SpuriousWake(c)
  BY <1>0, <1>20 DEF SpuriousWake, CallTypeOK, Goto
<1> QED
  BY <1>1, <1>2, <1>3, <1>4, <1>5, <1>6, <1>7, <1>8, <1>9, <1>10, <1>11, <1>12,
     <1>13, <1>14, <1>15, <1>16, <1>17, <1>18, <1>19, <1>20 DEF CallSteps

\* A call touches of the connection only the two mutexes, the send queue and
\* the wake-up flag.
LEMMA CallStepConnType ==
    ASSUME TypeInv, NEW c \in Callers, RequestNew(c) \/ CallSteps(c) \/ SpuriousWake(c)
    PROVE  ConnTypeOK' /\ WireTypeOK'
<1>0. ConnTypeOK /\ WireTypeOK
  BY DEF TypeInv
<1>w. WireTypeOK'
  BY <1>0 DEF WireTypeOK, wireVars, CallSteps, RequestNew, SemWait, RequestAddTest,
     RequestAdd, HandlerIdAddLock, HandlerIdAdd, SendTest, EnqueueLock, Enqueue,
     WakeLoop, ReconnectLock, ReconnectWoken, ReconnectRetest, ReconnectTimeout,
     ReconnectTimedOut, IdHandlerDelete, RequestDelete, PredicateTest,
     LockAndWait, WaitWoken, WaitTimeout, WaitTimedOut, SpuriousWake
<1>1. CASE UNCHANGED connVars
  BY <1>0, <1>1, <1>w, ConnTypeStutter
<1>2. CASE HandlerIdAddLock(c) \/ HandlerIdAdd(c) \/ EnqueueLock(c)
  BY <1>0, <1>2, <1>w DEF HandlerIdAddLock, HandlerIdAdd, EnqueueLock, ConnTypeOK,
     Threads, linkVars, dataVars
<1>3. CASE Enqueue(c)
  <2>1. send_queue' \in Seq(Stanzas)
    BY <1>0, <1>3, SendUnlockedType DEF Enqueue, ConnTypeOK, Stanzas
  <2> QED
    BY <1>0, <1>3, <2>1, <1>w DEF Enqueue, ConnTypeOK, Threads, linkVars
<1>4. CASE WakeLoop(c)
  BY <1>0, <1>4, <1>w DEF WakeLoop, ConnTypeOK, Threads, linkVars, lockVars
<1>5. CASE ReconnectLock(c) \/ ReconnectRetest(c)
  BY <1>0, <1>5, <1>w DEF ReconnectLock, ReconnectRetest, ConnTypeOK, Threads,
     linkVars, dataVars
<1> QED
  BY <1>1, <1>2, <1>3, <1>4, <1>5 DEF CallSteps, RequestNew, SemWait, RequestAddTest,
     RequestAdd, SendTest, ReconnectWoken, ReconnectTimeout, ReconnectTimedOut,
     IdHandlerDelete, RequestDelete, PredicateTest, LockAndWait, WaitWoken,
     WaitTimeout, WaitTimedOut, SpuriousWake

\* The steps in which the event thread meets the calls or the wire.
LEMMA EventStepType ==
    ASSUME TypeInv,
           \/ \E n \in 0..Len(send_queue) : ReqFlush(n)
           \/ ReqConnLost
           \/ ReqBroadcast
           \/ HandlerSteps
           \/ \E c \in Callers : Receive(c) \/ ServerReply(c)
    PROVE  TypeInv'
<1>0. ConnTypeOK /\ CallTypeOK /\ WireTypeOK
  BY DEF TypeInv
<1> USE DEF linkVars, lockVars, dataVars, callVars, wireVars
<1>1. CASE \E n \in 0..Len(send_queue) : ReqFlush(n)
  <2>1. PICK n \in 0..Len(send_queue) : ReqFlush(n)
    BY <1>1
  <2>2. ConnTypeOK'
    BY <1>0, <2>1, ConnTypeRun DEF ReqFlush, RunSteps
  <2>3. CallTypeOK'
    BY <1>0, <2>1 DEF ReqFlush, CallTypeOK
  <2>4. WireTypeOK'
    BY <1>0, <2>1 DEF ReqFlush, WireTypeOK
  <2> QED
    BY <2>2, <2>3, <2>4 DEF TypeInv
<1>2. CASE ReqConnLost
  <2>1. ConnTypeOK'
    BY <1>0, <1>2, ConnTypeRun DEF ReqConnLost, LinkSteps
  <2>2. CallTypeOK' /\ WireTypeOK'
    BY <1>0, <1>2 DEF ReqConnLost, CallTypeOK, WireTypeOK
  <2> QED
    BY <2>1, <2>2 DEF TypeInv
<1>3. CASE ReqBroadcast
  <2>1. ConnTypeOK'
    BY <1>0, <1>3, ConnTypeRun DEF ReqBroadcast, RunSteps
  <2>2. CallTypeOK'
    BY <1>0, <1>3 DEF ReqBroadcast, CallTypeOK, Locations, MaySendAgain
  <2>3. WireTypeOK'
    BY <1>0, <1>3 DEF ReqBroadcast, WireTypeOK
  <2> QED
    BY <2>1, <2>2, <2>3 DEF TypeInv
<1>4. CASE HandlerRequestGet \/ HandlerParse
  <2>1. ConnTypeOK'
    BY <1>0, <1>4 DEF HandlerRequestGet, HandlerParse, ConnTypeOK, RunLocations
  <2>2. CallTypeOK' /\ WireTypeOK'
    BY <1>0, <1>4 DEF HandlerRequestGet, HandlerParse, CallTypeOK, WireTypeOK
  <2> QED
    BY <2>1, <2>2 DEF TypeInv
<1>5. CASE HandlerSignal
  <2>1. ConnTypeOK'
    BY <1>0, <1>5 DEF HandlerSignal, ConnTypeOK, RunLocations
  <2>2. predicate' \in [Callers -> BOOLEAN]
    BY <1>0, <1>5, Zenon DEF HandlerSignal, CallTypeOK
  <2>3. CallTypeOK' /\ WireTypeOK'
    BY <1>0, <1>5, <2>2 DEF HandlerSignal, CallTypeOK, WireTypeOK, Locations, MaySendAgain
  <2> QED
    BY <2>1, <2>3 DEF TypeInv
<1>6. CASE HandlerRemove
  <2>1. ConnTypeOK'
    BY <1>0, <1>6 DEF HandlerRemove, ConnTypeOK, RunLocations
  <2>2. CallTypeOK' /\ WireTypeOK'
    BY <1>0, <1>6 DEF HandlerRemove, CallTypeOK, WireTypeOK
  <2> QED
    BY <2>1, <2>2 DEF TypeInv
<1>7. ASSUME NEW c \in Callers, Receive(c) PROVE TypeInv'
  <2>1. ConnTypeOK'
    BY <1>0, <1>7 DEF Receive, ConnTypeOK, RunLocations
  <2>2. CallTypeOK' /\ WireTypeOK'
    BY <1>0, <1>7 DEF Receive, CallTypeOK, WireTypeOK
  <2> QED
    BY <2>1, <2>2 DEF TypeInv
<1>8. ASSUME NEW c \in Callers, ServerReply(c) PROVE TypeInv'
  <2>1. ConnTypeOK'
    BY <1>0, <1>8, ConnTypeStutter DEF ServerReply
  <2>2. CallTypeOK' /\ WireTypeOK'
    BY <1>0, <1>8 DEF ServerReply, CallTypeOK, WireTypeOK
  <2> QED
    BY <2>1, <2>2 DEF TypeInv
<1> QED
  BY <1>1, <1>2, <1>3, <1>4, <1>5, <1>6, <1>7, <1>8 DEF HandlerSteps

LEMMA ConnAloneType ==
    ASSUME TypeInv, ConnAlone \/ UNCHANGED vars PROVE TypeInv'
<1>1. CallTypeOK' /\ WireTypeOK'
  BY DEF TypeInv, ConnAlone, vars, callVars, wireVars, CallTypeOK, WireTypeOK
<1>2. ConnTypeOK'
  BY ConnTypeRun, ConnTypeApp, ConnTypeStutter
     DEF TypeInv, ConnAlone, vars, RunSteps, LinkSteps
<1> QED
  BY <1>1, <1>2 DEF TypeInv

LEMMA TypeStep == ASSUME TypeInv, [Next]_vars PROVE TypeInv'
<1>1. ASSUME NEW c \in Callers, RequestNew(c) \/ CallSteps(c) \/ SpuriousWake(c)
      PROVE  TypeInv'
  BY <1>1, CallStepType, CallStepConnType DEF TypeInv
<1> QED
  BY <1>1, EventStepType, ConnAloneType DEF Next

LEMMA TypeInvImplies == TypeInv => ReqTypeOK
BY DEF TypeInv, CallTypeOK, WireTypeOK, ReqTypeOK

\* Every variable keeps its type; in particular mio_open_requests never counts
\* below zero and no call makes more than MIO_SEND_RETRIES attempts.
THEOREM ReqTypeCorrect == FullSpec => []ReqTypeOK
<1>1. ConnInit /\ CallInit => TypeInv
  BY ConnTypeInit, CallTypeInit DEF TypeInv
<1>2. TypeInv /\ [Next]_vars => TypeInv'
  BY TypeStep
<1> QED
  BY <1>1, <1>2, TypeInvImplies, PTL DEF FullSpec, FullInit

-----------------------------------------------------------------------------
(***************************************************************************)
(* The slots of mio_open_requests and the request table.                   *)
(***************************************************************************)

\* The life of a call's request: allocated when the call starts, in the table
\* only between its _mio_request_add and its _mio_request_delete, and left
\* there for good only by a call that returns MIO_ERROR_PREDICATE.
RequestLife ==
    /\ \A c \in Callers : request[c] = "none" <=> pc[c] = "idle"
    /\ \A c \in Callers : pc[c] \notin {"idle", "done"} => request[c] = "live"
    /\ \A c \in table :
          /\ request[c] = "live"
          /\ pc[c] \notin {"idle", "sem", "add", "insert"}
          /\ pc[c] = "done" => ret[c] = "predicate"

\* A step that leaves the tables alone and moves no call across the points
\* where its slot is taken or given back.
LeavesSlots ==
    /\ UNCHANGED <<table, request, open_slots>>
    /\ \A c \in Callers :
          \/ pc'[c] = pc[c] /\ ret'[c] = ret[c]
          \/ /\ pc[c] \notin {"idle", "sem", "insert", "done"}
             /\ pc'[c] \notin {"idle", "sem", "add", "done"}
             /\ pc[c] # "add" => pc'[c] # "insert"
             /\ pc[c] = "add" => c \notin table
          \/ pc[c] = "check" /\ pc'[c] = "done" /\ ret'[c] = "predicate"
          \/ pc[c] = "delete" /\ pc'[c] = "done" /\ c \notin table

LEMMA LeavesSlotsSteps ==
    ASSUME TypeInv, RequestLife, [Next]_vars,
           \A c \in Callers : ~(RequestNew(c) \/ SemWait(c) \/ RequestAdd(c)
                                 \/ (RequestDelete(c) /\ c \in table))
    PROVE  LeavesSlots
<1> USE DEF callVars, Goto
<1>0. /\ pc \in [Callers -> Locations]
      /\ ret \in [Callers -> ReturnCodes]
  BY DEF TypeInv, CallTypeOK
<1>1. CASE UNCHANGED callVars
  BY <1>1 DEF LeavesSlots
<1>2. ASSUME NEW c \in Callers, CallSteps(c) \/ SpuriousWake(c) PROVE LeavesSlots
  <2>1. CASE RequestAddTest(c)
    BY <1>0, <2>1 DEF RequestAddTest, LeavesSlots, RequestLife
  <2>2. CASE HandlerIdAddLock(c) \/ HandlerIdAdd(c) \/ EnqueueLock(c)
             \/ Enqueue(c) \/ WakeLoop(c)
    BY <1>0, <2>2 DEF HandlerIdAddLock, HandlerIdAdd, EnqueueLock, Enqueue, WakeLoop,
       LeavesSlots
  <2>3. CASE SendTest(c)
    BY <1>0, <2>3 DEF SendTest, LeavesSlots
  <2>4. CASE ReconnectLock(c) \/ ReconnectWoken(c) \/ ReconnectRetest(c)
             \/ ReconnectTimeout(c) \/ ReconnectTimedOut(c)
    BY <1>0, <2>4 DEF ReconnectLock, ReconnectWoken, ReconnectRetest, ReconnectTimeout,
       ReconnectTimedOut, LeavesSlots
  <2>5. CASE IdHandlerDelete(c) \/ LockAndWait(c) \/ WaitWoken(c) \/ WaitTimeout(c)
             \/ WaitTimedOut(c) \/ SpuriousWake(c)
    BY <1>0, <2>5 DEF IdHandlerDelete, LockAndWait, WaitWoken, WaitTimeout,
       WaitTimedOut, SpuriousWake, LeavesSlots
  <2>6. CASE RequestDelete(c) /\ c \notin table
    BY <1>0, <2>6 DEF RequestDelete, LeavesSlots
  <2>7. CASE PredicateTest(c)
    BY <1>0, <2>7 DEF PredicateTest, LeavesSlots
  <2> QED
    BY <1>2, <2>1, <2>2, <2>3, <2>4, <2>5, <2>6, <2>7 DEF CallSteps
<1>3. CASE ReqBroadcast
  BY <1>0, <1>3 DEF ReqBroadcast, LeavesSlots
<1>4. CASE HandlerSignal
  BY <1>0, <1>4 DEF HandlerSignal, LeavesSlots
<1>5. CASE HandlerRemove
  BY <1>5 DEF HandlerRemove, LeavesSlots
<1> QED
  BY <1>1, <1>2, <1>3, <1>4, <1>5
     DEF Next, ConnAlone, ReqFlush, ReqConnLost, HandlerSteps, HandlerRequestGet,
         HandlerParse, Receive, ServerReply, vars

LEMMA RequestLifeStep ==
    ASSUME TypeInv, RequestLife, [Next]_vars PROVE RequestLife'
<1>0. /\ pc \in [Callers -> Locations]
      /\ request \in [Callers -> {"none", "live", "freed"}]
      /\ table \in SUBSET Callers
  BY DEF TypeInv, CallTypeOK
<1>1. ASSUME NEW c \in Callers, RequestNew(c) PROVE RequestLife'
  BY <1>0, <1>1 DEF RequestNew, RequestLife, Goto
<1>2. ASSUME NEW c \in Callers, SemWait(c) PROVE RequestLife'
  BY <1>0, <1>2 DEF SemWait, RequestLife, Goto
<1>3. ASSUME NEW c \in Callers, RequestAdd(c) PROVE RequestLife'
  BY <1>0, <1>3 DEF RequestAdd, RequestLife, Goto
<1>4. ASSUME NEW c \in Callers, RequestDelete(c), c \in table PROVE RequestLife'
  BY <1>0, <1>4 DEF RequestDelete, RequestLife, Goto
<1>5. CASE LeavesSlots
  BY <1>0, <1>5 DEF LeavesSlots, RequestLife
<1> QED
  BY <1>1, <1>2, <1>3, <1>4, <1>5, LeavesSlotsSteps

LEMMA SlotAccountingStep ==
    ASSUME TypeInv, RequestLife, SlotAccounting, [Next]_vars PROVE SlotAccounting'
<1>0. /\ pc \in [Callers -> Locations]
      /\ request \in [Callers -> {"none", "live", "freed"}]
      /\ table \in SUBSET Callers
      /\ open_slots \in Nat
  BY DEF TypeInv, CallTypeOK
<1>f. IsFiniteSet(SlotHolders) /\ Cardinality(SlotHolders) \in Nat
  BY RequestConstants, FS_Subset, FS_CardinalityType DEF SlotHolders
<1>1. ASSUME SlotHolders' = SlotHolders, open_slots' = open_slots
      PROVE  SlotAccounting'
  BY <1>1 DEF SlotAccounting
<1>2. ASSUME NEW c \in Callers, RequestNew(c) PROVE SlotAccounting'
  <2>1. SlotHolders' = SlotHolders /\ open_slots' = open_slots
    BY <1>0, <1>2 DEF RequestNew, SlotHolders, Goto
  <2> QED
    BY <1>1, <2>1
<1>3. ASSUME NEW c \in Callers, SemWait(c) PROVE SlotAccounting'
  <2>1. /\ c \notin SlotHolders
        /\ SlotHolders' = SlotHolders \cup {c}
        /\ open_slots' = open_slots - 1
    BY <1>0, <1>3 DEF SemWait, SlotHolders, Goto, RequestLife
  <2>2. Cardinality(SlotHolders \cup {c}) = Cardinality(SlotHolders) + 1
    BY <1>f, <2>1, FS_AddElement
  <2> QED
    BY <1>0, <1>f, <2>1, <2>2, RequestConstants DEF SlotAccounting
<1>4. ASSUME NEW c \in Callers, RequestAdd(c) PROVE SlotAccounting'
  <2>1. SlotHolders' = SlotHolders /\ open_slots' = open_slots
    BY <1>0, <1>4 DEF RequestAdd, SlotHolders, Goto
  <2> QED
    BY <1>1, <2>1
<1>5. ASSUME NEW c \in Callers, RequestDelete(c), c \in table PROVE SlotAccounting'
  <2>1. /\ c \in SlotHolders
        /\ SlotHolders' = SlotHolders \ {c}
        /\ open_slots' = open_slots + 1
    BY <1>0, <1>5 DEF RequestDelete, SlotHolders, Goto, RequestLife
  <2>2. Cardinality(SlotHolders \ {c}) = Cardinality(SlotHolders) - 1
    BY <1>f, <2>1, FS_RemoveElement
  <2> QED
    BY <1>0, <1>f, <2>1, <2>2, RequestConstants DEF SlotAccounting
<1>6. CASE LeavesSlots
  <2>1. SlotHolders' = SlotHolders /\ open_slots' = open_slots
    BY <1>0, <1>6 DEF LeavesSlots, SlotHolders
  <2> QED
    BY <1>1, <2>1
<1> QED
  BY <1>2, <1>3, <1>4, <1>5, <1>6, LeavesSlotsSteps

LEMMA SlotInit == CallInit => RequestLife /\ SlotAccounting
<1> SUFFICES ASSUME CallInit PROVE RequestLife /\ SlotAccounting
  OBVIOUS
<1>1. RequestLife /\ SlotHolders = {} /\ open_slots = MaxOpenRequests
  BY DEF CallInit, RequestLife, SlotHolders
<1> QED
  BY <1>1, FS_EmptySet, RequestConstants DEF SlotAccounting

SlotInv == TypeInv /\ RequestLife /\ SlotAccounting

LEMMA SlotInvStep == SlotInv /\ [Next]_vars => SlotInv'
BY TypeStep, RequestLifeStep, SlotAccountingStep DEF SlotInv

LEMMA SlotInvImplies == SlotInv => SlotAccounting /\ TableEntriesLive
BY DEF SlotInv, RequestLife, TableEntriesLive

\* Every slot taken from mio_open_requests is held by exactly one call whose
\* request is still allocated, on every path of _mio_send_blocking, however
\* many threads call and whatever happens to the connection, from mio_connect
\* to mio_disconnect and with spurious wakeups.
THEOREM SlotsAreAccounted == FullSpec => []SlotAccounting
<1>1. ConnInit /\ CallInit => SlotInv
  BY ConnTypeInit, CallTypeInit, SlotInit DEF SlotInv, TypeInv
<1> QED
  BY <1>1, SlotInvStep, SlotInvImplies, PTL DEF FullSpec, FullInit

\* An entry of mio_request_table is an allocated request of a call that is
\* still running or returned MIO_ERROR_PREDICATE.
THEOREM TableIsLive == FullSpec => []TableEntriesLive
<1>1. ConnInit /\ CallInit => SlotInv
  BY ConnTypeInit, CallTypeInit, SlotInit DEF SlotInv, TypeInv
<1> QED
  BY <1>1, SlotInvStep, SlotInvImplies, PTL DEF FullSpec, FullInit

-----------------------------------------------------------------------------
(***************************************************************************)
(* event_loop_mutex.                                                       *)
(***************************************************************************)

\* Until mio_disconnect has unlocked it, event_loop_mutex belongs to the
\* thread that is in a section it protects.
LoopMutexInv ==
    app # "closed" =>
        /\ InRunOnce <=> event_loop_mutex = "run"
        /\ \A c \in Callers : InLoopSection(c) <=> event_loop_mutex = c

\* A step that moves no thread into or out of such a section.
LeavesLoopMutex ==
    /\ UNCHANGED event_loop_mutex
    /\ InRunOnce' <=> InRunOnce
    /\ \A c \in Callers : InLoopSection(c)' <=> InLoopSection(c)
    /\ app' # "closed" => app # "closed"

LEMMA CallStepLoopMutex ==
    ASSUME TypeInv, LoopMutexInv, NEW c \in Callers,
           RequestNew(c) \/ CallSteps(c) \/ SpuriousWake(c)
    PROVE  LoopMutexInv'
<1> USE DEF connVars, linkVars, lockVars, dataVars, InLoopSection, Goto
<1>0. pc \in [Callers -> Locations] /\ "run" \notin Callers /\ "none" \notin Callers
  BY ConnectionConstants DEF TypeInv, CallTypeOK
<1>1. CASE HandlerIdAddLock(c) \/ EnqueueLock(c)
  <2>1. /\ event_loop_mutex = "none" /\ event_loop_mutex' = c
        /\ pc[c] \notin {"hook", "enqueue"} /\ pc'[c] \in {"hook", "enqueue"}
        /\ \A d \in Callers : d # c => pc'[d] = pc[d]
        /\ UNCHANGED <<run, app>>
    BY <1>0, <1>1 DEF HandlerIdAddLock, EnqueueLock
  <2> QED
    BY <1>0, <2>1 DEF LoopMutexInv, InRunOnce
<1>2. CASE HandlerIdAdd(c) \/ Enqueue(c)
  <2>1. /\ event_loop_mutex' = "none"
        /\ pc[c] \in {"hook", "enqueue"} /\ pc'[c] \notin {"hook", "enqueue"}
        /\ \A d \in Callers : d # c => pc'[d] = pc[d]
        /\ UNCHANGED <<run, app>>
    BY <1>0, <1>2 DEF HandlerIdAdd, Enqueue
  <2> QED
    BY <1>0, <2>1 DEF LoopMutexInv, InRunOnce
<1>3. CASE RequestNew(c) \/ SemWait(c) \/ RequestAddTest(c) \/ RequestAdd(c)
           \/ SendTest(c) \/ WakeLoop(c)
  <2>1. LeavesLoopMutex
    BY <1>0, <1>3 DEF RequestNew, SemWait, RequestAddTest, RequestAdd, SendTest,
       WakeLoop, LeavesLoopMutex, InRunOnce
  <2> QED
    BY <2>1 DEF LeavesLoopMutex, LoopMutexInv
<1>4. CASE ReconnectLock(c) \/ ReconnectWoken(c) \/ ReconnectRetest(c)
           \/ ReconnectTimeout(c) \/ ReconnectTimedOut(c)
  <2>1. LeavesLoopMutex
    BY <1>0, <1>4 DEF ReconnectLock, ReconnectWoken, ReconnectRetest,
       ReconnectTimeout, ReconnectTimedOut, LeavesLoopMutex, InRunOnce
  <2> QED
    BY <2>1 DEF LeavesLoopMutex, LoopMutexInv
<1>5. CASE IdHandlerDelete(c) \/ RequestDelete(c) \/ PredicateTest(c)
           \/ LockAndWait(c) \/ WaitWoken(c) \/ WaitTimeout(c) \/ WaitTimedOut(c)
           \/ SpuriousWake(c)
  <2>1. LeavesLoopMutex
    BY <1>0, <1>5 DEF IdHandlerDelete, RequestDelete, PredicateTest, LockAndWait,
       WaitWoken, WaitTimeout, WaitTimedOut, SpuriousWake, LeavesLoopMutex, InRunOnce
  <2> QED
    BY <2>1 DEF LeavesLoopMutex, LoopMutexInv
<1> QED
  BY <1>1, <1>2, <1>3, <1>4, <1>5 DEF CallSteps

\* mio_connect spawns the event thread once, before any thread uses the
\* connection.
OneEventThread == app = "start" => run = "none"

LEMMA OtherStepLoopMutex ==
    ASSUME TypeInv, LoopMutexInv, OneEventThread, [Next]_vars,
           \A c \in Callers : ~(RequestNew(c) \/ CallSteps(c) \/ SpuriousWake(c))
    PROVE  LoopMutexInv' /\ OneEventThread'
<1> USE DEF connVars, linkVars, lockVars, dataVars, callVars, InRunOnce, OneEventThread
<1>0. pc \in [Callers -> Locations] /\ "run" \notin Callers /\ "none" \notin Callers
  BY ConnectionConstants DEF TypeInv, CallTypeOK
<1>l. LeavesLoopMutex => LoopMutexInv'
  BY DEF LeavesLoopMutex, LoopMutexInv
<1>1. CASE ConnAlone
  <2>0. UNCHANGED pc
    BY <1>1 DEF ConnAlone
  <2>1. CASE RunLock
    BY <1>0, <2>0, <2>1 DEF RunLock, LoopMutexInv, InLoopSection
  <2>2. CASE RunUnlock
    BY <1>0, <2>0, <2>2 DEF RunUnlock, LoopMutexInv, InLoopSection
  <2>3. CASE RunConnectClient \/ RunEnterLoop \/ RunExit \/ RunOnceTest \/ RunOnceSet
    <3>1. LeavesLoopMutex /\ OneEventThread'
      BY <2>0, <2>3 DEF RunConnectClient, RunEnterLoop, RunExit, RunOnceTest,
         RunOnceSet, LeavesLoopMutex, InLoopSection
    <3> QED
      BY <1>l, <3>1
  <2>4. CASE RunConnHandler \/ RunIdle \/ RunSleep \/ RunConnected \/ RunAuthenticated
    <3>1. LeavesLoopMutex /\ OneEventThread'
      BY <2>0, <2>4 DEF RunConnHandler, RunIdle, RunSleep, RunConnected,
         RunAuthenticated, LeavesLoopMutex, InLoopSection
    <3> QED
      BY <1>l, <3>1
  <2>5. CASE ConnectSteps \/ ConnectSpurious
    <3>1. LeavesLoopMutex /\ OneEventThread'
      BY <2>0, <2>5 DEF ConnectSteps, ConnectSpawn, ConnectLock, ConnectWoken,
         ConnectReset, ConnectTimeout, ConnectTimedOut, ConnectSpurious,
         LeavesLoopMutex, InLoopSection
    <3> QED
      BY <1>l, <3>1
  <2>6. CASE ListenStart \/ DisconnectListenStop \/ DisconnectStop \/ DisconnectEndStream
    <3>1. LeavesLoopMutex /\ OneEventThread'
      BY <2>0, <2>6 DEF ListenStart, DisconnectListenStop, DisconnectStop,
         DisconnectEndStream, LeavesLoopMutex, InLoopSection
    <3> QED
      BY <1>l, <3>1
  <2>7. CASE DisconnectUnlock
    BY <2>7 DEF DisconnectUnlock, LoopMutexInv
  <2> QED
    BY <1>1, <2>1, <2>2, <2>3, <2>4, <2>5, <2>6, <2>7 DEF ConnAlone, DisconnectSteps
<1>2. CASE (\E n \in 0..Len(send_queue) : ReqFlush(n)) \/ ReqConnLost
  <2>1. LeavesLoopMutex /\ OneEventThread'
    BY <1>2 DEF ReqFlush, RunFlush, ReqConnLost, RunConnLost, LeavesLoopMutex, InLoopSection
  <2> QED
    BY <1>l, <2>1
<1>3. CASE ReqBroadcast
  <2>1. LeavesLoopMutex /\ OneEventThread'
    BY <1>0, <1>3 DEF ReqBroadcast, RunBroadcast, LeavesLoopMutex, InLoopSection
  <2> QED
    BY <1>l, <2>1
<1>4. CASE HandlerSteps
  <2>1. LeavesLoopMutex /\ OneEventThread'
    BY <1>0, <1>4 DEF HandlerSteps, HandlerRequestGet, HandlerParse, HandlerSignal,
       HandlerRemove, LeavesLoopMutex, InLoopSection
  <2> QED
    BY <1>l, <2>1
<1>5. CASE \E c \in Callers : Receive(c) \/ ServerReply(c)
  <2>1. LeavesLoopMutex /\ OneEventThread'
    BY <1>5 DEF Receive, ServerReply, LeavesLoopMutex, InLoopSection
  <2> QED
    BY <1>l, <2>1
<1>6. CASE UNCHANGED vars
  <2>1. LeavesLoopMutex /\ OneEventThread'
    BY <1>6 DEF vars, LeavesLoopMutex, InLoopSection
  <2> QED
    BY <1>l, <2>1
<1> QED
  BY <1>1, <1>2, <1>3, <1>4, <1>5, <1>6 DEF Next

LEMMA OneEventThreadCall ==
    ASSUME OneEventThread, NEW c \in Callers,
           RequestNew(c) \/ CallSteps(c) \/ SpuriousWake(c)
    PROVE  OneEventThread'
BY DEF OneEventThread, connVars, linkVars, lockVars, dataVars, CallSteps, RequestNew,
   SemWait, RequestAddTest, RequestAdd, HandlerIdAddLock, HandlerIdAdd, SendTest,
   EnqueueLock, Enqueue, WakeLoop, ReconnectLock, ReconnectWoken, ReconnectRetest,
   ReconnectTimeout, ReconnectTimedOut, IdHandlerDelete, RequestDelete,
   PredicateTest, LockAndWait, WaitWoken, WaitTimeout, WaitTimedOut, SpuriousWake

LoopInv == TypeInv /\ LoopMutexInv /\ OneEventThread

LEMMA LoopInvStep == LoopInv /\ [Next]_vars => LoopInv'
BY TypeStep, CallStepLoopMutex, OtherStepLoopMutex, OneEventThreadCall DEF LoopInv

LEMMA LoopInvInit == ConnInit /\ CallInit => LoopInv
<1> SUFFICES ASSUME ConnInit, CallInit PROVE LoopInv
  OBVIOUS
<1>1. TypeInv
  BY ConnTypeInit, CallTypeInit DEF TypeInv
<1>2. "none" \notin Callers
  BY ConnectionConstants
<1>3. LoopMutexInv /\ OneEventThread
  BY <1>2 DEF ConnInit, CallInit, LoopMutexInv, OneEventThread, InRunOnce, InLoopSection
<1> QED
  BY <1>1, <1>3 DEF LoopInv

\* Until mio_disconnect unlocks it, event_loop_mutex keeps the calls that add
\* handlers or queue stanzas apart from each other and from xmpp_run_once.
THEOREM LoopSectionsExclude == FullSpec => []LoopExclusion
<1>1. LoopInv => LoopExclusion
  <2>1. "run" \notin Callers
    BY ConnectionConstants
  <2> QED
    BY <2>1 DEF LoopInv, LoopMutexInv, LoopExclusion
<1> QED
  BY <1>1, LoopInvStep, LoopInvInit, PTL DEF FullSpec, FullInit

-----------------------------------------------------------------------------
(***************************************************************************)
(* Answers and id handlers, without spurious wakeups.                      *)
(***************************************************************************)

\* Before its mio_handler_id_add a call cannot be answered.
BeforeHook == {"idle", "sem", "add", "insert", "hooklock", "hook"}

InHandler == run \in {"get", "parse", "signal", "unhook"}

\* Only the id handler wakes a call or makes it return MIO_OK, it runs only
\* for a call that registered it, and between its signal and its removal the
\* event thread does nothing else.
AnswerInv ==
    /\ \A c \in Callers : (pc[c] = "woken" \/ ret[c] = "ok") => predicate[c]
    /\ \A c \in id_handlers : pc[c] \notin BeforeHook
    /\ InHandler => cur \in Callers /\ pc[cur] \notin BeforeHook
    /\ \A c \in Callers : predicate[c] =>
          /\ pc[c] \notin BeforeHook
          /\ c \in id_handlers => run = "unhook" /\ cur = c
    /\ \A c \in id_handlers : pc[c] \in {"delete", "done"} => predicate[c]

LEMMA AnswerInit == CallInit /\ ~InHandler => AnswerInv
BY DEF CallInit, AnswerInv

\* A step of one call that leaves handlers, answers and the event thread alone.
LEMMA AnswerMove ==
    ASSUME TypeInv, AnswerInv, NEW c \in Callers,
           UNCHANGED <<predicate, run, cur>>,
           pc' = [pc EXCEPT ![c] = pc'[c]],
           \A d \in Callers : d # c => ret'[d] = ret[d],
           pc[c] \notin BeforeHook => pc'[c] \notin BeforeHook,
           (pc'[c] = "woken" \/ ret'[c] = "ok") => predicate[c],
           id_handlers' \in {id_handlers, id_handlers \cup {c}, id_handlers \ {c}},
           c \in id_handlers' =>
               /\ pc'[c] \notin BeforeHook
               /\ pc'[c] \in {"delete", "done"} => predicate[c]
               /\ predicate[c] => c \in id_handlers
    PROVE  AnswerInv'
<1>0. /\ pc \in [Callers -> Locations]
      /\ id_handlers \in SUBSET Callers
  BY DEF TypeInv, CallTypeOK
<1>1. \A d \in Callers : d # c => pc'[d] = pc[d]
  BY <1>0
<1>2. \A d \in Callers : d # c => (d \in id_handlers' <=> d \in id_handlers)
  OBVIOUS
<1>3. id_handlers' \subseteq Callers
  BY <1>0
<1>a. \A d \in Callers : (pc'[d] = "woken" \/ ret'[d] = "ok") => predicate'[d]
  BY <1>1 DEF AnswerInv
<1>b. \A d \in id_handlers' : pc'[d] \notin BeforeHook
  BY <1>1, <1>2, <1>3 DEF AnswerInv
<1>c. InHandler' => cur' \in Callers /\ pc'[cur'] \notin BeforeHook
  BY <1>1 DEF AnswerInv, InHandler
<1>d. \A d \in Callers : predicate'[d] =>
          /\ pc'[d] \notin BeforeHook
          /\ d \in id_handlers' => run' = "unhook" /\ cur' = d
  BY <1>1, <1>2 DEF AnswerInv
<1>e. \A d \in id_handlers' : pc'[d] \in {"delete", "done"} => predicate'[d]
  BY <1>1, <1>2, <1>3 DEF AnswerInv
<1> QED
  BY <1>a, <1>b, <1>c, <1>d, <1>e DEF AnswerInv

LEMMA AnswerCallStep ==
    ASSUME ~SpuriousWakeups, TypeInv, AnswerInv, NEW c \in Callers,
           RequestNew(c) \/ CallSteps(c) \/ SpuriousWake(c)
    PROVE  AnswerInv'
<1>0. /\ pc \in [Callers -> Locations]
      /\ ret \in [Callers -> ReturnCodes]
      /\ id_handlers \in SUBSET Callers
  BY DEF TypeInv, CallTypeOK
<1>1. /\ c \in id_handlers => pc[c] \notin BeforeHook
      /\ c \in id_handlers => (pc[c] \in {"delete", "done"} => predicate[c])
      /\ (pc[c] = "woken" \/ ret[c] = "ok") => predicate[c]
      /\ predicate[c] => pc[c] \notin BeforeHook
  BY DEF AnswerInv
<1> USE DEF connVars, wireVars, Goto, BeforeHook
<1>2. CASE HandlerIdAdd(c)
  BY <1>0, <1>1, <1>2, AnswerMove DEF HandlerIdAdd
<1>3. CASE RequestNew(c) \/ SemWait(c) \/ RequestAddTest(c) \/ RequestAdd(c)
           \/ HandlerIdAddLock(c)
  BY <1>0, <1>1, <1>3, AnswerMove DEF RequestNew, SemWait, RequestAddTest, RequestAdd,
     HandlerIdAddLock
<1>4. CASE SendTest(c) \/ EnqueueLock(c) \/ Enqueue(c) \/ WakeLoop(c)
  BY <1>0, <1>1, <1>4, AnswerMove DEF SendTest, EnqueueLock, Enqueue, WakeLoop
<1>5. CASE ReconnectLock(c) \/ ReconnectWoken(c) \/ ReconnectRetest(c)
           \/ ReconnectTimeout(c) \/ ReconnectTimedOut(c)
  BY <1>0, <1>1, <1>5, AnswerMove DEF ReconnectLock, ReconnectWoken, ReconnectRetest,
     ReconnectTimeout, ReconnectTimedOut
<1>6. CASE IdHandlerDelete(c) \/ WaitTimedOut(c)
  BY <1>0, <1>1, <1>6, AnswerMove DEF IdHandlerDelete, WaitTimedOut
<1>7. CASE RequestDelete(c)
  BY <1>0, <1>1, <1>7, AnswerMove DEF RequestDelete
<1>8. CASE PredicateTest(c)
  BY <1>0, <1>1, <1>8, AnswerMove DEF PredicateTest
<1>9. CASE LockAndWait(c) \/ WaitTimeout(c)
  BY <1>0, <1>1, <1>9, AnswerMove DEF LockAndWait, WaitTimeout
<1>10. CASE WaitWoken(c)
  BY <1>0, <1>1, <1>10, AnswerMove DEF WaitWoken
<1>11. ~SpuriousWake(c)
  BY DEF SpuriousWake
<1> QED
  BY <1>2, <1>3, <1>4, <1>5, <1>6, <1>7, <1>8, <1>9, <1>10, <1>11 DEF CallSteps

LEMMA AnswerOtherStep ==
    ASSUME TypeInv, AnswerInv, OneEventThread, [Next]_vars,
           \A c \in Callers : ~(RequestNew(c) \/ CallSteps(c) \/ SpuriousWake(c))
    PROVE  AnswerInv'
<1> USE DEF connVars, linkVars, lockVars, dataVars, callVars, wireVars
<1>0. /\ pc \in [Callers -> Locations]
      /\ predicate \in [Callers -> BOOLEAN]
      /\ id_handlers \in SUBSET Callers
  BY DEF TypeInv, CallTypeOK
<1>1. ASSUME UNCHANGED <<callVars, cur>>, run' # run => run # "unhook" /\ ~InHandler'
      PROVE  AnswerInv'
  BY <1>1 DEF AnswerInv, InHandler
<1>2. CASE ConnAlone
  <2>1. UNCHANGED <<callVars, cur>>
    BY <1>2 DEF ConnAlone
  <2>2. CASE RunConnectClient \/ RunEnterLoop \/ RunLock \/ RunExit
             \/ RunOnceTest \/ RunOnceSet \/ RunConnHandler \/ RunIdle \/ RunUnlock
             \/ RunSleep \/ RunConnected \/ RunAuthenticated
    <3>1. run' # run => run # "unhook" /\ ~InHandler'
      BY <2>2 DEF RunConnectClient, RunEnterLoop, RunLock, RunExit, RunOnceTest,
         RunOnceSet, RunConnHandler, RunIdle, RunUnlock, RunSleep, RunConnected,
         RunAuthenticated, InHandler
    <3> QED
      BY <1>1, <2>1, <3>1
  <2>3. CASE ConnectSteps \/ ConnectSpurious
    <3>1. run' # run => run # "unhook" /\ ~InHandler'
      BY <2>3 DEF ConnectSteps, ConnectSpawn, ConnectLock, ConnectWoken, ConnectReset,
         ConnectTimeout, ConnectTimedOut, ConnectSpurious, OneEventThread, InHandler
    <3> QED
      BY <1>1, <2>1, <3>1
  <2>4. CASE ListenStart \/ DisconnectListenStop \/ DisconnectSteps
    <3>1. run' = run
      BY <2>4 DEF ListenStart, DisconnectListenStop, DisconnectSteps, DisconnectStop,
         DisconnectEndStream, DisconnectUnlock
    <3> QED
      BY <1>1, <2>1, <3>1
  <2> QED
    BY <1>2, <2>2, <2>3, <2>4 DEF ConnAlone
<1>3. CASE (\E n \in 0..Len(send_queue) : ReqFlush(n)) \/ ReqConnLost
  BY <1>1, <1>3 DEF ReqFlush, RunFlush, ReqConnLost, RunConnLost, InHandler
<1>4. CASE ReqBroadcast
  <2>1. /\ \A c \in Callers : pc'[c] = pc[c]
              \/ (pc[c] = "connwait" /\ pc'[c] = "connwoken")
        /\ UNCHANGED <<ret, predicate, id_handlers, cur>>
        /\ run = "broadcast" /\ run' = "select"
    BY <1>4 DEF ReqBroadcast, RunBroadcast
  <2> QED
    BY <1>0, <2>1 DEF AnswerInv, InHandler, BeforeHook
<1>5. CASE HandlerRequestGet \/ HandlerParse
  <2>1. /\ UNCHANGED callVars
        /\ run \in {"get", "parse"}
        /\ \/ run' \in {"parse", "signal"} /\ cur' = cur
           \/ run' = "select"
    BY <1>5 DEF HandlerRequestGet, HandlerParse
  <2> QED
    BY <2>1 DEF AnswerInv, InHandler
<1>6. CASE HandlerSignal
  <2>1. /\ UNCHANGED <<ret, id_handlers, cur>>
        /\ run = "signal" /\ run' = "unhook"
        /\ cur \in Callers /\ pc[cur] \notin BeforeHook
    BY <1>6 DEF HandlerSignal, AnswerInv, InHandler
  <2>2. predicate'[cur] /\ \A c \in Callers : c # cur => predicate'[c] = predicate[c]
    BY <1>0, <1>6, <2>1, Zenon DEF HandlerSignal
  <2>3. /\ \A c \in Callers : c # cur => pc'[c] = pc[c]
        /\ pc'[cur] \notin BeforeHook
    BY <1>0, <1>6, <2>1 DEF HandlerSignal, BeforeHook
  <2>4. \A c \in Callers : predicate[c] => c \notin id_handlers
    BY <2>1 DEF AnswerInv
  <2> QED
    BY <1>0, <2>1, <2>2, <2>3, <2>4 DEF AnswerInv, InHandler
<1>7. CASE HandlerRemove
  <2>1. /\ UNCHANGED <<pc, ret, predicate>>
        /\ run = "unhook" /\ run' = "select"
        /\ id_handlers' = id_handlers \ {cur}
    BY <1>7 DEF HandlerRemove
  <2> QED
    BY <1>0, <2>1 DEF AnswerInv, InHandler
<1>8. ASSUME NEW c \in Callers, Receive(c) PROVE AnswerInv'
  <2>1. CASE c \in id_handlers /\ authenticated
    BY <1>8, <2>1 DEF Receive, AnswerInv, InHandler
  <2>2. CASE ~(c \in id_handlers /\ authenticated)
    BY <1>1, <1>8, <2>2 DEF Receive
  <2> QED
    BY <2>1, <2>2
<1>9. CASE \E c \in Callers : ServerReply(c)
  BY <1>1, <1>9 DEF ServerReply
<1>10. CASE UNCHANGED vars
  BY <1>1, <1>10 DEF vars
<1> QED
  BY <1>2, <1>3, <1>4, <1>5, <1>6, <1>7, <1>8, <1>9, <1>10 DEF Next, HandlerSteps

LEMMA AnswerInvStep ==
    ASSUME ~SpuriousWakeups
    PROVE  LoopInv /\ AnswerInv /\ [Next]_vars => (LoopInv /\ AnswerInv)'
BY LoopInvStep, AnswerCallStep, AnswerOtherStep DEF LoopInv

LEMMA AnswerInvInit == ConnInit /\ CallInit => LoopInv /\ AnswerInv
BY LoopInvInit, AnswerInit DEF ConnInit, InHandler

\* Without spurious wakeups _mio_send_blocking returns MIO_OK only for a call
\* whose reply the event thread has processed.
THEOREM OkIsAnswered ==
    ASSUME ~SpuriousWakeups PROVE FullSpec => []OkMeansAnswered
<1>1. LoopInv /\ AnswerInv => OkMeansAnswered
  BY DEF AnswerInv, OkMeansAnswered
<1> QED
  BY <1>1, AnswerInvStep, AnswerInvInit, PTL DEF FullSpec, FullInit

\* Without spurious wakeups a call that has returned leaves no id handler in
\* libstrophe, except the one the event thread is about to remove.
THEOREM HandlersAreRemoved ==
    ASSUME ~SpuriousWakeups PROVE FullSpec => []NoStaleHandler
<1>1. LoopInv /\ AnswerInv => NoStaleHandler
  BY DEF LoopInv, TypeInv, CallTypeOK, AnswerInv, NoStaleHandler
<1> QED
  BY <1>1, AnswerInvStep, AnswerInvInit, PTL DEF FullSpec, FullInit

-----------------------------------------------------------------------------
(***************************************************************************)
(* The calls implement BlockingCall, up to its fairness.                   *)
(***************************************************************************)

CallInv == SlotInv /\ LoopInv /\ AnswerInv

LEMMA CallInvStep ==
    ASSUME ~SpuriousWakeups PROVE CallInv /\ [Next]_vars => CallInv'
BY SlotInvStep, AnswerInvStep DEF CallInv

LEMMA CallInvInit == ConnInit /\ CallInit => CallInv
BY ConnTypeInit, CallTypeInit, SlotInit, AnswerInvInit DEF CallInv, SlotInv, TypeInv

\* What a step may leave unchanged of what BlockingCall sees.
AbstractStutter ==
    /\ \A c \in Callers : PhaseOf(c)' = PhaseOf(c) /\ OutcomeOf(c)' = OutcomeOf(c)
    /\ SlotHolders' = SlotHolders
    /\ predicate' = predicate

LEMMA StutterMaps ==
    ASSUME AbstractStutter
    PROVE  UNCHANGED Abstract!abstractVars
<1>1. [c \in Callers |-> PhaseOf(c)]' = [c \in Callers |-> PhaseOf(c)]
  BY DEF AbstractStutter
<1>2. [c \in Callers |-> OutcomeOf(c)]' = [c \in Callers |-> OutcomeOf(c)]
  BY DEF AbstractStutter
<1>3. {c \in Callers : predicate[c]}' = {c \in Callers : predicate[c]}
  BY DEF AbstractStutter
<1> QED
  BY <1>1, <1>2, <1>3 DEF AbstractStutter, Abstract!abstractVars

\* The steps in which calls only move on between taking a slot and returning.
LEMMA OpenMove ==
    ASSUME UNCHANGED <<request, predicate>>,
           \A c \in Callers :
               \/ pc'[c] = pc[c] /\ ret'[c] = ret[c]
               \/ pc[c] \notin {"idle", "sem", "done"} /\ pc'[c] \notin {"idle", "sem", "done"}
    PROVE  AbstractStutter
<1>1. ASSUME NEW c \in Callers
      PROVE  PhaseOf(c)' = PhaseOf(c) /\ OutcomeOf(c)' = OutcomeOf(c)
  <2>1. CASE pc'[c] = pc[c] /\ ret'[c] = ret[c]
    BY <2>1 DEF PhaseOf, OutcomeOf
  <2>2. CASE pc[c] \notin {"idle", "sem", "done"} /\ pc'[c] \notin {"idle", "sem", "done"}
    BY <2>2 DEF PhaseOf, OutcomeOf
  <2> QED
    BY <2>1, <2>2
<1>2. SlotHolders' = SlotHolders
  BY DEF SlotHolders
<1> QED
  BY <1>1, <1>2 DEF AbstractStutter

LEMMA CallStepMaps ==
    ASSUME CallInv, NEW c \in Callers, RequestNew(c) \/ CallSteps(c) \/ SpuriousWake(c)
    PROVE  \/ Abstract!Open(c)
           \/ Abstract!Return(c)
           \/ UNCHANGED Abstract!abstractVars
<1>0. /\ pc \in [Callers -> Locations]
      /\ ret \in [Callers -> ReturnCodes]
      /\ request \in [Callers -> {"none", "live", "freed"}]
      /\ open_slots \in Nat
  BY DEF CallInv, SlotInv, TypeInv, CallTypeOK
<1> USE DEF Goto
<1>1. CASE RequestNew(c)
  <2>1. AbstractStutter
    BY <1>0, <1>1 DEF RequestNew, AbstractStutter, PhaseOf, OutcomeOf, SlotHolders
  <2> QED
    BY <2>1, StutterMaps
<1>2. CASE SemWait(c)
  <2>1. [d \in Callers |-> PhaseOf(d)][c] = "idle"
    BY <1>2 DEF SemWait, PhaseOf
  <2>2. Cardinality(SlotHolders) < MaxOpenRequests
    <3>1. Cardinality(SlotHolders) \in Nat
      BY RequestConstants, FS_Subset, FS_CardinalityType DEF SlotHolders
    <3> QED
      BY <1>0, <1>2, <3>1, RequestConstants DEF SemWait, CallInv, SlotInv, SlotAccounting
  <2>3. [d \in Callers |-> PhaseOf(d)]' = [[d \in Callers |-> PhaseOf(d)] EXCEPT ![c] = "open"]
    BY <1>0, <1>2 DEF SemWait, PhaseOf
  <2>4. SlotHolders' = SlotHolders \cup {c}
    BY <1>0, <1>2 DEF SemWait, SlotHolders, CallInv, SlotInv, RequestLife
  <2>5. [d \in Callers |-> OutcomeOf(d)]' = [d \in Callers |-> OutcomeOf(d)]
    BY <1>0, <1>2 DEF SemWait, OutcomeOf
  <2>6. {d \in Callers : predicate[d]}' = {d \in Callers : predicate[d]}
    BY <1>2 DEF SemWait
  <2>7. Abstract!Cardinality(SlotHolders) = Cardinality(SlotHolders)
    BY DEF Abstract!Cardinality, Cardinality
  <2>8. Abstract!Open(c)
    BY <2>1, <2>2, <2>3, <2>4, <2>5, <2>6, <2>7 DEF Abstract!Open
  <2> QED
    BY <2>8
<1>3. ASSUME pc[c] \in {"delete", "check"}, pc' = [pc EXCEPT ![c] = "done"],
             \A d \in Callers : d # c => ret'[d] = ret[d],
             ret'[c] = "ok" => predicate[c],
             UNCHANGED predicate,
             SlotHolders' \in {SlotHolders, SlotHolders \ {c}}
      PROVE  Abstract!Return(c)
  <2>1. PhaseOf(c) = "open"
    BY <1>3 DEF PhaseOf
  <2>2. [d \in Callers |-> PhaseOf(d)]' = [[d \in Callers |-> PhaseOf(d)] EXCEPT ![c] = "returned"]
    BY <1>0, <1>3 DEF PhaseOf
  <2>3. {d \in Callers : predicate[d]}' = {d \in Callers : predicate[d]}
    BY <1>3
  <2>4. CASE ret'[c] = "ok"
    <3>1. [d \in Callers |-> OutcomeOf(d)]' = [[d \in Callers |-> OutcomeOf(d)] EXCEPT ![c] = "ok"]
      BY <1>0, <1>3, <2>4 DEF OutcomeOf
    <3>2. c \in {d \in Callers : predicate[d]}
      BY <1>3, <2>4
    <3> QED
      BY <1>3, <2>1, <2>2, <2>3, <3>1, <3>2 DEF Abstract!Return
  <2>5. CASE ret'[c] # "ok"
    <3>1. [d \in Callers |-> OutcomeOf(d)]' = [[d \in Callers |-> OutcomeOf(d)] EXCEPT ![c] = "error"]
      BY <1>0, <1>3, <2>5 DEF OutcomeOf
    <3> QED
      BY <1>3, <2>1, <2>2, <2>3, <3>1 DEF Abstract!Return
  <2> QED
    BY <2>4, <2>5
<1>4. CASE RequestDelete(c)
  <2>1. SlotHolders' \in {SlotHolders, SlotHolders \ {c}}
    BY <1>0, <1>4 DEF RequestDelete, SlotHolders
  <2>2. ret[c] = "ok" => predicate[c]
    BY DEF CallInv, AnswerInv
  <2> QED
    BY <1>3, <1>4, <2>1, <2>2 DEF RequestDelete
<1>5. CASE PredicateTest(c) /\ predicate[c]
  <2>1. SlotHolders' = SlotHolders
    BY <1>0, <1>5 DEF PredicateTest, SlotHolders
  <2> QED
    BY <1>0, <1>3, <1>5, <2>1 DEF PredicateTest
<1>6. CASE PredicateTest(c) /\ ~predicate[c]
  BY <1>0, <1>6, OpenMove, StutterMaps DEF PredicateTest
<1>7. CASE RequestAddTest(c) \/ RequestAdd(c) \/ HandlerIdAddLock(c) \/ HandlerIdAdd(c)
  BY <1>0, <1>7, OpenMove, StutterMaps DEF RequestAddTest, RequestAdd, HandlerIdAddLock,
     HandlerIdAdd
<1>8. CASE SendTest(c) \/ EnqueueLock(c) \/ Enqueue(c) \/ WakeLoop(c)
  BY <1>0, <1>8, OpenMove, StutterMaps DEF SendTest, EnqueueLock, Enqueue, WakeLoop
<1>9. CASE ReconnectLock(c) \/ ReconnectWoken(c) \/ ReconnectRetest(c)
           \/ ReconnectTimeout(c) \/ ReconnectTimedOut(c)
  BY <1>0, <1>9, OpenMove, StutterMaps DEF ReconnectLock, ReconnectWoken,
     ReconnectRetest, ReconnectTimeout, ReconnectTimedOut
<1>10. CASE IdHandlerDelete(c) \/ LockAndWait(c) \/ WaitWoken(c) \/ WaitTimeout(c)
            \/ WaitTimedOut(c) \/ SpuriousWake(c)
  BY <1>0, <1>10, OpenMove, StutterMaps DEF IdHandlerDelete, LockAndWait, WaitWoken,
     WaitTimeout, WaitTimedOut, SpuriousWake
<1> QED
  BY <1>1, <1>2, <1>4, <1>5, <1>6, <1>7, <1>8, <1>9, <1>10 DEF CallSteps

LEMMA OtherStepMaps ==
    ASSUME CallInv, [Next]_vars,
           \A c \in Callers : ~(RequestNew(c) \/ CallSteps(c) \/ SpuriousWake(c))
    PROVE  (\E c \in Callers : Abstract!Answer(c)) \/ UNCHANGED Abstract!abstractVars
<1>0. /\ pc \in [Callers -> Locations]
      /\ predicate \in [Callers -> BOOLEAN]
  BY DEF CallInv, SlotInv, TypeInv, CallTypeOK
<1>1. CASE UNCHANGED callVars
  BY <1>1, OpenMove, StutterMaps DEF callVars
<1>2. CASE ReqBroadcast
  BY <1>0, <1>2, OpenMove, StutterMaps DEF ReqBroadcast
<1>3. CASE HandlerRemove
  BY <1>3, OpenMove, StutterMaps DEF HandlerRemove
<1>4. CASE HandlerSignal
  <2>1. cur \in Callers /\ pc[cur] \notin {"idle", "sem"}
    BY <1>4 DEF HandlerSignal, CallInv, AnswerInv, InHandler, BeforeHook
  <2>2. PhaseOf(cur) # "idle"
    BY <2>1 DEF PhaseOf
  <2>3. /\ UNCHANGED <<ret, request>>
        /\ \A c \in Callers : pc'[c] = pc[c] \/ (pc[c] = "wait" /\ pc'[c] = "woken")
    BY <1>0, <1>4, <2>1 DEF HandlerSignal
  <2>4. /\ [c \in Callers |-> PhaseOf(c)]' = [c \in Callers |-> PhaseOf(c)]
        /\ [c \in Callers |-> OutcomeOf(c)]' = [c \in Callers |-> OutcomeOf(c)]
        /\ SlotHolders' = SlotHolders
    <3>1. ASSUME NEW c \in Callers
          PROVE  PhaseOf(c)' = PhaseOf(c) /\ OutcomeOf(c)' = OutcomeOf(c)
      BY <2>3 DEF PhaseOf, OutcomeOf
    <3>2. SlotHolders' = SlotHolders
      BY <2>3 DEF SlotHolders
    <3> QED
      BY <3>1, <3>2
  <2>5. {c \in Callers : predicate[c]}' = {c \in Callers : predicate[c]} \cup {cur}
    <3>1. /\ predicate'[cur]
          /\ \A c \in Callers : c # cur => (predicate'[c] <=> predicate[c])
      BY <1>0, <1>4, <2>1, Zenon DEF HandlerSignal
    <3> QED
      BY <2>1, <3>1
  <2>6. PICK a \in Callers : a = cur
    BY <2>1
  <2>7. Abstract!Answer(a)
    BY <2>1, <2>2, <2>4, <2>5, <2>6 DEF Abstract!Answer
  <2> QED
    BY <2>7
<1> QED
  BY <1>1, <1>2, <1>3, <1>4
     DEF Next, ConnAlone, ReqFlush, ReqConnLost, HandlerSteps, HandlerRequestGet,
         HandlerParse, Receive, ServerReply, vars, callVars

\* Without spurious wakeups every behaviour of the calls, from mio_connect on,
\* is one of BlockingCall without its fairness: at most MaxOpenRequests calls
\* hold a slot, and a call that reports success has been answered.
THEOREM CallsImplementBlockingCall ==
    ASSUME ~SpuriousWakeups
    PROVE  FullSpec => /\ Abstract!AbstractInit
                       /\ [][Abstract!AbstractNext]_(Abstract!abstractVars)
<1>1. ConnInit /\ CallInit => Abstract!AbstractInit
  <2> SUFFICES ASSUME CallInit PROVE Abstract!AbstractInit
    OBVIOUS
  <2>1. [c \in Callers |-> PhaseOf(c)] = [c \in Callers |-> "idle"]
    BY DEF CallInit, PhaseOf
  <2>2. [c \in Callers |-> OutcomeOf(c)] = [c \in Callers |-> "none"]
    BY DEF CallInit, OutcomeOf
  <2>3. SlotHolders = {}
    BY DEF CallInit, SlotHolders
  <2>4. {c \in Callers : predicate[c]} = {}
    BY Zenon DEF CallInit
  <2> QED
    BY <2>1, <2>2, <2>3, <2>4 DEF Abstract!AbstractInit
<1>2. CallInv /\ [Next]_vars => [Abstract!AbstractNext]_(Abstract!abstractVars)
  BY CallStepMaps, OtherStepMaps DEF Abstract!AbstractNext
<1> QED
  BY <1>1, <1>2, CallInvStep, CallInvInit, PTL DEF FullSpec, FullInit

-----------------------------------------------------------------------------
(***************************************************************************)
(* The same from an established session.                                   *)
(***************************************************************************)

LEMMA SessionTypeInit == SessionInit => ConnTypeOK
<1> SUFFICES ASSUME SessionInit PROVE ConnTypeOK
  OBVIOUS
<1>1. /\ authenticated \in BOOLEAN /\ conn_predicate \in BOOLEAN
      /\ cleanup \in BOOLEAN /\ wake_request \in BOOLEAN
  BY Zenon DEF SessionInit
<1>2. send_queue \in Seq(Stanzas)
  BY DEF SessionInit
<1> QED
  BY <1>1, <1>2, Zenon DEF SessionInit, ConnTypeOK, RunLocations, AppLocations, Threads

LEMMA SessionCallInv == SessionInit /\ CallInit => CallInv
<1> SUFFICES ASSUME SessionInit, CallInit PROVE CallInv
  OBVIOUS
<1>1. TypeInv /\ "none" \notin Callers
  BY SessionTypeInit, CallTypeInit, ConnectionConstants DEF TypeInv
<1>2. LoopMutexInv /\ OneEventThread /\ ~InHandler
  BY <1>1 DEF SessionInit, CallInit, LoopMutexInv, OneEventThread, InRunOnce,
     InLoopSection, InHandler
<1> QED
  BY <1>1, <1>2, SlotInit, AnswerInit DEF CallInv, SlotInv, LoopInv

\* All safety properties of the calls, from a session that mio_connect has
\* reported established and without spurious wakeups.
THEOREM SessionSafety ==
    ASSUME ~SpuriousWakeups
    PROVE  Spec => [](/\ ReqTypeOK /\ SlotAccounting /\ TableEntriesLive
                      /\ NoStaleHandler /\ OkMeansAnswered /\ LoopExclusion)
<1>1. CallInv => /\ ReqTypeOK /\ SlotAccounting /\ TableEntriesLive
                 /\ NoStaleHandler /\ OkMeansAnswered /\ LoopExclusion
  <2> SUFFICES ASSUME CallInv
               PROVE  /\ ReqTypeOK /\ SlotAccounting /\ TableEntriesLive
                      /\ NoStaleHandler /\ OkMeansAnswered /\ LoopExclusion
    OBVIOUS
  <2>1. ReqTypeOK /\ SlotAccounting /\ TableEntriesLive
    BY TypeInvImplies, SlotInvImplies DEF CallInv, SlotInv
  <2>2. NoStaleHandler /\ OkMeansAnswered
    BY DEF CallInv, LoopInv, TypeInv, CallTypeOK, AnswerInv, NoStaleHandler, OkMeansAnswered
  <2>3. LoopExclusion
    BY ConnectionConstants DEF CallInv, LoopInv, LoopMutexInv, LoopExclusion
  <2> QED
    BY <2>1, <2>2, <2>3
<1> QED
  BY <1>1, SessionCallInv, CallInvStep, PTL DEF Spec, Init

=============================================================================

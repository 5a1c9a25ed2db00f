------------------------ MODULE BacnetAdapterProofs ------------------------
(***************************************************************************)
(* Proofs about BacnetAdapter for any number of devices, objects, commands *)
(* and invoke ids, any timeouts, and any number of packets under way.      *)
(***************************************************************************)
EXTENDS BacnetAdapter, WellFoundedInduction, TLAPS

USE DEF historyVars

-----------------------------------------------------------------------------
(***************************************************************************)
(* The inductive invariant.                                                *)
(***************************************************************************)

Reading == [object : Nat, value : Object \cup {NULL}, decoded : BOOLEAN]

\* BacTypeOK in four parts: a history variable, the threads, ...
LostOK == lost \in BOOLEAN

ControlOK ==
    /\ lock \in {"none", "data", "actuate"}
    /\ lock = "data" <=> dpc \notin {"lock", "sleep"}
    /\ lock = "actuate" <=> apc \notin {"receive", "lock"}
    /\ dpc \in {"lock", "sleep", "device", "bind", "bind_receive", "read", "read_check",
                "read_receive", "read_done", "publish", "xmpp_wait"}
    /\ dev \in 1..(Devices + 1)
    /\ obj \in Nat \ {0}
    /\ dpc \in {"bind", "bind_receive", "read", "read_check", "read_receive", "read_done",
                "publish", "xmpp_wait"}
       => dev \in Device /\ obj <= Objects[dev] + 1
    /\ dpc \in {"read_check", "read_receive", "read_done"} => obj <= Objects[dev]
    /\ round \in {"ok", "unbound", "timeout", "error"}
    /\ apc \in {"receive", "lock", "next", "write", "write_receive", "write_end"}

\* ... their variables, ...
LocalsOK ==
    /\ item \in Seq(Reading)
    /\ writes \in Seq(Object)
    /\ apc \in {"write", "write_receive", "write_end"} => writes # <<>>
    /\ found \in BOOLEAN /\ error \in BOOLEAN /\ decoded \in BOOLEAN /\ second \in BOOLEAN
    /\ target \in Device \cup {0}
    /\ elapsed \in 0..(BindTime + 1)

\* ... and the stack.
StackOK ==
    /\ id \in Ids \cup {0}
    /\ value \in Object \cup {NULL}
    /\ tsm \in [Ids -> Transaction \cup {NULL}]
    /\ current \in Ids
    /\ cache \in [Device -> {"absent", "requested", "bound"}]
    /\ requests \subseteq RequestPacket /\ replies \subseteq ReplyPacket

\* A transaction that waits for its answer has time left.
Running(table) ==
    \A i \in Ids : table[i] # NULL /\ table[i].state = "await" => table[i].timer # 0

AllFree(table) == \A i \in Ids : table[i] = NULL

\* Who may have a transaction; only the loop of write_bacnet_obj sees one fail.
TableInv ==
    /\ Running(tsm)
    /\ NoTransactionLeaks
    /\ lock = "data" => \A i \in Ids : ~Failed(tsm, i)
    /\ apc \in {"write", "write_receive"} => (~found => id = 0) /\ (error => AllFree(tsm))

\* The time of one operation is limited.
TimeInv ==
    /\ lock = "data" => elapsed <= BindTime
    /\ apc \in {"write", "write_receive"} => elapsed <= BindTime

\* Where the error flag is down.
ErrorInv ==
    /\ ErrorsAreHandled
    /\ apc = "write_receive" => ~error
    /\ apc = "next" /\ error => round = "unbound"
    /\ dpc = "device" /\ dev > 1 => ~error
    /\ dpc = "read" /\ obj > 1 => ~error
    /\ dpc \in {"publish", "xmpp_wait"} => ~error

\* Everything about the request that bacnet_data waits for is about its object.
AboutObject ==
    /\ \A m \in requests \cup replies : m.id = id => m.what = <<dev, obj>>
    /\ decoded => value = <<dev, obj>>

ReadInv ==
    /\ ReadingsMatch
    /\ dpc \notin {"read", "read_check", "read_receive", "read_done", "publish", "xmpp_wait"} =>
          item = <<>>
    /\ dpc \in {"bind", "bind_receive"} => obj = 1
    /\ dpc \in {"read", "read_check", "read_receive", "read_done"} => Len(item) = obj - 1
    /\ dpc = "read_done" => id # 0
    /\ dpc \in {"lock", "sleep"} => dev = 1
    /\ dpc \in {"read_check", "read_receive", "read_done"} /\ id # 0 => AboutObject

BacInv ==
    /\ ControlOK
    /\ LocalsOK
    /\ StackOK
    /\ TableInv
    /\ TimeInv
    /\ ErrorInv
    /\ ReadInv

-----------------------------------------------------------------------------
(***************************************************************************)
(* The stack.                                                              *)
(***************************************************************************)

LEMMA TypeParts == BacTypeOK <=> ControlOK /\ LocalsOK /\ StackOK /\ LostOK
BY Zenon DEF BacTypeOK, LostOK, ControlOK, LocalsOK, StackOK, Reading

LEMMA ObjectHasDevice ==
    ASSUME NEW o \in Object
    PROVE  o[1] \in Device
BY DEF Object

LEMMA PairIsObject ==
    ASSUME NEW d \in Device, NEW k \in 1..Objects[d]
    PROVE  <<d, k>> \in Object
BY DEF Object

\* A non-empty set of naturals has a smallest element.
LEMMA HasLeast ==
    ASSUME NEW S \in SUBSET Nat, S # {}
    PROVE  \E x \in S : \A y \in S : x <= y
<1> DEFINE R == OpToRel(<, Nat)
<1>1. IsWellFoundedOn(R, Nat)
  BY NatLessThanWellFounded, Zenon
<1>2. \A x, y \in Nat : <<y, x>> \in R <=> y < x
  BY DEF OpToRel
<1> HIDE DEF R
<1>3. PICK x \in S : \A y \in S : ~ (<<y, x>> \in R)
  BY <1>1, WFMin, Zenon
<1>4. \A y \in S : ~ (y < x)
  BY <1>2, <1>3, Zenon
<1> QED
  BY <1>4

\* The next free id is an id, or there is none.
LEMMA NextFreeIdType ==
    ASSUME BacnetConstants, current \in Ids, NEW table
    PROVE  NextFreeId(table) \in Ids \cup {0}
<1> DEFINE free == {k \in 0..(MaxId - 1) : table[Cycle(k)] = NULL}
           k0 == CHOOSE k \in free : \A j \in free : k <= j
<1>1. NextFreeId(table) = IF free = {} THEN 0 ELSE Cycle(k0)
  BY Zenon DEF NextFreeId
<1>2. ASSUME free # {} PROVE k0 \in 0..(MaxId - 1)
  <2>1. free \subseteq Nat /\ free \subseteq 0..(MaxId - 1)
    OBVIOUS
  <2> HIDE DEF free
  <2>2. \E k \in free : \A j \in free : k <= j
    BY <2>1, <1>2, HasLeast, Zenon
  <2>3. k0 \in free
    BY <2>2, Zenon
  <2> QED
    BY <2>1, <2>3, Zenon
<1> HIDE DEF free, k0
<1>3. \A k \in 0..(MaxId - 1) : Cycle(k) \in Ids
  BY DEF Cycle, Ids, BacnetConstants
<1> QED
  BY <1>1, <1>2, <1>3, Zenon

\* The state and the packets of a request that has just been sent.
LEMMA SendFacts ==
    ASSUME BacnetConstants, StackOK,
           NEW op \in {"read", "write"}, NEW what \in Object, NEW packets \in SUBSET RequestPacket,
           NEW table \in [Ids -> Transaction \cup {NULL}], AllFree(table),
           Send(op, what, table, packets)
    PROVE  /\ id' \in Ids \cup {0} /\ decoded' = FALSE /\ current' \in Ids
           /\ tsm' \in [Ids -> Transaction \cup {NULL}]
           /\ \A i \in Ids : tsm'[i] # NULL => i = id' /\ tsm'[i].state = "await"
           /\ Running(tsm')
           /\ requests' \subseteq RequestPacket /\ replies' \subseteq ReplyPacket
           /\ id' # 0 => \A m \in requests' \cup replies' : m.id = id' => m.what = what
<1> DEFINE t == [state |-> "await", timer |-> ApduTime, retry |-> 0, op |-> op, what |-> what]
           i == NextFreeId(table)
           new == [table EXCEPT ![i] = t]
<1>1. i \in Ids \cup {0}
  BY NextFreeIdType DEF StackOK
<1>2. t \in Transaction
  BY DEF Transaction, BacnetConstants
<1>3. CASE i = 0
  <2>1. id' = 0 /\ decoded' = FALSE /\ current' = current /\ tsm' = table /\ requests' = packets
        /\ replies' = replies
    BY <1>3, Zenon DEF Send
  <2> QED
    BY <2>1 DEF StackOK, AllFree, Running
<1>4. CASE i # 0
  <2>0. i \in Ids
    BY <1>1, <1>4
  <2>1. /\ id' = i /\ decoded' = FALSE /\ current' = (i % MaxId) + 1 /\ tsm' = new
        /\ requests' = Outlived(packets, i) \cup {Request(new, i)}
        /\ replies' = Outlived(replies, i)
    BY <1>4, Zenon DEF Send
  <2> HIDE DEF i
  <2>2. current' \in Ids
    BY <2>0, <2>1 DEF Ids, BacnetConstants
  <2>3. new \in [Ids -> Transaction \cup {NULL}] /\ new[i] = t
        /\ \A j \in Ids : j # i => new[j] = NULL
    BY <2>0, <1>2 DEF AllFree
  <2>4. t.state = "await" /\ t.timer # 0 /\ t.op = op /\ t.what = what
    BY DEF BacnetConstants
  <2>5. Request(new, i) = [to |-> what[1], id |-> i, op |-> op, what |-> what]
    BY <2>3, <2>4 DEF Request
  <2>6. Request(new, i) \in RequestPacket
    BY <2>0, <2>5, ObjectHasDevice DEF RequestPacket
  <2> HIDE DEF new, t
  <2>7. /\ \A j \in Ids : tsm'[j] # NULL => j = id' /\ tsm'[j].state = "await"
        /\ Running(tsm')
    BY <2>1, <2>3, <2>4 DEF Running
  <2>8. \A m \in requests' \cup replies' : m.id = i => m.what = what
    BY <2>1, <2>5 DEF Outlived
  <2>9. requests' \subseteq RequestPacket /\ replies' \subseteq ReplyPacket
    BY <2>1, <2>6 DEF Outlived, StackOK
  <2> QED
    BY <2>0, <2>1, <2>2, <2>3, <2>7, <2>8, <2>9
<1> QED
  BY <1>3, <1>4

LEMMA TransactionUpdates ==
    ASSUME NEW t \in Transaction, NEW n \in 0..ApduTime
    PROVE  /\ [t EXCEPT !.timer = n] \in Transaction
           /\ [t EXCEPT !.timer = n].timer = n
           /\ [t EXCEPT !.timer = n, !.state = "idle"] \in Transaction
           /\ [t EXCEPT !.timer = n, !.state = "idle"].state = "idle"
BY DEF Transaction

LEMMA TransactionRetried ==
    ASSUME NEW t \in Transaction, NEW n \in 0..ApduTime, NEW k \in 0..Retries
    PROVE  /\ [t EXCEPT !.timer = n, !.retry = k] \in Transaction
           /\ [t EXCEPT !.timer = n, !.retry = k].timer = n
BY DEF Transaction

\* A second changes only the transactions that wait, and repeats their requests.
LEMMA TimerFacts ==
    ASSUME BacnetConstants, StackOK, Running(tsm)
    PROVE  /\ TsmTimer \in [Ids -> Transaction \cup {NULL}]
           /\ \A i \in Ids : (TsmTimer[i] = NULL) <=> (tsm[i] = NULL)
           /\ Running(TsmTimer)
           /\ requests \cup Resent \subseteq RequestPacket
<1>0. NULL \notin Transaction /\ "await" # "idle"
  BY DEF BacnetConstants
<1>1. ASSUME NEW i \in Ids
      PROVE  /\ TsmTimer[i] \in Transaction \cup {NULL}
             /\ (TsmTimer[i] = NULL) <=> (tsm[i] = NULL)
             /\ TsmTimer[i] # NULL /\ TsmTimer[i].state = "await" => TsmTimer[i].timer # 0
  <2>1. tsm[i] \in Transaction \cup {NULL}
    BY DEF StackOK
  <2>2. CASE i \notin Awaiting \/ ~second
    <3>1. TsmTimer[i] = tsm[i]
      BY <2>2 DEF TsmTimer
    <3> QED
      BY <3>1, <2>1 DEF Running
  <2>3. CASE i \in Awaiting /\ second
    <3>0. tsm[i] \in Transaction /\ tsm[i].timer # 0 /\ tsm[i].state = "await"
      BY <2>1, <2>3 DEF Awaiting, Running
    <3>4. /\ tsm[i].timer \in 0..ApduTime /\ tsm[i].retry \in 0..Retries
          /\ ApduTime \in 0..ApduTime /\ ApduTime # 0 /\ 0 \in 0..ApduTime /\ Retries \in Nat
      BY <3>0 DEF Transaction, BacnetConstants
    <3>1. CASE i \notin Expired
      <4>1. tsm[i].timer # 1
        BY <2>3, <3>1 DEF Expired
      <4>2. PICK n \in 0..ApduTime : n = tsm[i].timer - 1 /\ n # 0
        BY <3>0, <3>4, <4>1
      <4> DEFINE r == [tsm[i] EXCEPT !.timer = n]
      <4>3. TsmTimer[i] = r
        BY <2>3, <3>1, <4>2 DEF TsmTimer
      <4>4. r \in Transaction /\ r.timer = n
        BY <3>0, TransactionUpdates, Zenon
      <4> HIDE DEF r
      <4> QED
        BY <4>2, <4>3, <4>4, <3>0, <1>0
    <3>2. CASE i \in Expired /\ tsm[i].retry < Retries
      <4>1. PICK k \in 0..Retries : k = tsm[i].retry + 1
        BY <3>2, <3>4
      <4> DEFINE r == [tsm[i] EXCEPT !.timer = ApduTime, !.retry = k]
      <4>2. TsmTimer[i] = r
        BY <2>3, <3>2, <4>1 DEF TsmTimer
      <4>3. r \in Transaction /\ r.timer = ApduTime
        BY <3>0, <3>4, TransactionRetried, Zenon
      <4> HIDE DEF r
      <4> QED
        BY <4>2, <4>3, <3>0, <3>4, <1>0
    <3>3. CASE i \in Expired /\ ~(tsm[i].retry < Retries)
      <4> DEFINE r == [tsm[i] EXCEPT !.timer = 0, !.state = "idle"]
      <4>1. TsmTimer[i] = r
        BY <2>3, <3>3 DEF TsmTimer
      <4>2. r \in Transaction /\ r.state = "idle"
        BY <3>0, <3>4, TransactionUpdates, Zenon
      <4> HIDE DEF r
      <4> QED
        BY <4>1, <4>2, <3>0, <1>0
    <3> QED
      BY <3>1, <3>2, <3>3
  <2> QED
    BY <2>2, <2>3
<1>2. TsmTimer = [i \in Ids |-> TsmTimer[i]]
  BY DEF TsmTimer
<1>3. Resent \subseteq RequestPacket
  <2>1. ASSUME NEW i \in Awaiting PROVE Request(tsm, i) \in RequestPacket
    <3>1. tsm[i] \in Transaction /\ i \in Ids
      BY <2>1 DEF Awaiting, StackOK
    <3>2. tsm[i].op \in {"read", "write"} /\ tsm[i].what \in Object
      BY <3>1 DEF Transaction
    <3>3. tsm[i].what[1] \in Device
      BY <3>2, ObjectHasDevice
    <3> QED
      BY <3>1, <3>2, <3>3 DEF Request, RequestPacket
  <2> QED
    BY <2>1 DEF Resent, Expired
<1> QED
  BY <1>1, <1>2, <1>3 DEF StackOK, Running

\* The effects of a packet, or of none.
LEMMA ReceiveFacts ==
    ASSUME StackOK, error \in BOOLEAN, decoded \in BOOLEAN, Receive
    PROVE  /\ requests' = requests /\ replies' \subseteq replies
           /\ cache' \in [Device -> {"absent", "requested", "bound"}]
           /\ error' \in BOOLEAN /\ decoded' \in BOOLEAN /\ value' \in Object \cup {NULL}
           /\ tsm' \in [Ids -> Transaction \cup {NULL}]
           /\ \A i \in Ids : tsm'[i] = NULL \/ tsm'[i] = tsm[i]
           /\ error' => error \/ (id \in Ids /\ tsm'[id] = NULL)
           /\ \/ value' = value /\ decoded' = decoded
              \/ \E m \in replies : m.id = id /\ value' = m.what
<1>1. CASE ReceiveNothing
  BY <1>1 DEF ReceiveNothing, net, handlerVars, StackOK
<1>2. ASSUME NEW m \in replies, Handle(m)
      PROVE  /\ requests' = requests /\ replies' \subseteq replies
             /\ cache' \in [Device -> {"absent", "requested", "bound"}]
             /\ error' \in BOOLEAN /\ decoded' \in BOOLEAN /\ value' \in Object \cup {NULL}
             /\ tsm' \in [Ids -> Transaction \cup {NULL}]
             /\ \A i \in Ids : tsm'[i] = NULL \/ tsm'[i] = tsm[i]
             /\ error' => error \/ (id \in Ids /\ tsm'[id] = NULL)
             /\ \/ value' = value /\ decoded' = decoded
                \/ m.id = id /\ value' = m.what
  <2>1. m \in ReplyPacket
    BY DEF StackOK
  <2>2. /\ m.from \in Device
        /\ m.kind = "read_ack" => m.what \in Object
        /\ m.kind = "error" => m.id \in Ids
    BY <2>1 DEF ReplyPacket
  <2>3. requests' = requests /\ replies' \subseteq replies
    BY <1>2 DEF Handle
  <2>4. cache' \in [Device -> {"absent", "requested", "bound"}]
    BY <1>2, <2>2 DEF Handle, StackOK
  <2>5. tsm' = Freed(m)
    BY <1>2 DEF Handle
  <2>6. /\ tsm' \in [Ids -> Transaction \cup {NULL}]
        /\ \A i \in Ids : tsm'[i] = NULL \/ tsm'[i] = tsm[i]
        /\ m.id \in Ids => tsm'[m.id] = NULL
    BY <2>5 DEF Freed, StackOK
  <2>7. error' \in BOOLEAN /\ (error' => error \/ (m.kind = "error" /\ m.id = id))
    BY <1>2, Zenon DEF Handle, IsOurs
  <2>8. CASE m.kind = "read_ack" /\ IsOurs(m)
    <3>1. value' = m.what /\ decoded' \in BOOLEAN
      BY <1>2, <2>8, Zenon DEF Handle
    <3>2. m.id = id
      BY <2>8 DEF IsOurs
    <3> QED
      BY <3>1, <3>2, <2>2, <2>3, <2>4, <2>6, <2>7, <2>8
  <2>9. CASE ~(m.kind = "read_ack" /\ IsOurs(m))
    <3>1. value' = value /\ decoded' = decoded
      BY <1>2, <2>9 DEF Handle
    <3> QED
      BY <3>1, <2>2, <2>3, <2>4, <2>6, <2>7 DEF StackOK
  <2> QED
    BY <2>8, <2>9
<1> QED
  BY <1>1, <1>2, Zenon DEF Receive

LEMMA BindFacts ==
    ASSUME StackOK, target \in Device \cup {0}, NEW d \in Device, BindRequest(d)
    PROVE  /\ found' \in BOOLEAN /\ target' \in Device \cup {0}
           /\ cache' \in [Device -> {"absent", "requested", "bound"}]
<1>1. found' \in BOOLEAN
  BY Zenon DEF BindRequest
<1> QED
  BY <1>1 DEF BindRequest, StackOK

LEMMA BindOrAskFacts ==
    ASSUME StackOK, target \in Device \cup {0}, NEW d \in Device, BindOrAsk(d)
    PROVE  /\ found' \in BOOLEAN /\ target' \in Device \cup {0} /\ second' \in BOOLEAN
           /\ cache' \in [Device -> {"absent", "requested", "bound"}]
           /\ requests' \subseteq RequestPacket /\ replies' = replies
<1>1. WhoIs(d) \in RequestPacket
  BY DEF WhoIs, RequestPacket
<1> QED
  BY <1>1, BindFacts DEF BindOrAsk, StackOK

-----------------------------------------------------------------------------
(***************************************************************************)
(* The steps of bacnet_data.                                               *)
(***************************************************************************)

LEMMA AppendType ==
    ASSUME NEW S, NEW s \in Seq(S), NEW x \in S
    PROVE  /\ Append(s, x) \in Seq(S) /\ Len(Append(s, x)) = Len(s) + 1
           /\ Append(s, x)[Len(s) + 1] = x /\ \A k \in 1..Len(s) : Append(s, x)[k] = s[k]
OBVIOUS

LEMMA DataLockStep ==
    ASSUME BacnetConstants, BacInv, DataLock
    PROVE  BacInv'
<1>1. ControlOK'
  BY DEF BacInv, ControlOK, BacnetConstants, Device, DataLock, actVars, handlerVars, net
<1>2. LocalsOK'
  BY DEF BacInv, ControlOK, LocalsOK, BacnetConstants, DataLock, actVars, handlerVars, net
<1>3. StackOK'
  BY DEF BacInv, StackOK, DataLock, actVars, handlerVars, net
<1>4. TableInv'
  BY DEF BacInv, ControlOK, LocalsOK, StackOK, TableInv, NoTransactionLeaks, Running, Failed,
     AllFree, DataLock, actVars, handlerVars, net
<1>5. TimeInv'
  BY DEF BacInv, ControlOK, TimeInv, BacnetConstants, DataLock, actVars, handlerVars, net
<1>6. ErrorInv'
  BY DEF BacInv, ControlOK, ErrorInv, ErrorsAreHandled, ReadInv, DataLock, actVars, handlerVars,
     net
<1>7. ReadInv'
  BY DEF BacInv, ControlOK, ReadInv, ReadingsMatch, AboutObject, DataLock, actVars, handlerVars,
     net
<1> QED
  BY <1>1, <1>2, <1>3, <1>4, <1>5, <1>6, <1>7 DEF BacInv

LEMMA DataSleepStep ==
    ASSUME BacnetConstants, BacInv, DataSleep
    PROVE  BacInv'
<1>1. ControlOK'
  BY DEF BacInv, ControlOK, BacnetConstants, Device, DataSleep, actVars, handlerVars, timeVars,
     net
<1>2. LocalsOK'
  BY DEF BacInv, ControlOK, LocalsOK, DataSleep, actVars, handlerVars, timeVars, net
<1>3. StackOK'
  BY DEF BacInv, StackOK, DataSleep, actVars, handlerVars, timeVars, net
<1>4. TableInv'
  BY DEF BacInv, ControlOK, LocalsOK, StackOK, TableInv, NoTransactionLeaks, Running, Failed,
     AllFree, DataSleep, actVars, handlerVars, timeVars, net
<1>5. TimeInv'
  BY DEF BacInv, ControlOK, TimeInv, DataSleep, actVars, handlerVars, timeVars, net
<1>6. ErrorInv'
  BY DEF BacInv, ControlOK, ErrorInv, ErrorsAreHandled, DataSleep, actVars, handlerVars, timeVars,
     net
<1>7. ReadInv'
  BY DEF BacInv, ControlOK, ReadInv, ReadingsMatch, AboutObject, DataSleep, actVars, handlerVars,
     timeVars, net
<1> QED
  BY <1>1, <1>2, <1>3, <1>4, <1>5, <1>6, <1>7 DEF BacInv

LEMMA NextDeviceStep ==
    ASSUME BacnetConstants, BacInv, NextDevice
    PROVE  BacInv'
<1>0. /\ found' \in BOOLEAN /\ target' \in Device \cup {0} /\ second' \in BOOLEAN
      /\ cache' \in [Device -> {"absent", "requested", "bound"}]
      /\ requests' \subseteq RequestPacket /\ replies' = replies
  <2>1. CASE dev > Devices
    BY <2>1 DEF BacInv, ControlOK, LocalsOK, StackOK, NextDevice, net, BacnetConstants
  <2>2. CASE dev <= Devices
    <3>1. dev \in Device /\ BindOrAsk(dev)
      BY <2>2 DEF BacInv, ControlOK, NextDevice, Device, BacnetConstants
    <3> QED
      BY <3>1, BindOrAskFacts DEF BacInv, LocalsOK
  <2> QED
    BY <2>1, <2>2 DEF BacInv, ControlOK, BacnetConstants
<1>1. ControlOK'
  BY DEF BacInv, ControlOK, BacnetConstants, Device, NextDevice, DataReturn, actVars, handlerVars,
     net
<1>2. LocalsOK'
  <2>1. item' \in Seq(Reading)
    <3>1. item' = item \/ item' = <<>>
      BY DEF NextDevice, DataReturn
    <3>2. <<>> \in Seq(Reading)
      OBVIOUS
    <3> QED
      BY <3>1, <3>2, Zenon DEF BacInv, LocalsOK
  <2>2. /\ writes' \in Seq(Object)
        /\ apc' \in {"write", "write_receive", "write_end"} => writes' # <<>>
    BY <1>0 DEF BacInv, ControlOK, LocalsOK, NextDevice, DataReturn, actVars, handlerVars
  <2>3. found' \in BOOLEAN /\ error' \in BOOLEAN /\ decoded' \in BOOLEAN /\ second' \in BOOLEAN
    BY <1>0 DEF BacInv, LocalsOK, NextDevice, DataReturn, actVars, handlerVars
  <2>4. target' \in Device \cup {0} /\ elapsed' \in 0..(BindTime + 1)
    BY <1>0 DEF BacInv, LocalsOK, BacnetConstants, NextDevice, DataReturn, actVars, handlerVars
  <2> QED
    BY <2>1, <2>2, <2>3, <2>4 DEF LocalsOK
<1>3. StackOK'
  BY <1>0 DEF BacInv, StackOK, NextDevice, DataReturn, actVars, handlerVars, net
<1>4. TableInv'
  BY DEF BacInv, ControlOK, LocalsOK, StackOK, TableInv, NoTransactionLeaks, Running, Failed,
     AllFree, NextDevice, DataReturn, actVars, handlerVars, net
<1>5. TimeInv'
  BY DEF BacInv, ControlOK, TimeInv, NextDevice, DataReturn, actVars, handlerVars, net
<1>6. ErrorInv'
  BY DEF BacInv, ControlOK, ErrorInv, ErrorsAreHandled, BacnetConstants, NextDevice, DataReturn,
     actVars, handlerVars, net
<1>7. ReadInv'
  BY DEF BacInv, ControlOK, ReadInv, ReadingsMatch, AboutObject, BacnetConstants, NextDevice,
     DataReturn, actVars, handlerVars, net
<1> QED
  BY <1>1, <1>2, <1>3, <1>4, <1>5, <1>6, <1>7 DEF BacInv

LEMMA BindStep ==
    ASSUME BacnetConstants, BacInv, Bind
    PROVE  BacInv'
<1>0. /\ found' \in BOOLEAN /\ target' \in Device \cup {0}
      /\ cache' \in [Device -> {"absent", "requested", "bound"}]
  <2>1. dev \in Device /\ BindRequest(dev)
    BY DEF BacInv, ControlOK, Bind
  <2> QED
    BY <2>1, BindFacts DEF BacInv, LocalsOK
<1>9. dpc = "bind" /\ tsm' = TsmTimer /\ requests' = requests \cup Resent
  BY DEF Bind
<1>10. tsm' \in [Ids -> Transaction \cup {NULL}] /\ requests' \subseteq RequestPacket
  BY <1>9, TimerFacts DEF BacInv, TableInv
<1>12. Running(tsm')
  BY <1>9, TimerFacts DEF BacInv, TableInv
<1>13. \A i \in Ids : (tsm'[i] = NULL) <=> (tsm[i] = NULL)
  BY <1>9, TimerFacts, Zenon DEF BacInv, TableInv
<1>11. Waited \in Nat
  BY DEF Waited, BacInv, LocalsOK, BacnetConstants
<1>1. ControlOK'
  BY DEF BacInv, ControlOK, BacnetConstants, Device, Bind, DataReturn, BindRequest, actVars,
     handlerVars
<1>2. LocalsOK'
  <2>1. item' \in Seq(Reading)
    <3>1. item' = item \/ item' = <<>>
      BY DEF Bind, DataReturn
    <3>2. <<>> \in Seq(Reading)
      OBVIOUS
    <3> QED
      BY <3>1, <3>2, Zenon DEF BacInv, LocalsOK
  <2>2. /\ writes' \in Seq(Object)
        /\ apc' \in {"write", "write_receive", "write_end"} => writes' # <<>>
    BY <1>0, <1>11 DEF BacInv, ControlOK, LocalsOK, Bind, DataReturn, actVars, handlerVars
  <2>3. found' \in BOOLEAN /\ error' \in BOOLEAN /\ decoded' \in BOOLEAN /\ second' \in BOOLEAN
    BY <1>0, <1>11 DEF BacInv, LocalsOK, Bind, DataReturn, actVars, handlerVars
  <2>4. target' \in Device \cup {0} /\ elapsed' \in 0..(BindTime + 1)
    BY <1>0, <1>11 DEF BacInv, LocalsOK, BacnetConstants, Bind, DataReturn, actVars, handlerVars
  <2> QED
    BY <2>1, <2>2, <2>3, <2>4 DEF LocalsOK
<1>3. StackOK'
  <2>1. UNCHANGED <<id, value, current, replies>>
    BY DEF Bind, handlerVars
  <2> QED
    BY <1>0, <1>10, <2>1 DEF BacInv, StackOK
<1>4. TableInv'
  <2>1. AllFree(tsm')
    BY <1>9, <1>13 DEF BacInv, TableInv, NoTransactionLeaks, AllFree
  <2>2. apc' = apc /\ apc \in {"receive", "lock"}
    BY DEF BacInv, ControlOK, Bind, actVars
  <2> QED
    BY <1>12, <2>1, <2>2 DEF TableInv, NoTransactionLeaks, Failed, AllFree
<1>5. TimeInv'
  BY <1>11 DEF BacInv, ControlOK, TimeInv, BacnetConstants, Bind, DataReturn, actVars
<1>6. ErrorInv'
  BY DEF BacInv, ControlOK, ErrorInv, ErrorsAreHandled, Bind, DataReturn, BindRequest, actVars,
     handlerVars
<1>7. ReadInv'
  BY DEF BacInv, ControlOK, ReadInv, ReadingsMatch, AboutObject, Bind, DataReturn, BindRequest,
     actVars, handlerVars
<1> QED
  BY <1>1, <1>2, <1>3, <1>4, <1>5, <1>6, <1>7 DEF BacInv

LEMMA BindReceiveStep ==
    ASSUME BacnetConstants, BacInv, BindReceive
    PROVE  BacInv'
<1>0. /\ requests' = requests /\ replies' \subseteq replies
      /\ cache' \in [Device -> {"absent", "requested", "bound"}]
      /\ error' \in BOOLEAN /\ decoded' \in BOOLEAN /\ value' \in Object \cup {NULL}
      /\ tsm' \in [Ids -> Transaction \cup {NULL}]
      /\ \A i \in Ids : tsm'[i] = NULL \/ tsm'[i] = tsm[i]
      /\ error' => error \/ (id \in Ids /\ tsm'[id] = NULL)
      /\ \/ value' = value /\ decoded' = decoded
         \/ \E m \in replies : m.id = id /\ value' = m.what
  BY ReceiveFacts DEF BacInv, LocalsOK, BindReceive
<1>1. ControlOK'
  BY DEF BacInv, ControlOK, BacnetConstants, Device, BindReceive, actVars, timeVars
<1>2. LocalsOK'
  BY <1>0 DEF BacInv, ControlOK, LocalsOK, BindReceive, actVars, timeVars
<1>3. StackOK'
  BY <1>0 DEF BacInv, StackOK, BindReceive, actVars, timeVars
<1>4. TableInv'
  BY <1>0 DEF BacInv, ControlOK, LocalsOK, StackOK, TableInv, NoTransactionLeaks, Running, Failed,
     AllFree, BindReceive, actVars, timeVars
<1>5. TimeInv'
  BY DEF BacInv, ControlOK, TimeInv, BindReceive, actVars, timeVars
<1>6. ErrorInv'
  BY <1>0 DEF BacInv, ControlOK, ErrorInv, ErrorsAreHandled, ReadInv, BindReceive, actVars,
     timeVars
<1>7. ReadInv'
  BY <1>0 DEF BacInv, ControlOK, ReadInv, ReadingsMatch, AboutObject, BindReceive, actVars,
     timeVars
<1> QED
  BY <1>1, <1>2, <1>3, <1>4, <1>5, <1>6, <1>7 DEF BacInv

LEMMA NextObjectStep ==
    ASSUME BacnetConstants, BacInv, NextObject
    PROVE  BacInv'
<1>1. ControlOK'
  BY DEF BacInv, ControlOK, BacnetConstants, Device, NextObject, actVars, handlerVars, timeVars,
     net
<1>2. LocalsOK'
  BY DEF BacInv, ControlOK, LocalsOK, NextObject, actVars, handlerVars, timeVars, net
<1>3. StackOK'
  BY DEF BacInv, StackOK, NextObject, actVars, handlerVars, timeVars, net
<1>4. TableInv'
  BY DEF BacInv, ControlOK, LocalsOK, StackOK, TableInv, NoTransactionLeaks, Running, Failed,
     AllFree, NextObject, actVars, handlerVars, timeVars, net
<1>5. TimeInv'
  BY DEF BacInv, ControlOK, TimeInv, NextObject, actVars, handlerVars, timeVars, net
<1>6. ErrorInv'
  BY DEF BacInv, ControlOK, ErrorInv, ErrorsAreHandled, NextObject, actVars, handlerVars,
     timeVars, net
<1>7. ReadInv'
  BY DEF BacInv, ControlOK, ReadInv, ReadingsMatch, AboutObject, NextObject, actVars, handlerVars,
     timeVars, net
<1> QED
  BY <1>1, <1>2, <1>3, <1>4, <1>5, <1>6, <1>7 DEF BacInv

LEMMA ReadCheckStep ==
    ASSUME BacnetConstants, BacInv, ReadCheck
    PROVE  BacInv'
<1>1. /\ lock = "data" /\ dpc = "read_check" /\ apc \in {"receive", "lock"}
      /\ UNCHANGED <<apc, writes, found, target, error, value, cache, second, elapsed>>
  BY DEF BacInv, ControlOK, ReadCheck, actVars, timeVars
<1>2. /\ id \in Ids \cup {0} /\ tsm \in [Ids -> Transaction \cup {NULL}]
      /\ requests \subseteq RequestPacket
  BY DEF BacInv, StackOK
<1>3. (\A i \in Ids : tsm[i] # NULL => i = id) /\ \A i \in Ids : ~Failed(tsm, i)
  BY <1>1 DEF BacInv, TableInv, NoTransactionLeaks
<1>4. UNCHANGED <<lock, dev, obj, item, round>>
  BY <1>2, <1>3 DEF ReadCheck
<1>5. CASE id = 0
  <2>1. Send("read", <<dev, obj>>, tsm, requests) /\ dpc' = "read_receive"
    BY <1>5 DEF ReadCheck
  <2>2. <<dev, obj>> \in Object
    <3>1. dev \in Device /\ obj \in 1..Objects[dev]
      BY <1>1 DEF BacInv, ControlOK, BacnetConstants
    <3> QED
      BY <3>1, PairIsObject
  <2>3. AllFree(tsm)
    BY <1>3, <1>5 DEF AllFree, Ids
  <2>4. /\ id' \in Ids \cup {0} /\ decoded' = FALSE /\ current' \in Ids
        /\ tsm' \in [Ids -> Transaction \cup {NULL}]
        /\ \A i \in Ids : tsm'[i] # NULL => i = id' /\ tsm'[i].state = "await"
        /\ Running(tsm')
        /\ requests' \subseteq RequestPacket /\ replies' \subseteq ReplyPacket
        /\ id' # 0 => \A m \in requests' \cup replies' : m.id = id' => m.what = <<dev, obj>>
    BY <1>2, <2>1, <2>2, <2>3, SendFacts DEF BacInv
  <2>5. ControlOK' /\ TimeInv'
    BY <1>1, <1>4, <2>1 DEF BacInv, ControlOK, TimeInv
  <2>6. LocalsOK'
    BY <1>1, <1>4, <2>4 DEF BacInv, LocalsOK
  <2>7. StackOK'
    BY <1>1, <2>4 DEF BacInv, StackOK
  <2>8. TableInv'
    BY <1>1, <1>4, <2>1, <2>4 DEF TableInv, NoTransactionLeaks, Failed
  <2>9. ErrorInv'
    BY <1>1, <1>4, <2>1 DEF BacInv, ErrorInv, ErrorsAreHandled
  <2>10. ReadInv'
    BY <1>1, <1>4, <2>1, <2>4 DEF BacInv, ReadInv, ReadingsMatch, AboutObject
  <2> QED
    BY <2>5, <2>6, <2>7, <2>8, <2>9, <2>10 DEF BacInv
<1>6. CASE id # 0
  <2>1. /\ UNCHANGED <<id, tsm, current, requests, replies, decoded>>
        /\ \/ dpc' = "read_done" /\ tsm[id] = NULL
           \/ dpc' = "read_receive"
    BY <1>2, <1>3, <1>6 DEF ReadCheck, net
  <2>2. ControlOK' /\ TimeInv'
    BY <1>1, <1>4, <2>1 DEF BacInv, ControlOK, TimeInv
  <2>3. LocalsOK' /\ StackOK'
    BY <1>1, <1>4, <2>1 DEF BacInv, LocalsOK, StackOK
  <2>4. TableInv'
    BY <1>1, <1>3, <1>4, <2>1 DEF BacInv, TableInv, NoTransactionLeaks, Failed, Running
  <2>5. ErrorInv'
    BY <1>1, <1>4, <2>1 DEF BacInv, ErrorInv, ErrorsAreHandled
  <2>6. ReadInv'
    BY <1>1, <1>4, <1>6, <2>1 DEF BacInv, ReadInv, ReadingsMatch, AboutObject
  <2> QED
    BY <2>2, <2>3, <2>4, <2>5, <2>6 DEF BacInv
<1> QED
  BY <1>5, <1>6

LEMMA ReadReceiveStep ==
    ASSUME BacnetConstants, BacInv, ReadReceive
    PROVE  BacInv'
<1>0. /\ requests' = requests /\ replies' \subseteq replies
      /\ cache' \in [Device -> {"absent", "requested", "bound"}]
      /\ error' \in BOOLEAN /\ decoded' \in BOOLEAN /\ value' \in Object \cup {NULL}
      /\ tsm' \in [Ids -> Transaction \cup {NULL}]
      /\ \A i \in Ids : tsm'[i] = NULL \/ tsm'[i] = tsm[i]
      /\ error' => error \/ (id \in Ids /\ tsm'[id] = NULL)
      /\ \/ value' = value /\ decoded' = decoded
         \/ \E m \in replies : m.id = id /\ value' = m.what
  BY ReceiveFacts DEF BacInv, LocalsOK, ReadReceive
<1>1. ControlOK'
  BY DEF BacInv, ControlOK, BacnetConstants, Device, ReadReceive, actVars, timeVars
<1>2. LocalsOK'
  BY <1>0 DEF BacInv, ControlOK, LocalsOK, ReadReceive, actVars, timeVars
<1>3. StackOK'
  BY <1>0 DEF BacInv, StackOK, ReadReceive, actVars, timeVars
<1>4. TableInv'
  BY <1>0 DEF BacInv, ControlOK, LocalsOK, StackOK, TableInv, NoTransactionLeaks, Running, Failed,
     AllFree, ReadReceive, actVars, timeVars
<1>5. TimeInv'
  BY DEF BacInv, ControlOK, TimeInv, ReadReceive, actVars, timeVars
<1>6. ErrorInv'
  BY <1>0 DEF BacInv, ControlOK, ErrorInv, ErrorsAreHandled, ReadInv, ReadReceive, actVars,
     timeVars
<1>7. ReadInv'
  BY <1>0 DEF BacInv, ControlOK, ReadInv, ReadingsMatch, AboutObject, ReadReceive, actVars,
     timeVars
<1> QED
  BY <1>1, <1>2, <1>3, <1>4, <1>5, <1>6, <1>7 DEF BacInv

LEMMA ReadDoneStep ==
    ASSUME BacnetConstants, BacInv, ReadDone
    PROVE  BacInv'
<1>0. ~error => [object |-> obj, value |-> value, decoded |-> decoded] \in Reading
  BY DEF BacInv, ControlOK, LocalsOK, StackOK, Reading
<1>1. ControlOK'
  BY DEF BacInv, ControlOK, BacnetConstants, Device, ReadDone, DataReturn, actVars, timeVars, net
<1>2. LocalsOK'
  <2>1. item' \in Seq(Reading)
    <3>1. CASE error
      <4>1. item' = <<>>
        BY <3>1 DEF ReadDone, DataReturn
      <4> QED
        BY <4>1
    <3>2. CASE ~error
      <4>1. item' = Append(item, [object |-> obj, value |-> value, decoded |-> decoded])
        BY <3>2 DEF ReadDone
      <4> QED
        BY <1>0, <3>2, <4>1, AppendType DEF BacInv, LocalsOK
    <3> QED
      BY <3>1, <3>2
  <2>2. /\ writes' \in Seq(Object)
        /\ apc' \in {"write", "write_receive", "write_end"} => writes' # <<>>
    BY <1>0 DEF BacInv, ControlOK, LocalsOK, ReadDone, DataReturn, actVars, timeVars
  <2>3. found' \in BOOLEAN /\ error' \in BOOLEAN /\ decoded' \in BOOLEAN /\ second' \in BOOLEAN
    BY <1>0 DEF BacInv, LocalsOK, ReadDone, DataReturn, actVars, timeVars
  <2>4. target' \in Device \cup {0} /\ elapsed' \in 0..(BindTime + 1)
    BY <1>0 DEF BacInv, LocalsOK, BacnetConstants, ReadDone, DataReturn, actVars, timeVars
  <2> QED
    BY <2>1, <2>2, <2>3, <2>4 DEF LocalsOK
<1>3. StackOK'
  BY DEF BacInv, StackOK, ReadDone, DataReturn, actVars, timeVars, net
<1>4. TableInv'
  BY DEF BacInv, ControlOK, LocalsOK, StackOK, TableInv, NoTransactionLeaks, Running, Failed,
     AllFree, ReadDone, DataReturn, actVars, timeVars, net
<1>5. TimeInv'
  BY DEF BacInv, ControlOK, TimeInv, ReadDone, DataReturn, actVars, timeVars, net
<1>6. ErrorInv'
  BY DEF BacInv, ControlOK, ErrorInv, ErrorsAreHandled, ReadDone, DataReturn, actVars, timeVars,
     net
<1>7. ReadInv'
  <2>1. CASE error
    BY <2>1 DEF BacInv, ReadInv, ReadingsMatch, ReadDone, DataReturn
  <2>2. CASE ~error
    <3> DEFINE r == [object |-> obj, value |-> value, decoded |-> decoded]
    <3>1. /\ item' = Append(item, r) /\ obj' = obj + 1 /\ dpc' = "read" /\ dev' = dev
          /\ Len(item) = obj - 1 /\ obj \in Nat \ {0} /\ (decoded => value = <<dev, obj>>)
      BY <2>2 DEF BacInv, ControlOK, ReadInv, AboutObject, ReadDone
    <3>2. /\ Len(item') = obj /\ item'[obj] = r
          /\ \A k \in 1..(obj - 1) : item'[k] = item[k]
      <4>1. item \in Seq(Reading) /\ r \in Reading
        BY <1>0, <2>2 DEF BacInv, LocalsOK
      <4> HIDE DEF r
      <4> QED
        BY <4>1, <3>1, AppendType
    <3>3. ASSUME NEW k \in 1..Len(item')
          PROVE  item'[k].object = k /\ (item'[k].decoded => item'[k].value = <<dev', k>>)
      <4>1. CASE k = obj
        BY <3>1, <3>2, <4>1
      <4>2. CASE k # obj
        <5>1. k \in 1..Len(item) /\ item'[k] = item[k]
          BY <3>1, <3>2, <4>2
        <5> QED
          BY <5>1, <3>1 DEF BacInv, ReadInv, ReadingsMatch
      <4> QED
        BY <4>1, <4>2
    <3> HIDE DEF r
    <3> QED
      BY <3>1, <3>2, <3>3 DEF ReadInv, ReadingsMatch
  <2> QED
    BY <2>1, <2>2
<1> QED
  BY <1>1, <1>2, <1>3, <1>4, <1>5, <1>6, <1>7 DEF BacInv

LEMMA XmppReadyStep ==
    ASSUME BacnetConstants, BacInv, XmppReady
    PROVE  BacInv'
<1>1. ControlOK'
  BY DEF BacInv, ControlOK, BacnetConstants, Device, XmppReady, actVars, handlerVars, timeVars,
     net
<1>2. LocalsOK'
  BY DEF BacInv, ControlOK, LocalsOK, XmppReady, actVars, handlerVars, timeVars, net
<1>3. StackOK'
  BY DEF BacInv, StackOK, XmppReady, actVars, handlerVars, timeVars, net
<1>4. TableInv'
  BY DEF BacInv, ControlOK, LocalsOK, StackOK, TableInv, NoTransactionLeaks, Running, Failed,
     AllFree, XmppReady, actVars, handlerVars, timeVars, net
<1>5. TimeInv'
  BY DEF BacInv, ControlOK, TimeInv, XmppReady, actVars, handlerVars, timeVars, net
<1>6. ErrorInv'
  BY DEF BacInv, ControlOK, ErrorInv, ErrorsAreHandled, XmppReady, actVars, handlerVars,
     timeVars, net
<1>7. ReadInv'
  BY DEF BacInv, ControlOK, ReadInv, ReadingsMatch, AboutObject, XmppReady, actVars,
     handlerVars, timeVars, net
<1> QED
  BY <1>1, <1>2, <1>3, <1>4, <1>5, <1>6, <1>7 DEF BacInv

LEMMA XmppWaitStep ==
    ASSUME BacnetConstants, BacInv, XmppWait
    PROVE  BacInv'
<1>1. ControlOK'
  BY DEF BacInv, ControlOK, BacnetConstants, Device, XmppWait, actVars, handlerVars, timeVars,
     net
<1>2. LocalsOK'
  BY DEF BacInv, ControlOK, LocalsOK, XmppWait, actVars, handlerVars, timeVars, net
<1>3. StackOK'
  BY DEF BacInv, StackOK, XmppWait, actVars, handlerVars, timeVars, net
<1>4. TableInv'
  BY DEF BacInv, ControlOK, LocalsOK, StackOK, TableInv, NoTransactionLeaks, Running, Failed,
     AllFree, XmppWait, actVars, handlerVars, timeVars, net
<1>5. TimeInv'
  BY DEF BacInv, ControlOK, TimeInv, XmppWait, actVars, handlerVars, timeVars, net
<1>6. ErrorInv'
  BY DEF BacInv, ControlOK, ErrorInv, ErrorsAreHandled, XmppWait, actVars, handlerVars,
     timeVars, net
<1>7. ReadInv'
  BY DEF BacInv, ControlOK, ReadInv, ReadingsMatch, AboutObject, XmppWait, actVars,
     handlerVars, timeVars, net
<1> QED
  BY <1>1, <1>2, <1>3, <1>4, <1>5, <1>6, <1>7 DEF BacInv

LEMMA PublishItemStep ==
    ASSUME BacnetConstants, BacInv, PublishItem
    PROVE  BacInv'
<1>1. ControlOK'
  BY DEF BacInv, ControlOK, BacnetConstants, Device, PublishItem, actVars, handlerVars, timeVars,
     net
<1>2. LocalsOK'
  BY DEF BacInv, ControlOK, LocalsOK, PublishItem, actVars, handlerVars, timeVars, net
<1>3. StackOK'
  BY DEF BacInv, StackOK, PublishItem, actVars, handlerVars, timeVars, net
<1>4. TableInv'
  BY DEF BacInv, ControlOK, LocalsOK, StackOK, TableInv, NoTransactionLeaks, Running, Failed,
     AllFree, PublishItem, actVars, handlerVars, timeVars, net
<1>5. TimeInv'
  BY DEF BacInv, ControlOK, TimeInv, PublishItem, actVars, handlerVars, timeVars, net
<1>6. ErrorInv'
  BY DEF BacInv, ControlOK, ErrorInv, ErrorsAreHandled, PublishItem, actVars, handlerVars,
     timeVars, net
<1>7. ReadInv'
  BY DEF BacInv, ControlOK, ReadInv, ReadingsMatch, AboutObject, PublishItem, actVars,
     handlerVars, timeVars, net
<1> QED
  BY <1>1, <1>2, <1>3, <1>4, <1>5, <1>6, <1>7 DEF BacInv

-----------------------------------------------------------------------------
(***************************************************************************)
(* The steps of bacnet_actuate.                                            *)
(***************************************************************************)

LEMMA ActReceiveStep ==
    ASSUME BacnetConstants, BacInv, ActReceive
    PROVE  BacInv'
<1>1. ControlOK'
  BY DEF BacInv, ControlOK, BacnetConstants, Device, ActReceive, dataVars, handlerVars, timeVars,
     net
<1>2. LocalsOK'
  BY DEF BacInv, ControlOK, LocalsOK, ActReceive, dataVars, handlerVars, timeVars, net
<1>3. StackOK'
  BY DEF BacInv, StackOK, ActReceive, dataVars, handlerVars, timeVars, net
<1>4. TableInv'
  BY DEF BacInv, ControlOK, LocalsOK, StackOK, TableInv, NoTransactionLeaks, Running, Failed,
     AllFree, ActReceive, dataVars, handlerVars, timeVars, net
<1>5. TimeInv'
  BY DEF BacInv, ControlOK, TimeInv, ActReceive, dataVars, handlerVars, timeVars, net
<1>6. ErrorInv'
  BY DEF BacInv, ControlOK, ErrorInv, ErrorsAreHandled, ActReceive, dataVars, handlerVars,
     timeVars, net
<1>7. ReadInv'
  BY DEF BacInv, ControlOK, ReadInv, ReadingsMatch, AboutObject, ActReceive, dataVars,
     handlerVars, timeVars, net
<1> QED
  BY <1>1, <1>2, <1>3, <1>4, <1>5, <1>6, <1>7 DEF BacInv

LEMMA ActLockStep ==
    ASSUME BacnetConstants, BacInv, ActLock
    PROVE  BacInv'
<1>1. ControlOK'
  BY DEF BacInv, ControlOK, BacnetConstants, Device, ActLock, dataVars, handlerVars, timeVars, net
<1>2. LocalsOK'
  BY DEF BacInv, ControlOK, LocalsOK, ActLock, dataVars, handlerVars, timeVars, net
<1>3. StackOK'
  BY DEF BacInv, StackOK, ActLock, dataVars, handlerVars, timeVars, net
<1>4. TableInv'
  BY DEF BacInv, ControlOK, LocalsOK, StackOK, TableInv, NoTransactionLeaks, Running, Failed,
     AllFree, ActLock, dataVars, handlerVars, timeVars, net
<1>5. TimeInv'
  BY DEF BacInv, ControlOK, TimeInv, ActLock, dataVars, handlerVars, timeVars, net
<1>6. ErrorInv'
  BY DEF BacInv, ControlOK, ErrorInv, ErrorsAreHandled, ActLock, dataVars, handlerVars, timeVars,
     net
<1>7. ReadInv'
  BY DEF BacInv, ControlOK, ReadInv, ReadingsMatch, AboutObject, ActLock, dataVars, handlerVars,
     timeVars, net
<1> QED
  BY <1>1, <1>2, <1>3, <1>4, <1>5, <1>6, <1>7 DEF BacInv

LEMMA NextWriteStep ==
    ASSUME BacnetConstants, BacInv, NextWrite
    PROVE  BacInv'
<1>0. /\ found' \in BOOLEAN /\ target' \in Device \cup {0} /\ second' \in BOOLEAN
      /\ cache' \in [Device -> {"absent", "requested", "bound"}]
      /\ requests' \subseteq RequestPacket /\ replies' = replies
  <2>1. ASSUME writes # <<>> PROVE Head(writes)[1] \in Device
    BY <2>1, ObjectHasDevice DEF BacInv, LocalsOK
  <2>2. ASSUME writes # <<>>, BindOrAsk(Head(writes)[1])
        PROVE  /\ found' \in BOOLEAN /\ target' \in Device \cup {0} /\ second' \in BOOLEAN
               /\ cache' \in [Device -> {"absent", "requested", "bound"}]
               /\ requests' \subseteq RequestPacket /\ replies' = replies
    BY <2>1, <2>2, BindOrAskFacts DEF BacInv, LocalsOK
  <2>3. CASE UNCHANGED <<found, target, cache, timeVars, net>>
    BY <2>3 DEF BacInv, LocalsOK, StackOK, timeVars, net
  <2> QED
    BY <2>2, <2>3, Zenon DEF NextWrite
<1>10. writes # <<>> => Tail(writes) \in Seq(Object)
  BY DEF BacInv, LocalsOK
<1>1. ControlOK'
  BY DEF BacInv, ControlOK, BacnetConstants, Device, NextWrite, dataVars, handlerVars, timeVars,
     net
<1>2. LocalsOK'
  <2>1. item' \in Seq(Reading) /\ writes' \in Seq(Object)
        /\ (apc' \in {"write", "write_receive", "write_end"} => writes' # <<>>)
    BY <1>0, <1>10 DEF BacInv, ControlOK, LocalsOK, NextWrite, dataVars, handlerVars, timeVars
  <2>2. found' \in BOOLEAN /\ error' \in BOOLEAN /\ decoded' \in BOOLEAN /\ second' \in BOOLEAN
    BY <1>0, <1>10 DEF BacInv, LocalsOK, NextWrite, dataVars, handlerVars, timeVars
  <2>3. target' \in Device \cup {0} /\ elapsed' \in 0..(BindTime + 1)
    BY <1>0, <1>10 DEF BacInv, LocalsOK, BacnetConstants, NextWrite, dataVars, handlerVars,
       timeVars
  <2> QED
    BY <2>1, <2>2, <2>3 DEF LocalsOK
<1>3. StackOK'
  BY <1>0 DEF BacInv, StackOK, NextWrite, dataVars, handlerVars, timeVars, net
<1>4. TableInv'
  BY DEF BacInv, ControlOK, LocalsOK, StackOK, TableInv, NoTransactionLeaks, Running, Failed,
     AllFree, NextWrite, dataVars, handlerVars, timeVars, net
<1>5. TimeInv'
  BY DEF BacInv, ControlOK, TimeInv, BacnetConstants, NextWrite, dataVars, handlerVars, timeVars,
     net
<1>6. ErrorInv'
  BY DEF BacInv, ControlOK, ErrorInv, ErrorsAreHandled, NextWrite, dataVars, handlerVars,
     timeVars, net
<1>7. ReadInv'
  BY DEF BacInv, ControlOK, ReadInv, ReadingsMatch, AboutObject, NextWrite, dataVars, handlerVars,
     timeVars, net
<1> QED
  BY <1>1, <1>2, <1>3, <1>4, <1>5, <1>6, <1>7 DEF BacInv

LEMMA WriteBrokenStep ==
    ASSUME BacnetConstants, BacInv, WriteBroken
    PROVE  BacInv'
<1>0. /\ apc = "write" /\ error /\ tsm' = TsmTimer /\ requests' = requests \cup Resent
      /\ apc' = "write_end" /\ lock' = lock /\ dpc' = dpc
      /\ UNCHANGED <<id, value, current, cache, replies>>
  BY DEF WriteBroken, WriteRound, NoRequest, dataVars
<1>10. tsm' \in [Ids -> Transaction \cup {NULL}] /\ requests' \subseteq RequestPacket
  BY <1>0, TimerFacts DEF BacInv, TableInv
<1>11. Running(tsm')
  BY <1>0, TimerFacts DEF BacInv, TableInv
<1>12. \A i \in Ids : (tsm'[i] = NULL) <=> (tsm[i] = NULL)
  BY <1>0, TimerFacts, Zenon DEF BacInv, TableInv
<1>13. lock = "actuate" /\ dpc \in {"lock", "sleep"}
  BY <1>0 DEF BacInv, ControlOK
<1>1. ControlOK'
  BY DEF BacInv, ControlOK, BacnetConstants, Device, WriteBroken, WriteRound, NoRequest, dataVars
<1>2. LocalsOK'
  BY DEF BacInv, ControlOK, LocalsOK, WriteBroken, WriteRound, NoRequest, dataVars
<1>3. StackOK'
  BY <1>0, <1>10 DEF BacInv, StackOK
<1>4. TableInv'
  <2>1. AllFree(tsm')
    BY <1>0, <1>12 DEF BacInv, TableInv, AllFree
  <2> QED
    BY <1>0, <1>11, <1>13, <2>1 DEF TableInv, NoTransactionLeaks, Failed, AllFree
<1>5. TimeInv'
  BY DEF BacInv, ControlOK, TimeInv, WriteBroken, WriteRound, NoRequest, dataVars
<1>6. ErrorInv'
  BY DEF BacInv, ControlOK, ErrorInv, ErrorsAreHandled, WriteBroken, WriteRound, NoRequest,
     dataVars
<1>7. ReadInv'
  BY DEF BacInv, ControlOK, ReadInv, ReadingsMatch, AboutObject, WriteBroken, WriteRound,
     NoRequest, dataVars
<1> QED
  BY <1>1, <1>2, <1>3, <1>4, <1>5, <1>6, <1>7 DEF BacInv

LEMMA WriteUnboundStep ==
    ASSUME BacnetConstants, BacInv, WriteUnbound
    PROVE  BacInv'
<1>0. /\ apc = "write" /\ ~error /\ ~found /\ tsm' = TsmTimer /\ requests' = requests \cup Resent
      /\ apc' \in {"write_receive", "write_end"} /\ lock' = lock /\ dpc' = dpc
      /\ UNCHANGED <<id, value, current, replies>>
  BY DEF WriteUnbound, WriteRound, NoRequest, dataVars
<1>10. tsm' \in [Ids -> Transaction \cup {NULL}] /\ requests' \subseteq RequestPacket
  BY <1>0, TimerFacts DEF BacInv, TableInv
<1>11. Running(tsm')
  BY <1>0, TimerFacts DEF BacInv, TableInv
<1>12. \A i \in Ids : (tsm'[i] = NULL) <=> (tsm[i] = NULL)
  BY <1>0, TimerFacts, Zenon DEF BacInv, TableInv
<1>13. lock = "actuate" /\ dpc \in {"lock", "sleep"} /\ id = 0
  BY <1>0 DEF BacInv, ControlOK, TableInv
<1>14. /\ found' \in BOOLEAN /\ target' \in Device \cup {0}
       /\ cache' \in [Device -> {"absent", "requested", "bound"}]
  <2>1. Head(writes) \in Object
    BY <1>0 DEF BacInv, LocalsOK
  <2>2. Head(writes)[1] \in Device
    BY <2>1, ObjectHasDevice
  <2>3. BindRequest(Head(writes)[1])
    BY Zenon DEF WriteUnbound
  <2> QED
    BY <2>2, <2>3, BindFacts DEF BacInv, LocalsOK
<1>15. elapsed \in 0..BindTime /\ Waited \in 0..(BindTime + 1)
  BY <1>0 DEF Waited, BacInv, LocalsOK, TimeInv, BacnetConstants
<1>1. ControlOK'
  BY DEF BacInv, ControlOK, BacnetConstants, Device, WriteUnbound, WriteRound, NoRequest, dataVars
<1>2. LocalsOK'
  BY <1>0, <1>14, <1>15 DEF BacInv, LocalsOK, WriteUnbound, WriteRound, NoRequest, dataVars
<1>3. StackOK'
  BY <1>0, <1>10, <1>14 DEF BacInv, StackOK
<1>4. TableInv'
  <2>1. AllFree(tsm')
    BY <1>12, <1>13 DEF BacInv, TableInv, NoTransactionLeaks, Ids, AllFree
  <2> QED
    BY <1>0, <1>11, <1>13, <2>1 DEF TableInv, NoTransactionLeaks, Failed, AllFree
<1>5. TimeInv'
  BY <1>0, <1>13, <1>15 DEF TimeInv, WriteUnbound, WriteRound
<1>6. ErrorInv'
  BY DEF BacInv, ControlOK, ErrorInv, ErrorsAreHandled, WriteUnbound, WriteRound, NoRequest,
     dataVars
<1>7. ReadInv'
  BY DEF BacInv, ControlOK, ReadInv, ReadingsMatch, AboutObject, WriteUnbound, WriteRound,
     NoRequest, dataVars
<1> QED
  BY <1>1, <1>2, <1>3, <1>4, <1>5, <1>6, <1>7 DEF BacInv

LEMMA WriteBoundStep ==
    ASSUME BacnetConstants, BacInv, WriteBound
    PROVE  BacInv'
<1> DEFINE table == TsmTimer
           Sent == /\ id' \in Ids \cup {0} /\ decoded' \in BOOLEAN /\ error' \in BOOLEAN
                   /\ current' \in Ids /\ tsm' \in [Ids -> Transaction \cup {NULL}]
                   /\ requests' \subseteq RequestPacket /\ replies' \subseteq ReplyPacket
                   /\ Running(tsm') /\ \A i \in Ids : tsm'[i] # NULL => i = id'
                   /\ \/ apc' = "write_receive" /\ ~error'
                      \/ apc' = "write_end" /\ AllFree(tsm')
<1>0. /\ apc = "write" /\ ~error /\ second' = FALSE /\ found' = TRUE /\ target' = Head(writes)[1]
      /\ UNCHANGED <<lock, dpc, dev, obj, item, round, writes, value, cache, elapsed>>
  BY DEF WriteBound, WriteRound, dataVars
<1>1. lock = "actuate" /\ dpc \in {"lock", "sleep"}
  BY <1>0 DEF BacInv, ControlOK
<1>2. Head(writes) \in Object
  BY <1>0 DEF BacInv, LocalsOK
<1>3. Head(writes)[1] \in Device
  BY <1>2, ObjectHasDevice
<1>4. table \in [Ids -> Transaction \cup {NULL}] /\ requests \cup Resent \subseteq RequestPacket
  BY TimerFacts DEF BacInv, TableInv
<1>5. Running(table)
  BY TimerFacts DEF BacInv, TableInv
<1>6. \A i \in Ids : table[i] # NULL => i = id
  <2>1. \A i \in Ids : (table[i] = NULL) <=> (tsm[i] = NULL)
    BY TimerFacts, Zenon DEF BacInv, TableInv
  <2> QED
    BY <2>1, Zenon DEF BacInv, TableInv, NoTransactionLeaks
<1> HIDE DEF table
<1>7. /\ id \in Ids \cup {0} /\ decoded \in BOOLEAN /\ error \in BOOLEAN /\ current \in Ids
      /\ replies \subseteq ReplyPacket
  BY DEF BacInv, StackOK, LocalsOK
<1>8. Sent
  <2>1. ASSUME id = 0, Send("write", Head(writes), table, requests \cup Resent),
               WriteRound("write_receive"), UNCHANGED error
        PROVE  Sent
    <3>1. AllFree(table)
      BY <2>1, <1>6 DEF AllFree, Ids
    <3>2. apc' = "write_receive" /\ ~error'
      BY <2>1, <1>0 DEF WriteRound
    <3>3. /\ id' \in Ids \cup {0} /\ decoded' = FALSE /\ current' \in Ids
          /\ tsm' \in [Ids -> Transaction \cup {NULL}]
          /\ \A i \in Ids : tsm'[i] # NULL => i = id' /\ tsm'[i].state = "await"
          /\ Running(tsm')
          /\ requests' \subseteq RequestPacket /\ replies' \subseteq ReplyPacket
      BY <2>1, <3>1, <1>2, <1>4, SendFacts DEF BacInv
    <3> QED
      BY <2>1, <3>2, <3>3, <1>7
  <2>2. ASSUME id # 0, table[id] = NULL, NoRequest(table), WriteRound("write_end"), UNCHANGED error
        PROVE  Sent
    BY <2>2, <1>4, <1>5, <1>6, <1>7 DEF NoRequest, WriteRound, AllFree
  <2>3. ASSUME id # 0, NoRequest(GivenUp(table)), WriteRound("write_end"), error' = TRUE
        PROVE  Sent
    <3>1. GivenUp(table) \in [Ids -> Transaction \cup {NULL}] /\ AllFree(GivenUp(table))
      BY <2>3, <1>4, <1>6, <1>7 DEF GivenUp, AllFree
    <3>2. tsm' = GivenUp(table) /\ requests' = requests \cup Resent
          /\ UNCHANGED <<id, current, decoded, replies>> /\ apc' = "write_end"
      BY <2>3 DEF NoRequest, WriteRound
    <3> QED
      BY <3>1, <3>2, <2>3, <1>4, <1>7 DEF AllFree, Running
  <2>4. ASSUME NoRequest(table), WriteRound("write_receive"), UNCHANGED error
        PROVE  Sent
    BY <2>4, <1>0, <1>4, <1>5, <1>6, <1>7 DEF NoRequest, WriteRound
  <2> QED
    BY <2>1, <2>2, <2>3, <2>4, Zenon DEF WriteBound, table
<1>9. ControlOK' /\ LocalsOK'
  <2>1. ControlOK'
    BY <1>0, <1>1, <1>8 DEF BacInv, ControlOK
  <2>2. LocalsOK'
    BY <1>0, <1>3, <1>8 DEF BacInv, LocalsOK
  <2> QED
    BY <2>1, <2>2
<1>10. StackOK'
  BY <1>0, <1>8 DEF BacInv, StackOK
<1>11. TableInv'
  BY <1>0, <1>1, <1>8 DEF TableInv, NoTransactionLeaks, AllFree
<1>12. TimeInv' /\ ErrorInv'
  BY <1>0, <1>1, <1>8 DEF BacInv, TimeInv, ErrorInv, ErrorsAreHandled
<1>13. ReadInv'
  BY <1>0, <1>1 DEF BacInv, ReadInv, ReadingsMatch
<1> QED
  BY <1>9, <1>10, <1>11, <1>12, <1>13 DEF BacInv

LEMMA WriteReceiveStep ==
    ASSUME BacnetConstants, BacInv, WriteReceive
    PROVE  BacInv'
<1>0. /\ requests' = requests /\ replies' \subseteq replies
      /\ cache' \in [Device -> {"absent", "requested", "bound"}]
      /\ error' \in BOOLEAN /\ decoded' \in BOOLEAN /\ value' \in Object \cup {NULL}
      /\ tsm' \in [Ids -> Transaction \cup {NULL}]
      /\ \A i \in Ids : tsm'[i] = NULL \/ tsm'[i] = tsm[i]
      /\ error' => error \/ (id \in Ids /\ tsm'[id] = NULL)
      /\ \/ value' = value /\ decoded' = decoded
         \/ \E m \in replies : m.id = id /\ value' = m.what
  BY ReceiveFacts DEF BacInv, LocalsOK, WriteReceive
<1>1. ControlOK'
  BY DEF BacInv, ControlOK, BacnetConstants, Device, WriteReceive, dataVars, timeVars
<1>2. LocalsOK'
  BY <1>0 DEF BacInv, ControlOK, LocalsOK, WriteReceive, dataVars, timeVars
<1>3. StackOK'
  BY <1>0 DEF BacInv, StackOK, WriteReceive, dataVars, timeVars
<1>4. TableInv'
  BY <1>0 DEF BacInv, ControlOK, LocalsOK, StackOK, TableInv, NoTransactionLeaks, Running, Failed,
     AllFree, WriteReceive, dataVars, timeVars
<1>5. TimeInv'
  BY DEF BacInv, ControlOK, TimeInv, WriteReceive, dataVars, timeVars
<1>6. ErrorInv'
  BY <1>0 DEF BacInv, ControlOK, ErrorInv, ErrorsAreHandled, ReadInv, WriteReceive, dataVars,
     timeVars
<1>7. ReadInv'
  BY <1>0 DEF BacInv, ControlOK, ReadInv, ReadingsMatch, AboutObject, WriteReceive, dataVars,
     timeVars
<1> QED
  BY <1>1, <1>2, <1>3, <1>4, <1>5, <1>6, <1>7 DEF BacInv

LEMMA WriteEndStep ==
    ASSUME BacnetConstants, BacInv, WriteEnd
    PROVE  BacInv'
<1>0. Tail(writes) \in Seq(Object)
  BY DEF BacInv, LocalsOK, WriteEnd
<1>1. ControlOK'
  BY DEF BacInv, ControlOK, BacnetConstants, Device, WriteEnd, dataVars, timeVars, net
<1>2. LocalsOK'
  BY <1>0 DEF BacInv, ControlOK, LocalsOK, WriteEnd, dataVars, timeVars, net
<1>3. StackOK'
  BY DEF BacInv, StackOK, WriteEnd, dataVars, timeVars, net
<1>4. TableInv'
  BY DEF BacInv, ControlOK, LocalsOK, StackOK, TableInv, NoTransactionLeaks, Running, Failed,
     AllFree, WriteEnd, dataVars, timeVars, net
<1>5. TimeInv'
  BY DEF BacInv, ControlOK, TimeInv, WriteEnd, dataVars, timeVars, net
<1>6. ErrorInv'
  BY DEF BacInv, ControlOK, ErrorInv, ErrorsAreHandled, WriteEnd, dataVars, timeVars, net
<1>7. ReadInv'
  BY DEF BacInv, ControlOK, ReadInv, ReadingsMatch, AboutObject, WriteEnd, dataVars, timeVars, net
<1> QED
  BY <1>1, <1>2, <1>3, <1>4, <1>5, <1>6, <1>7 DEF BacInv

-----------------------------------------------------------------------------
(***************************************************************************)
(* The devices, the network and the clock.                                 *)
(***************************************************************************)

LEMMA AnswerStep ==
    ASSUME BacnetConstants, BacInv, NEW i \in Ids \cup {0}, Answer(i)
    PROVE  BacInv'
<1>1. PICK m \in requests :
         /\ \E k \in Kinds(m) : replies' = replies \cup {Reply(m, k)}
         /\ requests' \subseteq requests
  BY DEF Answer
<1>2. PICK k \in Kinds(m) : replies' = replies \cup {Reply(m, k)}
  BY <1>1
<1>3. m \in RequestPacket
  BY DEF BacInv, StackOK
<1>4. Reply(m, k) \in ReplyPacket /\ Reply(m, k).id = m.id /\ Reply(m, k).what = m.what
  <2>1. CASE m \in [to : Device, id : {0}, op : {"whois"}, what : {NULL}]
    BY <2>1 DEF Reply, ReplyPacket, Kinds
  <2>2. CASE m \in [to : Device, id : Ids, op : {"read", "write"}, what : Object]
    BY <2>2 DEF Reply, ReplyPacket, Kinds
  <2> QED
    BY <1>3, <2>1, <2>2 DEF RequestPacket
<1>5. UNCHANGED <<lock, dpc, dev, obj, item, round, apc, writes, found, target, id, error, value,
                  decoded, tsm, current, cache, elapsed, second>>
  BY DEF Answer, others, dataVars, actVars, handlerVars
<1>6. ControlOK' /\ TimeInv' /\ LocalsOK'
  BY <1>5 DEF BacInv, ControlOK, TimeInv, LocalsOK
<1>7. StackOK'
  BY <1>1, <1>2, <1>4, <1>5 DEF BacInv, StackOK
<1>8. TableInv' /\ ErrorInv'
  BY <1>5 DEF BacInv, TableInv, NoTransactionLeaks, Failed, Running, AllFree, ErrorInv,
     ErrorsAreHandled
<1>9. AboutObject => AboutObject'
  BY <1>1, <1>2, <1>4, <1>5 DEF AboutObject
<1>10. ReadInv'
  BY <1>5, <1>9 DEF BacInv, ReadInv, ReadingsMatch
<1> QED
  BY <1>6, <1>7, <1>8, <1>10 DEF BacInv

LEMMA LoseStep ==
    ASSUME BacnetConstants, BacInv, Lose
    PROVE  BacInv'
<1>1. ControlOK'
  BY DEF BacInv, ControlOK, BacnetConstants, Device, Lose, dataVars, actVars, handlerVars, others
<1>2. LocalsOK'
  BY DEF BacInv, ControlOK, LocalsOK, Lose, dataVars, actVars, handlerVars, others
<1>3. StackOK'
  BY DEF BacInv, StackOK, Lose, dataVars, actVars, handlerVars, others
<1>4. TableInv'
  BY DEF BacInv, ControlOK, LocalsOK, StackOK, TableInv, NoTransactionLeaks, Running, Failed,
     AllFree, Lose, dataVars, actVars, handlerVars, others
<1>5. TimeInv'
  BY DEF BacInv, ControlOK, TimeInv, Lose, dataVars, actVars, handlerVars, others
<1>6. ErrorInv'
  BY DEF BacInv, ControlOK, ErrorInv, ErrorsAreHandled, Lose, dataVars, actVars, handlerVars,
     others
<1>7. ReadInv'
  BY DEF BacInv, ControlOK, ReadInv, ReadingsMatch, AboutObject, Lose, dataVars, actVars,
     handlerVars, others
<1> QED
  BY <1>1, <1>2, <1>3, <1>4, <1>5, <1>6, <1>7 DEF BacInv

LEMMA TickStep ==
    ASSUME BacnetConstants, BacInv, Tick
    PROVE  BacInv'
<1>1. ControlOK'
  BY DEF BacInv, ControlOK, BacnetConstants, Device, Tick, dataVars, actVars, handlerVars, others,
     net
<1>2. LocalsOK'
  BY DEF BacInv, ControlOK, LocalsOK, Tick, dataVars, actVars, handlerVars, others, net
<1>3. StackOK'
  BY DEF BacInv, StackOK, Tick, dataVars, actVars, handlerVars, others, net
<1>4. TableInv'
  BY DEF BacInv, ControlOK, LocalsOK, StackOK, TableInv, NoTransactionLeaks, Running, Failed,
     AllFree, Tick, dataVars, actVars, handlerVars, others, net
<1>5. TimeInv'
  BY DEF BacInv, ControlOK, TimeInv, Tick, dataVars, actVars, handlerVars, others, net
<1>6. ErrorInv'
  BY DEF BacInv, ControlOK, ErrorInv, ErrorsAreHandled, Tick, dataVars, actVars, handlerVars,
     others, net
<1>7. ReadInv'
  BY DEF BacInv, ControlOK, ReadInv, ReadingsMatch, AboutObject, Tick, dataVars, actVars,
     handlerVars, others, net
<1> QED
  BY <1>1, <1>2, <1>3, <1>4, <1>5, <1>6, <1>7 DEF BacInv

-----------------------------------------------------------------------------
(***************************************************************************)
(* The theorems.                                                           *)
(***************************************************************************)

LEMMA BacInvInitially ==
    ASSUME BacnetConstants, BacInit
    PROVE  BacInv
<1>1. ControlOK
  BY DEF BacInit, ControlOK, BacnetConstants
<1>2. LocalsOK
  <2>1. <<>> \in Seq(Reading) /\ <<>> \in Seq(Object)
    OBVIOUS
  <2>2. item = <<>> /\ writes = <<>> /\ apc = "receive"
    BY DEF BacInit
  <2>3. found \in BOOLEAN /\ error \in BOOLEAN /\ decoded \in BOOLEAN /\ second \in BOOLEAN
    BY DEF BacInit
  <2>4. target \in Device \cup {0} /\ elapsed \in 0..(BindTime + 1)
    BY DEF BacInit, BacnetConstants
  <2> QED
    BY <2>1, <2>2, <2>3, <2>4 DEF LocalsOK
<1>3. StackOK
  BY DEF BacInit, StackOK, Ids, BacnetConstants
<1>4. TableInv
  BY DEF BacInit, TableInv, NoTransactionLeaks, Failed, Running
<1>5. TimeInv /\ ErrorInv /\ ReadInv
  BY DEF BacInit, TimeInv, ErrorInv, ErrorsAreHandled, ReadInv, ReadingsMatch
<1> QED
  BY <1>1, <1>2, <1>3, <1>4, <1>5 DEF BacInv

LEMMA BacInvStutters ==
    ASSUME BacInv, UNCHANGED bacVars
    PROVE  BacInv'
<1>1. UNCHANGED <<lock, dpc, dev, obj, item, round, apc, writes, found, target, id, error, value,
                  decoded, tsm, current, cache, second, elapsed, requests, replies>>
  BY DEF bacVars, dataVars, actVars, handlerVars, timeVars, net
<1>2. ControlOK' /\ LocalsOK' /\ StackOK' /\ TimeInv'
  BY <1>1 DEF BacInv, ControlOK, LocalsOK, StackOK, TimeInv
<1>3. TableInv' /\ ErrorInv'
  BY <1>1 DEF BacInv, TableInv, NoTransactionLeaks, Failed, Running, AllFree, ErrorInv,
     ErrorsAreHandled
<1>4. ReadInv'
  BY <1>1 DEF BacInv, ReadInv, ReadingsMatch, AboutObject
<1> QED
  BY <1>2, <1>3, <1>4 DEF BacInv

\* Sending a request and losing a packet write the history variable lost.
LEMMA LostKept ==
    ASSUME lost \in BOOLEAN, [BacNext]_bacVars
    PROVE  lost' \in BOOLEAN
<1>1. CASE DataStep
  <2>1. CASE ReadCheck
    BY <2>1 DEF ReadCheck, Send
  <2>2. CASE ~ReadCheck
    BY <1>1, <2>2 DEF DataStep, DataLock, DataSleep, NextDevice, Bind, BindReceive, NextObject,
       ReadReceive, ReadDone, PublishItem
  <2> QED
    BY <2>1, <2>2
<1>2. CASE XmppWait \/ XmppReady \/ ActReceive \/ ActLock
  BY <1>2 DEF XmppWait, XmppReady, ActReceive, ActLock
<1>3. CASE ActStep
  <2>1. CASE WriteBound
    BY <2>1 DEF WriteBound, NoRequest, Send
  <2>2. CASE ~WriteBound
    BY <1>3, <2>2 DEF ActStep, NextWrite, WriteBroken, WriteUnbound, NoRequest, WriteReceive,
       WriteEnd
  <2> QED
    BY <2>1, <2>2
<1>4. CASE \E i \in Ids \cup {0} : Answer(i)
  BY <1>4 DEF Answer
<1>5. CASE Lose \/ Tick
  <2>1. CASE Lose
    <3>1. PICK m \in requests \cup replies :
             lost' = (lost \/ (dpc \in {"read_check", "read_receive"} /\ m.id = id))
      BY <2>1, Zenon DEF Lose
    <3> QED
      BY <3>1, Zenon
  <2>2. CASE Tick
    BY <2>2 DEF Tick
  <2> QED
    BY <1>5, <2>1, <2>2
<1>6. CASE UNCHANGED bacVars
  BY <1>6 DEF bacVars
<1> QED
  BY <1>1, <1>2, <1>3, <1>4, <1>5, <1>6 DEF BacNext

LEMMA LostType == BacFacts => []LostOK
<1>1. BacInit => LostOK
  BY DEF BacInit, LostOK
<1>2. LostOK /\ [BacNext]_bacVars => LostOK'
  BY LostKept DEF LostOK
<1> QED
  BY <1>1, <1>2, PTL DEF BacFacts

\* The invariant holds initially and every step of the threads, the devices
\* and the network preserves it.
THEOREM BacInvariant == BacFacts => []BacInv
<1>1. BacInit => BacInv
  BY BacInvInitially, BacnetConstants
<1>2. BacInv /\ [BacNext]_bacVars => BacInv'
  <2> SUFFICES ASSUME BacInv, [BacNext]_bacVars PROVE BacInv'
    OBVIOUS
  <2>1. CASE DataStep
    BY <2>1, BacnetConstants, DataLockStep, DataSleepStep, NextDeviceStep, BindStep,
       BindReceiveStep, NextObjectStep, ReadCheckStep, ReadReceiveStep, ReadDoneStep,
       PublishItemStep, Zenon DEF DataStep
  <2>a. CASE XmppWait \/ XmppReady
    BY <2>a, BacnetConstants, XmppWaitStep, XmppReadyStep, Zenon
  <2>2. CASE ActReceive \/ ActLock \/ ActStep
    BY <2>2, BacnetConstants, ActReceiveStep, ActLockStep, NextWriteStep, WriteBrokenStep,
       WriteUnboundStep, WriteBoundStep, WriteReceiveStep, WriteEndStep, Zenon DEF ActStep
  <2>3. CASE \E i \in Ids \cup {0} : Answer(i)
    BY <2>3, BacnetConstants, AnswerStep, Zenon
  <2>4. CASE Lose \/ Tick
    BY <2>4, BacnetConstants, LoseStep, TickStep, Zenon
  <2>5. CASE UNCHANGED bacVars
    BY <2>5, BacInvStutters, Zenon
  <2> QED
    BY <2>1, <2>a, <2>2, <2>3, <2>4, <2>5, Zenon DEF BacNext
<1> QED
  BY <1>1, <1>2, PTL DEF BacFacts

\* Types, and only the holder of mio_lock is inside: bacnet_data and
\* bacnet_actuate never drive the stack at the same time.
THEOREM TypesHold == BacFacts => []BacTypeOK
<1>1. BacInv /\ LostOK => BacTypeOK
  BY TypeParts, Zenon DEF BacInv
<1> QED
  BY <1>1, BacInvariant, LostType, PTL

\* Every way out of publish_data and write_bacnet_obj leaves the invoke id
\* free, whatever the timeouts and however packets are lost or repeated.
THEOREM TransactionsAreFreed == BacFacts => []NoTransactionLeaks
<1>1. BacInv => NoTransactionLeaks
  BY Zenon DEF BacInv, TableInv
<1> QED
  BY <1>1, BacInvariant, PTL

\* A reading that was decoded was read from the object it is published for,
\* for any number of devices, objects and packets under way.
THEOREM ReadingsAreTheirObjects == BacFacts => []ReadingsMatch
<1>1. BacInv => ReadingsMatch
  BY Zenon DEF BacInv, ReadInv
<1> QED
  BY <1>1, BacInvariant, PTL

\* error_detected outlives an operation only when publish_data has given up
\* waiting for a device.
THEOREM ErrorsDoNotLeak == BacFacts => []ErrorsAreHandled
<1>1. BacInv => ErrorsAreHandled
  BY Zenon DEF BacInv, ErrorInv
<1> QED
  BY <1>1, BacInvariant, PTL

=============================================================================

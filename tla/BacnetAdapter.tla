--------------------------- MODULE BacnetAdapter ---------------------------
(***************************************************************************)
(* The BACnet adapter: the thread bacnet_data reads every object of every  *)
(* device and publishes the values, the thread bacnet_actuate writes the   *)
(* objects that clients set.  Both drive the BACnet stack by hand, under   *)
(* mio_lock, and share one request id, one error flag and one value with   *)
(* the handlers that the stack calls for the packets they receive.         *)
(*                                                                         *)
(* The network is UDP: packets are lost, late and duplicated.              *)
(***************************************************************************)
EXTENDS Integers, Sequences, FiniteSets

CONSTANTS
    Devices,    \* number of devices, in the order of node_devices
    Objects,    \* [1..Devices -> number of objects]
    Commands,   \* packets for bacnet_actuate: the writes they ask for
    Retries,    \* apdu_retries()
    ApduTime,   \* apdu_timeout(), in seconds
    BindTime,   \* timeout_seconds of the loops that wait for a device
    MaxId,      \* largest invoke id (255)
    MaxPackets, \* bound: packets under way when one is duplicated
    NULL

Device == 1..Devices
Ids == 1..MaxId

\* <<device, object>>
Object == UNION {{d} \X (1..Objects[d]) : d \in Device}

\* BACNET_TSM_DATA of an invoke id that is in use.
Transaction == [state : {"await", "idle"}, timer : 0..ApduTime, retry : 0..Retries,
                op : {"read", "write"}, what : Object]

ASSUME BacnetConstants ==
    /\ Devices \in Nat \ {0}
    /\ Objects \in [Device -> Nat \ {0}]
    /\ Commands \subseteq Seq(Object)
    /\ Retries \in Nat /\ ApduTime \in Nat \ {0} /\ BindTime \in Nat
    /\ MaxId \in Nat \ {0} /\ MaxPackets \in Nat
    /\ NULL \notin Transaction

VARIABLES
    lock,       \* holder of mio_lock
    dpc,        \* bacnet_data: what it does next
    dev, obj,   \* publish_data: device and object
    item,       \* publish_data: the readings so far
    round,      \* how publish_data ended last
    apc,        \* bacnet_actuate: what it does next
    writes,     \* bacnet_actuate: writes still to do
    found,      \* found
    target,     \* target_address
    id,         \* request_invoke_id
    error,      \* error_detected
    value,      \* value: the object it was read from
    decoded,    \* whether the answer to the request was decoded (history)
    lost,       \* whether a packet about the request was lost in a read (history)
    tsm,        \* TSM_List: the transaction of each invoke id
    current,    \* Current_Invoke_ID
    cache,      \* the address cache: "absent", "requested" or "bound"
    second,     \* whether time(NULL) has moved on from last_seconds
    elapsed,    \* elapsed_seconds
    requests,   \* packets on their way to the devices
    replies     \* and from them

dataVars == <<dpc, dev, obj, item, round>>
actVars == <<apc, writes>>
handlerVars == <<error, value, decoded>>
historyVars == <<decoded, lost>>
timeVars == <<second, elapsed>>
net == <<requests, replies>>
bacVars == <<lock, dataVars, actVars, found, target, id, handlerVars, lost, tsm, current, cache,
             timeVars, net>>

-----------------------------------------------------------------------------
(***************************************************************************)
(* tsm.c, address.c and the sending of requests.                           *)
(***************************************************************************)

Awaiting == {i \in Ids : tsm[i] # NULL /\ tsm[i].state = "await"}

Failed(table, i) == table[i] # NULL /\ table[i].state = "idle"

Request(table, i) == [to |-> table[i].what[1], id |-> i, op |-> table[i].op, what |-> table[i].what]

\* Transactions whose time is up in the coming call of tsm_timer_milliseconds.
Expired == {i \in Awaiting : second /\ tsm[i].timer = 1}

\* Mutant: the retries are not counted.
TsmTimerKeepsCount ==
    [i \in Ids |->
        IF i \notin Awaiting \/ ~second THEN tsm[i]
        ELSE IF i \notin Expired THEN [tsm[i] EXCEPT !.timer = @ - 1]
        ELSE IF tsm[i].retry < Retries THEN [tsm[i] EXCEPT !.timer = ApduTime]
        ELSE [tsm[i] EXCEPT !.timer = 0, !.state = "idle"]]

\* tsm_timer_milliseconds, called in every round of a loop that watches the
\* time, for the second that has passed, if any.
TsmTimer ==
    [i \in Ids |->
        IF i \notin Awaiting \/ ~second THEN tsm[i]
        ELSE IF i \notin Expired THEN [tsm[i] EXCEPT !.timer = @ - 1]
        ELSE IF tsm[i].retry < Retries THEN [tsm[i] EXCEPT !.timer = ApduTime, !.retry = @ + 1]
        ELSE [tsm[i] EXCEPT !.timer = 0, !.state = "idle"]]

Resent == {Request(tsm, i) : i \in {j \in Expired : tsm[j].retry < Retries}}

\* The ids from Current_Invoke_ID on; they go round.
Cycle(k) == ((current - 1 + k) % MaxId) + 1

\* tsm_next_free_invokeID: 0 if there is none.
NextFreeId(table) ==
    LET free == {k \in 0..(MaxId - 1) : table[Cycle(k)] = NULL}
    IN  IF free = {} THEN 0 ELSE Cycle(CHOOSE k \in free : \A j \in free : k <= j)

\* Packets about id i are gone before it is used again (255 requests later).
Outlived(packets, i) == {m \in packets : m.id # i}

\* Send_Read_Property_Request and Send_Write_Property_Request: the id, or 0.
\* `packets' are the requests before.
Send(op, what, table, packets) ==
    LET i == NextFreeId(table)
        new == [table EXCEPT ![i] = [state |-> "await", timer |-> ApduTime, retry |-> 0, op |-> op,
                                what |-> what]]
    IN  /\ id' = i
        /\ IF i = 0
           THEN /\ tsm' = table /\ requests' = packets
                /\ UNCHANGED <<current, replies>>
           ELSE /\ tsm' = new
                /\ requests' = Outlived(packets, i) \cup {Request(new, i)}
                /\ replies' = Outlived(replies, i)
                /\ current' = (i % MaxId) + 1
        /\ decoded' = FALSE /\ lost' = FALSE

\* address_bind_request: a device that is not known gets an entry.
BindRequest(d) ==
    /\ found' = (cache[d] = "bound")
    /\ target' = IF cache[d] = "bound" THEN d ELSE target
    /\ cache' = IF cache[d] = "absent" THEN [cache EXCEPT ![d] = "requested"] ELSE cache

WhoIs(d) == [to |-> d, id |-> 0, op |-> "whois", what |-> NULL]

\* Bind, and ask who the device is if it is not bound; the clock starts.
BindOrAsk(d) ==
    /\ BindRequest(d)
    /\ second' = FALSE
    /\ requests' = IF cache[d] = "bound" THEN requests ELSE requests \cup {WhoIs(d)}
    /\ UNCHANGED replies

-----------------------------------------------------------------------------
(***************************************************************************)
(* datalink_receive and npdu_handler.                                      *)
(***************************************************************************)

\* Mutant: any answer of the device will do.
IsOursByAddress(m) == m.from = target

\* The condition of all the handlers.
IsOurs(m) == m.from = target /\ m.id = id

\* Mutant: an error leaves the transaction in the table.
FreedUnlessError(m) ==
    IF m.id \in Ids /\ m.kind # "error" THEN [tsm EXCEPT ![m.id] = NULL] ELSE tsm

\* apdu_handler frees the transaction after every kind of answer.
Freed(m) == IF m.id \in Ids THEN [tsm EXCEPT ![m.id] = NULL] ELSE tsm

Handle(m) ==
    /\ replies' = replies \ {m}
    /\ cache' = IF m.kind = "i_am" /\ cache[m.from] # "absent"
                THEN [cache EXCEPT ![m.from] = "bound"] ELSE cache
    /\ error' = (error \/ (m.kind = "error" /\ IsOurs(m)))
    /\ value' = IF m.kind = "read_ack" /\ IsOurs(m) THEN m.what ELSE value
    /\ decoded' = (decoded \/ (m.kind = "read_ack" /\ IsOurs(m)))
    /\ tsm' = Freed(m)
    /\ UNCHANGED requests

ReceiveNothing == UNCHANGED <<net, cache, handlerVars, tsm>>

Receive == (\E m \in replies : Handle(m)) \/ ReceiveNothing

-----------------------------------------------------------------------------
BacInit ==
    /\ lock = "none"
    /\ dpc = "lock" /\ dev = 1 /\ obj = 1 /\ item = <<>> /\ round = "ok"
    /\ apc = "receive" /\ writes = <<>>
    /\ found = FALSE /\ target = 0 /\ id = 0
    /\ error = FALSE /\ value = NULL /\ decoded = FALSE /\ lost = FALSE
    /\ tsm = [i \in Ids |-> NULL]
    /\ current = 1
    /\ cache = [d \in Device |-> "absent"]
    /\ second = FALSE /\ elapsed = 0
    /\ requests = {} /\ replies = {}

-----------------------------------------------------------------------------
(***************************************************************************)
(* bacnet_data and publish_data                                            *)
(***************************************************************************)

DataLock ==
    /\ dpc = "lock" /\ lock = "none"
    /\ lock' = "data"
    /\ dpc' = "device" /\ elapsed' = 0
    /\ UNCHANGED <<dev, obj, item, round, actVars, found, target, id, handlerVars, lost, tsm,
                   current, cache, second, net>>

\* Mutant: the lock is not released when publish_data gives up on a device.
DataReturnKeepsLock(how) ==
    /\ dpc' = "sleep" /\ round' = how
    /\ lock' = IF how = "unbound" THEN lock ELSE "none"
    /\ dev' = 1 /\ obj' = 1 /\ item' = <<>>

\* publish_data returns, and bacnet_data unlocks.
DataReturn(how) ==
    /\ dpc' = "sleep" /\ lock' = "none" /\ round' = how
    /\ dev' = 1 /\ obj' = 1 /\ item' = <<>>

DataSleep ==
    /\ dpc = "sleep"
    /\ dpc' = "lock"
    /\ UNCHANGED <<lock, dev, obj, item, round, actVars, found, target, id, handlerVars, lost, tsm,
                   current, cache, timeVars, net>>

NextDevice ==
    /\ dpc = "device"
    /\ \/ /\ dev > Devices
          /\ DataReturn("ok")
          /\ UNCHANGED <<found, target, cache, second, net>>
       \/ /\ dev <= Devices
          /\ BindOrAsk(dev)
          /\ dpc' = IF cache[dev] = "bound" THEN "read" ELSE "bind"
          /\ obj' = 1
          /\ UNCHANGED <<lock, dev, item, round>>
    /\ UNCHANGED <<actVars, id, handlerVars, lost, tsm, current, elapsed>>

\* elapsed_seconds after a round in which the device is not bound yet.
Waited == elapsed + (IF second THEN 1 ELSE 0)

\* One round of the loop that waits for the device, up to the packet.  The
\* time of all the devices of a call is added up.
Bind ==
    /\ dpc = "bind"
    /\ tsm' = TsmTimer /\ requests' = requests \cup Resent
    /\ second' = FALSE
    /\ BindRequest(dev)
    /\ \/ /\ cache[dev] = "bound"
          /\ dpc' = "bind_receive"
          /\ UNCHANGED <<lock, dev, obj, item, round, elapsed>>
       \/ /\ cache[dev] # "bound" /\ Waited <= BindTime
          /\ elapsed' = Waited
          /\ dpc' = "bind_receive"
          /\ UNCHANGED <<lock, dev, obj, item, round>>
       \/ /\ cache[dev] # "bound" /\ Waited > BindTime
          /\ elapsed' = 0
          /\ DataReturn("unbound")
    /\ UNCHANGED <<actVars, id, handlerVars, lost, current, replies>>

BindReceive ==
    /\ dpc = "bind_receive"
    /\ Receive
    /\ dpc' = IF found THEN "read" ELSE "bind"
    /\ UNCHANGED <<lock, dev, obj, item, round, actVars, found, target, id, lost, current,
                   timeVars>>

NextObject ==
    /\ dpc = "read"
    /\ \/ obj > Objects[dev] /\ dpc' = "publish" /\ UNCHANGED id
       \/ obj <= Objects[dev] /\ dpc' = "read_check" /\ id' = 0
    /\ UNCHANGED <<lock, dev, obj, item, round, actVars, found, target, handlerVars, lost, tsm,
                   current, cache, timeVars, net>>

\* One round of the loop that waits for the value, up to the packet.
ReadCheck ==
    /\ dpc = "read_check"
    /\ \/ /\ id = 0
          /\ Send("read", <<dev, obj>>, tsm, requests)
          /\ dpc' = "read_receive"
          /\ UNCHANGED <<lock, dev, obj, item, round>>
       \/ /\ id # 0 /\ tsm[id] = NULL
          /\ dpc' = "read_done"
          /\ UNCHANGED <<lock, dev, obj, item, round, id, tsm, current, net, historyVars>>
       \/ /\ id # 0 /\ Failed(tsm, id)
          /\ tsm' = [tsm EXCEPT ![id] = NULL]
          /\ DataReturn("timeout")
          /\ UNCHANGED <<id, current, net, historyVars>>
       \/ /\ id # 0 /\ tsm[id] # NULL /\ ~Failed(tsm, id)
          /\ dpc' = "read_receive"
          /\ UNCHANGED <<lock, dev, obj, item, round, id, tsm, current, net, historyVars>>
    /\ UNCHANGED <<actVars, found, target, error, value, cache, timeVars>>

ReadReceive ==
    /\ dpc = "read_receive"
    /\ Receive
    /\ dpc' = "read_check"
    /\ UNCHANGED <<lock, dev, obj, item, round, actVars, found, target, id, lost, current,
                   timeVars>>

\* The readings go into the item; an error ends the round.
ReadDone ==
    /\ dpc = "read_done"
    /\ error' = FALSE
    /\ \/ error /\ DataReturn("error")
       \/ /\ ~error
          /\ item' = Append(item, [object |-> obj, value |-> value, decoded |-> decoded])
          /\ obj' = obj + 1 /\ dpc' = "read"
          /\ UNCHANGED <<lock, dev, round>>
    /\ UNCHANGED <<actVars, found, target, id, value, historyVars, tsm, current, cache,
                   timeVars, net>>

\* bacnet_data finds no XMPP connection and polls for one without limit, or
\* waits in mio_item_publish_data for a slot; mio_lock stays taken.
XmppWait ==
    /\ dpc = "publish"
    /\ dpc' = "xmpp_wait"
    /\ UNCHANGED <<lock, dev, obj, item, round, actVars, found, target, id, handlerVars, lost, tsm,
                   current, cache, timeVars, net>>

\* The connection or the slot is there.
XmppReady ==
    /\ dpc = "xmpp_wait"
    /\ dpc' = "publish"
    /\ UNCHANGED <<lock, dev, obj, item, round, actVars, found, target, id, handlerVars, lost, tsm,
                   current, cache, timeVars, net>>

\* Publish the item with the connection there, whatever comes of it.
PublishItem ==
    /\ dpc = "publish"
    /\ dev' = dev + 1 /\ item' = <<>> /\ dpc' = "device"
    /\ UNCHANGED <<lock, obj, round, actVars, found, target, id, handlerVars, lost, tsm, current,
                   cache, timeVars, net>>

-----------------------------------------------------------------------------
(***************************************************************************)
(* bacnet_actuate and write_bacnet_obj                                     *)
(***************************************************************************)

ActReceive ==
    /\ apc = "receive"
    /\ \E w \in Commands : writes' = w
    /\ apc' = "lock"
    /\ UNCHANGED <<lock, dataVars, found, target, id, handlerVars, lost, tsm, current, cache,
                   timeVars, net>>

ActLock ==
    /\ apc = "lock" /\ lock = "none"
    /\ lock' = "actuate" /\ apc' = "next"
    /\ UNCHANGED <<dataVars, writes, found, target, id, handlerVars, lost, tsm, current, cache,
                   timeVars, net>>

\* The next write begins, or is dropped because its value cannot be parsed.
NextWrite ==
    /\ apc = "next"
    /\ \/ /\ writes = <<>>
          /\ lock' = "none" /\ apc' = "receive"
          /\ UNCHANGED <<writes, found, target, id, cache, timeVars, net>>
       \/ /\ writes # <<>>
          /\ writes' = Tail(writes)
          /\ UNCHANGED <<lock, apc, found, target, id, cache, timeVars, net>>
       \/ /\ writes # <<>>
          /\ BindOrAsk(Head(writes)[1])
          /\ id' = 0 /\ elapsed' = 0 /\ apc' = "write"
          /\ UNCHANGED <<lock, writes>>
    /\ UNCHANGED <<dataVars, handlerVars, lost, tsm, current>>

\* One round of the loop, up to the packet: first the time, then the error
\* flag, then the binding, then the request.
WriteRound(there) ==
    /\ apc' = there
    /\ second' = FALSE
    /\ UNCHANGED <<lock, dataVars, writes, value>>

NoRequest(table) ==
    /\ tsm' = table
    /\ requests' = requests \cup Resent
    /\ UNCHANGED <<id, current, historyVars, replies>>

WriteBroken ==
    /\ apc = "write" /\ error
    /\ WriteRound("write_end")
    /\ NoRequest(TsmTimer)
    /\ UNCHANGED <<error, found, target, cache, elapsed>>

WriteUnbound ==
    LET d == Head(writes)[1]
    IN  /\ apc = "write" /\ ~error /\ ~found /\ cache[d] # "bound"
        /\ BindRequest(d)
        /\ NoRequest(TsmTimer)
        /\ elapsed' = Waited
        /\ \/ Waited <= BindTime /\ WriteRound("write_receive") /\ UNCHANGED error
           \/ Waited > BindTime /\ WriteRound("write_end") /\ error' = TRUE

\* Mutant: a transaction that failed is not freed.
GivenUpKeepsId(table) == table

\* tsm_free_invoke_id of a request that was not answered.
GivenUp(table) == [table EXCEPT ![id] = NULL]

WriteBound ==
    LET d == Head(writes)[1]
        table == TsmTimer
    IN  /\ apc = "write" /\ ~error /\ (found \/ cache[d] = "bound")
        /\ found' = TRUE /\ target' = d
        /\ \/ /\ id = 0
              /\ Send("write", Head(writes), table, requests \cup Resent)
              /\ WriteRound("write_receive") /\ UNCHANGED error
           \/ /\ id # 0 /\ table[id] = NULL
              /\ NoRequest(table)
              /\ WriteRound("write_end") /\ UNCHANGED error
           \/ /\ id # 0 /\ Failed(table, id)
              /\ NoRequest(GivenUp(table))
              /\ WriteRound("write_end") /\ error' = TRUE
           \/ /\ id # 0 /\ table[id] # NULL /\ ~Failed(table, id)
              /\ NoRequest(table)
              /\ WriteRound("write_receive") /\ UNCHANGED error
        /\ UNCHANGED <<cache, elapsed>>

WriteReceive ==
    /\ apc = "write_receive"
    /\ Receive
    /\ apc' = "write"
    /\ UNCHANGED <<lock, dataVars, writes, found, target, id, lost, current, timeVars>>

\* Mutant: the error flag stays up.
WriteEndKeepsError ==
    /\ apc = "write_end"
    /\ writes' = Tail(writes) /\ apc' = "next"
    /\ UNCHANGED <<lock, dataVars, found, target, id, handlerVars, lost, tsm, current, cache,
                   timeVars, net>>

\* Mutant: a write that failed is tried again.
WriteEndRetries ==
    /\ apc = "write_end"
    /\ error' = FALSE
    /\ writes' = IF error THEN writes ELSE Tail(writes)
    /\ apc' = "next"
    /\ UNCHANGED <<lock, dataVars, found, target, id, value, historyVars, tsm, current, cache,
                   timeVars, net>>

\* write_bacnet_obj returns, and bacnet_actuate goes on to the next write.
WriteEnd ==
    /\ apc = "write_end"
    /\ error' = FALSE
    /\ writes' = Tail(writes) /\ apc' = "next"
    /\ UNCHANGED <<lock, dataVars, found, target, id, value, historyVars, tsm, current, cache,
                   timeVars, net>>

-----------------------------------------------------------------------------
(***************************************************************************)
(* The devices and the network.                                            *)
(***************************************************************************)

Reply(m, k) == [from |-> m.to, id |-> m.id, kind |-> k, what |-> m.what]

\* What a device may answer: a value, one that cannot be decoded, an error.
Kinds(m) ==
    CASE m.op = "whois" -> {"i_am"}
      [] m.op = "read" -> {"read_ack", "garbled", "error"}
      [] m.op = "write" -> {"write_ack", "error"}

others == <<lock, dataVars, actVars, found, target, id, handlerVars, tsm, current, cache, elapsed>>

\* A device answers a request about id i; the request may be there twice.
Answer(i) ==
    /\ \E m \in {r \in requests : r.id = i} :
          /\ \E k \in Kinds(m) : replies' = replies \cup {Reply(m, k)}
          /\ \/ requests' = requests \ {m}
             \/ /\ Cardinality(requests) + Cardinality(replies) < MaxPackets
                /\ UNCHANGED requests
    /\ UNCHANGED <<others, lost, second>>

\* A packet is lost.
Lose ==
    /\ \E m \in requests \cup replies :
          /\ requests' = requests \ {m} /\ replies' = replies \ {m}
          /\ lost' = (lost \/ (dpc \in {"read_check", "read_receive"} /\ m.id = id))
    /\ UNCHANGED <<others, second>>

\* The clock; only the loops with a time limit look at it.
Tick ==
    /\ ~second
    /\ dpc \in {"bind", "bind_receive"} \/ apc \in {"write", "write_receive"}
    /\ second' = TRUE
    /\ UNCHANGED <<others, lost, net>>

DataStep ==
    \/ DataLock \/ DataSleep \/ NextDevice \/ Bind \/ BindReceive \/ NextObject
    \/ ReadCheck \/ ReadReceive \/ ReadDone \/ PublishItem

ActStep == NextWrite \/ WriteBroken \/ WriteUnbound \/ WriteBound \/ WriteReceive \/ WriteEnd

BacNext ==
    \/ DataStep
    \/ XmppWait \/ XmppReady
    \/ ActReceive \/ ActLock \/ ActStep
    \/ \E i \in Ids \cup {0} : Answer(i)
    \/ Lose
    \/ Tick

BacFacts == BacInit /\ [][BacNext]_bacVars

\* The packet with the answer to request i comes in during a read.
ReadAnswer(i) == ReadReceive /\ \E m \in replies : m.id = i /\ Handle(m)

\* The threads run and time passes.  A packet that is not lost arrives, and a
\* request that arrives is answered.  bacnet_data sleeps without the lock, long
\* enough for bacnet_actuate to take it.  Nothing says that the XMPP connection
\* comes back.
BacSpec ==
    /\ BacFacts
    /\ WF_bacVars(DataStep) /\ WF_bacVars(ActStep) /\ SF_bacVars(ActLock)
    /\ WF_bacVars(Tick)
    /\ \A i \in Ids : SF_bacVars(ReadAnswer(i)) /\ SF_bacVars(Answer(i))

-----------------------------------------------------------------------------
(***************************************************************************)
(* Properties.                                                             *)
(***************************************************************************)

RequestPacket ==
    [to : Device, id : {0}, op : {"whois"}, what : {NULL}]
    \cup [to : Device, id : Ids, op : {"read", "write"}, what : Object]

ReplyPacket ==
    [from : Device, id : {0}, kind : {"i_am"}, what : {NULL}]
    \cup [from : Device, id : Ids, kind : {"read_ack", "garbled", "write_ack", "error"}, what : Object]

\* Types, and who is inside: only the holder of mio_lock drives the stack.
BacTypeOK ==
    /\ lock \in {"none", "data", "actuate"}
    /\ lock = "data" <=> dpc \notin {"lock", "sleep"}
    /\ lock = "actuate" <=> apc \notin {"receive", "lock"}
    /\ dpc \in {"lock", "sleep", "device", "bind", "bind_receive", "read", "read_check",
                "read_receive", "read_done", "publish", "xmpp_wait"}
    /\ dev \in 1..(Devices + 1)
    /\ obj \in Nat \ {0}
    /\ dpc \in {"bind", "bind_receive", "read", "read_check", "read_receive", "read_done",
                "publish", "xmpp_wait"}
       => dev \in Device /\ obj <= Objects[dev] + 1
    /\ dpc \in {"read_check", "read_receive", "read_done"} => obj <= Objects[dev]
    /\ item \in Seq([object : Nat, value : Object \cup {NULL}, decoded : BOOLEAN])
    /\ round \in {"ok", "unbound", "timeout", "error"}
    /\ apc \in {"receive", "lock", "next", "write", "write_receive", "write_end"}
    /\ writes \in Seq(Object)
    /\ apc \in {"write", "write_receive", "write_end"} => writes # <<>>
    /\ found \in BOOLEAN /\ error \in BOOLEAN /\ decoded \in BOOLEAN /\ second \in BOOLEAN
    /\ lost \in BOOLEAN
    /\ target \in Device \cup {0}
    /\ id \in Ids \cup {0}
    /\ value \in Object \cup {NULL}
    /\ tsm \in [Ids -> Transaction \cup {NULL}]
    /\ current \in Ids
    /\ cache \in [Device -> {"absent", "requested", "bound"}]
    /\ elapsed \in 0..(BindTime + 1)
    /\ requests \subseteq RequestPacket /\ replies \subseteq ReplyPacket

\* The table of transactions does not fill up: besides the request that the
\* holder of the lock is waiting for there is none, and when the lock is free
\* there is none at all.  Every way out of publish_data and write_bacnet_obj
\* leaves the invoke id free, also when answers come late, twice or never.
NoTransactionLeaks ==
    /\ \A i \in Ids : tsm[i] # NULL => i = id
    /\ lock = "none"
       \/ dpc \in {"device", "bind", "bind_receive", "read", "read_done", "publish", "xmpp_wait"}
       \/ apc \in {"next", "write_end"}
       => \A i \in Ids : tsm[i] = NULL

\* A value that is published under the name of an object was read from that
\* object, whatever late or repeated answers came in between, if the answer
\* could be decoded.  An answer that is still under way when its invoke id is
\* used again, 255 requests later, is left out (Outlived).
ReadingsMatch ==
    \A k \in 1..Len(item) :
        /\ item[k].object = k
        /\ item[k].decoded => item[k].value = <<dev, k>>

\* The error flag is up while nobody holds the lock only if publish_data has
\* given up waiting for a device: no other way out leaves an error behind for
\* the next operation, which would fail at once without a request.
ErrorsAreHandled == lock = "none" /\ error => round = "unbound"

\* publish_data waits for an answer that cannot come: a packet with the request
\* or its answer was lost and no other copy is on its way.  This loop has no
\* time limit and does not run the timer that would send the request again.
Stalled ==
    /\ dpc \in {"read_check", "read_receive"} /\ id # 0
    /\ tsm[id] # NULL
    /\ lost
    /\ \A m \in requests \cup replies : m.id # id

\* bacnet_data does not wait for XMPP for ever or again and again.
XmppComesBack == <>[](dpc # "xmpp_wait")

\* A write comes to an end, with or without an answer.
WriteReturns == (apc = "write") ~> (apc = "next")

\* publish_data comes to an end, unless the request for a value or its answer
\* was lost, and if the XMPP connection comes back whenever it is waited for
\* (the loops of publish_data have no time limit of their own).
RoundEndsUnlessLost == XmppComesBack => ((lock = "data") ~> (lock # "data" \/ Stalled))

\* What clients send to bacnet_actuate is carried out or fails, with the same
\* two exceptions: both waits keep mio_lock.
CommandHandledUnlessLost == XmppComesBack => ((apc = "lock") ~> (apc = "receive" \/ Stalled))

=============================================================================

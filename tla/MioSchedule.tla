---------------------------- MODULE MioSchedule ----------------------------
(***************************************************************************)
(* The "schedule" item of an event node: a list of events, each with an id *)
(* that is its position.  mio_schedule_event_merge_publish and             *)
(* mio_schedule_event_remove_publish query the item, edit the list they    *)
(* got and publish it whole.                                               *)
(***************************************************************************)
EXTENDS MioItems, FiniteSets

CONSTANTS
    Fields,     \* info, time, tranducer_name, transducer_value
    Values,     \* texts of fields and of recurrence elements
    NULL,       \* a pointer to nothing
    Calls,      \* calls the clients make, see CallOK
    MaxCalls    \* bound: calls per client

Texts == Values \cup {NULL}

\* freq, interval, count, until and exdate are handled as bymonth is.
Recurrence == [bymonth : Texts, byday : Texts]

Event == [id : Int, field : [Fields -> Texts], recurrence : Recurrence \cup {NULL}]

CallOK(r) ==
    \/ r \in [op : {"merge"}, node : Nodes, events : Seq(Event) \ {<<>>}, id : {0}]
    \/ r \in [op : {"remove"}, node : Nodes, events : {<<>>}, id : Int]

ASSUME ScheduleConstants ==
    /\ NULL \notin Values
    /\ NULL \notin Recurrence
    /\ \A r \in Calls : CallOK(r)
    /\ MaxCalls \in Nat

VARIABLES
    pc,         \* where each client is
    call,       \* its current or last call; the events are the caller's own
    base,       \* the events its query returned, if it was answered
    work,       \* the list it edits
    next,       \* index of the event to merge next
    ret,        \* what the call returned
    calls,      \* calls made
    versions,   \* [Nodes -> set of values the item has had] (history)
    stored      \* [Nodes -> where the item's current value comes from] (history)

clientVars == <<pc, call, base, work, next, ret, calls>>
schedVars == <<itemVars, clientVars, versions, stored>>

Call == [op : {"none", "merge", "remove"}, node : Nodes \cup {NULL},
         events : Seq(Event), id : Int]
Base == [from : {"query", "none"}, events : Seq(Event)]
Source == [call : Call, base : Base]
Publication == [node : Nodes, value : Seq(Event), by : Source]

NoBase == [from |-> "none", events |-> <<>>]
NoCall == [op |-> "none", node |-> NULL, events |-> <<>>, id |-> 0]
Nothing == [call |-> NoCall, base |-> NoBase]

-----------------------------------------------------------------------------
(***************************************************************************)
(* The list functions.                                                     *)
(***************************************************************************)

\* _mio_event_renumber
Renumber(events) == [i \in 1..Len(events) |-> [events[i] EXCEPT !.id = i - 1]]

Matches(events, id) == {i \in 1..Len(events) : events[i].id = id}

\* mio_schedule_event_remove
EventRemove(events, id) ==
    Renumber(IF Matches(events, id) = {} THEN events
             ELSE Without(events, First(Matches(events, id))))

\* mio_event_new
EventNew == [id |-> -1, field |-> [f \in Fields |-> NULL], recurrence |-> NULL]

\* The part of mio_schedule_event_merge that copies what `event' has into
\* `curr'; a recurrence is replaced as a whole.
EventOverwrite(curr, event) ==
    [id |-> curr.id,
     field |-> [f \in Fields |-> IF event.field[f] # NULL THEN event.field[f]
                                 ELSE curr.field[f]],
     recurrence |-> IF event.recurrence # NULL THEN event.recurrence
                    ELSE curr.recurrence]

\* Mutant: an event that is in the schedule is replaced, not merged.
EventMergeReplaces(events, event) ==
    LET same == Matches(events, event.id)
    IN  IF same = {} THEN Append(events, EventOverwrite(EventNew, event))
        ELSE [events EXCEPT ![First(same)] = EventOverwrite(EventNew, event)]

\* Mutant: the id is the index in an array that starts at 1.
EventMergeOffByOne(events, event) ==
    LET same == Matches(events, event.id - 1)
    IN  IF same = {} THEN Append(events, EventOverwrite(EventNew, event))
        ELSE [events EXCEPT ![First(same)] = EventOverwrite(@, event)]

\* Mutant: the new event is linked in without being allocated.
EventMergeForgetsNew(events, event) ==
    LET same == Matches(events, event.id)
    IN  IF same = {} THEN Append(events, NULL)
        ELSE [events EXCEPT ![First(same)] = EventOverwrite(@, event)]

\* One round of the loop of mio_schedule_event_merge.  An event that is
\* appended has the id -1 of mio_event_new until the list is renumbered.
EventMerge(events, event) ==
    LET same == Matches(events, event.id)
    IN  IF same = {} THEN Append(events, EventOverwrite(EventNew, event))
        ELSE [events EXCEPT ![First(same)] = EventOverwrite(@, event)]

\* mio_schedule_event_to_item and _mio_recurrence_to_stanza, which writes the
\* text of bymonth into the element byday, and mio_XMLstart_schedule_query,
\* which reads the elements back.
RecurrenceToStanza(rec) ==
    [bymonth |-> rec.bymonth,
     byday |-> IF rec.byday = NULL THEN NULL ELSE rec.bymonth]

ToItem(events) ==
    [i \in 1..Len(events) |->
        [events[i] EXCEPT !.recurrence = IF @ = NULL THEN NULL
                                         ELSE RecurrenceToStanza(@)]]

\* xmpp_stanza_set_text copies its text: there has to be one.
Unwritable(events) ==
    \E i \in 1..Len(events) :
        /\ events[i].recurrence # NULL
        /\ events[i].recurrence.byday # NULL
        /\ events[i].recurrence.bymonth = NULL

-----------------------------------------------------------------------------
SchedInit ==
    /\ item = [n \in Nodes |-> <<>>]
    /\ sent = [c \in Clients |-> <<>>]
    /\ answer = [c \in Clients |-> "none"]
    /\ pc = [c \in Clients |-> "idle"]
    /\ call = [c \in Clients |-> NoCall]
    /\ base = [c \in Clients |-> NoBase]
    /\ work = [c \in Clients |-> <<>>]
    /\ next = [c \in Clients |-> 1]
    /\ ret = [c \in Clients |-> "none"]
    /\ calls = [c \in Clients |-> 0]
    /\ versions = [n \in Nodes |-> {<<>>}]
    /\ stored = [n \in Nodes |-> Nothing]

\* A client calls mio_schedule_event_merge_publish or
\* mio_schedule_event_remove_publish.
NewCall(c, r) ==
    /\ pc[c] = "idle"
    /\ calls[c] < MaxCalls
    /\ call' = [call EXCEPT ![c] = r]
    /\ pc' = [pc EXCEPT ![c] = "query"]
    /\ calls' = [calls EXCEPT ![c] = @ + 1]
    /\ UNCHANGED <<itemVars, base, work, next, ret, versions, stored>>

\* It repeats a call that failed, with the event list it still has.
RetryCall(c) ==
    /\ ret[c] \notin {"none", "ok"}
    /\ NewCall(c, call[c])

\* The call returns; its local variables are gone.
Return(c, err) ==
    /\ ret' = [ret EXCEPT ![c] = err]
    /\ pc' = [pc EXCEPT ![c] = "idle"]
    /\ base' = [base EXCEPT ![c] = NoBase]
    /\ work' = [work EXCEPT ![c] = <<>>]
    /\ next' = [next EXCEPT ![c] = 1]
    /\ UNCHANGED <<itemVars, call, calls, versions, stored>>

\* The merge has no list to merge into: it numbers the caller's events and
\* takes them for the schedule.
TakeOwnEvents(c, from) ==
    LET own == Renumber(call[c].events)
    IN  /\ call' = [call EXCEPT ![c].events = own]
        /\ work' = [work EXCEPT ![c] = own]
        /\ base' = [base EXCEPT ![c] = [from |-> from, events |-> <<>>]]
        /\ pc' = [pc EXCEPT ![c] = "publish"]
        /\ UNCHANGED next

\* mio_schedule_query is answered with the item's events, none if it is empty
\* or was never published.
MergeQueried(c) ==
    LET events == item[call[c].node]
    IN  /\ pc[c] = "query"
        /\ call[c].op = "merge"
        /\ QueryServed(c)
        /\ \/ /\ events = <<>>
              /\ TakeOwnEvents(c, "query")
           \/ /\ events # <<>>
              /\ work' = [work EXCEPT ![c] = events]
              /\ base' = [base EXCEPT ![c] = [from |-> "query", events |-> events]]
              /\ next' = [next EXCEPT ![c] = 1]
              /\ pc' = [pc EXCEPT ![c] = "merge"]
              /\ UNCHANGED call
        /\ UNCHANGED <<itemVars, ret, calls, versions, stored>>

\* Mutant: a merge whose query was not answered goes on with the list of the
\* call before.
MergeUnansweredUsesOldList(c) ==
    /\ pc[c] = "query"
    /\ call[c].op = "merge"
    /\ base' = [base EXCEPT ![c] = NoBase]
    /\ next' = [next EXCEPT ![c] = 1]
    /\ pc' = [pc EXCEPT ![c] = "merge"]
    /\ UNCHANGED <<itemVars, call, work, ret, calls, versions, stored>>

\* The query of a merge ends in an error, a timeout or without connection.
MergeUnanswered(c) ==
    /\ pc[c] = "query"
    /\ call[c].op = "merge"
    /\ TakeOwnEvents(c, "none")
    /\ UNCHANGED <<itemVars, ret, calls, versions, stored>>

\* The loop of mio_schedule_event_merge ...
MergeEvent(c) ==
    /\ pc[c] = "merge"
    /\ next[c] <= Len(call[c].events)
    /\ work' = [work EXCEPT ![c] = EventMerge(@, call[c].events[next[c]])]
    /\ next' = [next EXCEPT ![c] = @ + 1]
    /\ UNCHANGED <<itemVars, pc, call, base, ret, calls, versions, stored>>

\* Mutant: the merged list is published as it is.
MergeEndKeepsIds(c) ==
    /\ pc[c] = "merge"
    /\ next[c] > Len(call[c].events)
    /\ pc' = [pc EXCEPT ![c] = "publish"]
    /\ UNCHANGED <<itemVars, work, call, base, next, ret, calls, versions, stored>>

\* ... and its end.
MergeEnd(c) ==
    /\ pc[c] = "merge"
    /\ next[c] > Len(call[c].events)
    /\ work' = [work EXCEPT ![c] = Renumber(@)]
    /\ pc' = [pc EXCEPT ![c] = "publish"]
    /\ UNCHANGED <<itemVars, call, base, next, ret, calls, versions, stored>>

\* mio_schedule_event_remove_publish after an answered query; an id that is
\* not in the list removes nothing and the list is published all the same.
RemoveQueried(c) ==
    LET events == item[call[c].node]
    IN  /\ pc[c] = "query"
        /\ call[c].op = "remove"
        /\ QueryServed(c)
        /\ work' = [work EXCEPT ![c] = EventRemove(events, call[c].id)]
        /\ base' = [base EXCEPT ![c] = [from |-> "query", events |-> events]]
        /\ pc' = [pc EXCEPT ![c] = "publish"]
        /\ UNCHANGED <<itemVars, call, next, ret, calls, versions, stored>>

\* MIO_ERROR_UNEXPECTED_RESPONSE
RemoveUnanswered(c) ==
    /\ pc[c] = "query"
    /\ call[c].op = "remove"
    /\ Return(c, "unexpected_response")

\* The list becomes an item and mio_item_publish sends it.
Publish(c) ==
    /\ pc[c] = "publish"
    /\ ~Unwritable(work[c])
    /\ ItemPublish(c, call[c].node, ToItem(work[c]),
                   [call |-> call[c], base |-> base[c]])
    /\ pc' = [pc EXCEPT ![c] = "await"]
    /\ UNCHANGED <<call, base, work, next, ret, calls, versions, stored>>

\* The conversion copies a text that is not there: the process is gone.
PublishCrash(c) ==
    /\ pc[c] = "publish"
    /\ Unwritable(work[c])
    /\ pc' = [pc EXCEPT ![c] = "crashed"]
    /\ UNCHANGED <<itemVars, call, base, work, next, ret, calls, versions, stored>>

\* mio_item_publish: not connected, answered, or timed out.
PublishDisconnected(c) ==
    /\ pc[c] = "publish"
    /\ ~Unwritable(work[c])
    /\ Return(c, "disconnected")

PublishAnswered(c) ==
    /\ pc[c] = "await"
    /\ answer[c] # "none"
    /\ Return(c, answer[c])

PublishTimeout(c) ==
    /\ pc[c] = "await"
    /\ Return(c, "timeout")

\* The server and the network.
ServerStoreSchedule(c) ==
    /\ ServerStore(c)
    /\ LET p == Head(sent[c])
       IN  /\ versions' = [versions EXCEPT ![p.node] = @ \cup {p.value}]
           /\ stored' = [stored EXCEPT ![p.node] = p.by]
    /\ UNCHANGED clientVars

NetworkFails(c) ==
    /\ ServerRefuse(c) \/ LinkLost(c)
    /\ UNCHANGED <<clientVars, versions, stored>>

ClientStep(c) ==
    \/ MergeQueried(c) \/ MergeUnanswered(c) \/ MergeEvent(c) \/ MergeEnd(c)
    \/ RemoveQueried(c) \/ RemoveUnanswered(c)
    \/ Publish(c) \/ PublishCrash(c)
    \/ PublishDisconnected(c) \/ PublishAnswered(c) \/ PublishTimeout(c)

SchedNext ==
    \E c \in Clients :
        \/ \E r \in Calls : NewCall(c, r)
        \/ RetryCall(c)
        \/ ClientStep(c)
        \/ ServerStoreSchedule(c)
        \/ NetworkFails(c)

SchedSpec == SchedInit /\ [][SchedNext]_schedVars

-----------------------------------------------------------------------------
(***************************************************************************)
(* Properties.                                                             *)
(***************************************************************************)

\* The calls as the caller wrote them, or with the numbers that an earlier
\* attempt left in the caller's event list.
CallsAndRepeats ==
    Calls \cup {[r EXCEPT !.events = Renumber(@)] : r \in Calls}

Promise == INSTANCE ScheduleItem WITH schedule <- item, Calls <- CallsAndRepeats

\* Types of the clients' variables (mio_event_t lists, return codes) and of
\* the publications under way.
SchedTypeOK ==
    /\ item \in [Nodes -> Seq(Event)]
    /\ sent \in [Clients -> Seq(Publication)]
    /\ answer \in [Clients -> Answers]
    /\ pc \in [Clients -> {"idle", "query", "merge", "publish", "await", "crashed"}]
    /\ call \in [Clients -> Call]
    /\ base \in [Clients -> Base]
    /\ work \in [Clients -> Seq(Event)]
    /\ next \in [Clients -> Nat \ {0}]
    /\ ret \in [Clients -> {"none", "ok", "error", "timeout", "disconnected",
                            "unexpected_response"}]
    /\ calls \in [Clients -> 0..MaxCalls]
    /\ versions \in [Nodes -> SUBSET Seq(Event)]
    /\ stored \in [Nodes -> Source]

\* Every event a schedule holds can be addressed: its id is its position
\* (_mio_event_renumber after each edit), whichever client wrote it last and
\* however late.
IdsArePositions == \A n \in Nodes : Promise!Numbered(item[n])

\* The operations implement ScheduleItem: whatever is stored is one edit of
\* one schedule the node has had, never a mixture.
ImplementsScheduleItem == Promise!ItemSpec

\* The events of the call can be stored as they are given: no recurrence has a
\* byday other than its bymonth (_mio_recurrence_to_stanza, mio.c 525, writes
\* the one into the element of the other).
RecurrencesFaithful(events) ==
    \A i \in 1..Len(events) : Promise!Faithful(events[i].recurrence)

\* The events among the first k that are not in the old schedule.
NewAmong(old, events, k) ==
    {j \in 1..k : events[j].id \notin 0..(Len(old) - 1)}

\* Each new event has an entry of its own, in the order of the list, with the
\* parts it was given.
AddedEach(old, events, new) ==
    /\ Len(new) = Len(old) + Cardinality(NewAmong(old, events, Len(events)))
    /\ \A j \in NewAmong(old, events, Len(events)) :
          LET added == new[Len(old) + Cardinality(NewAmong(old, events, j))]
          IN  added.field = events[j].field /\ added.recurrence = events[j].recurrence

\* No event that is numbered -1 follows a new event of the same call: a new
\* event has the id -1 of mio_event_new until the end of the merge, and the
\* loop (mio.c 639) takes the later event for the earlier one.
NoCollapse(old, events) ==
    \A j \in 1..Len(events) :
        events[j].id = -1 => NewAmong(old, events, j - 1) = {}

\* An update computed from the schedule it replaces is exactly what its call
\* asks for.  "Merges an existing schedule ... with a linked list of events.
\* Events are merged by ID" (mio.c 682-685): events that are in the schedule
\* take on the parts given, each other event becomes an entry of its own with
\* the fields and the recurrence given; a removal takes out the one event that
\* has the id.  The code does not do so for two kinds of merges, which the
\* hypotheses name: it needs RecurrencesFaithful and, with a schedule to merge
\* into, NoCollapse.
FreshUpdateIsExact ==
    [][\A c \in Clients :
          LET p == Head(sent[c])
              old == item[p.node]
              events == p.by.call.events
          IN  /\ ServerStoreSchedule(c)
              /\ p.by.base = [from |-> "query", events |-> old]
              /\ RecurrencesFaithful(events)
              /\ old # <<>> => NoCollapse(old, events)
              => \/ /\ p.by.call.op = "merge"
                    /\ IF old = <<>> THEN Promise!Replaced(events, p.value)
                       ELSE /\ Promise!Merged(old, events, p.value)
                            /\ AddedEach(old, events, p.value)
                 \/ /\ p.by.call.op = "remove"
                    /\ Promise!Removed(old, p.by.call.id, p.value)
      ]_schedVars

\* A merge that only addresses events of the schedule it found can be
\* repeated: if its answer was lost and nothing else was stored in between,
\* storing it again changes nothing.
RepeatedMergeIsHarmless ==
    [][\A c \in Clients :
          LET p == Head(sent[c])
              before == stored[p.node]
          IN  /\ ServerStoreSchedule(c)
              /\ p.by.base = [from |-> "query", events |-> item[p.node]]
              /\ p.by.call = before.call
              /\ p.by.call.op = "merge"
              /\ \A i \in 1..Len(p.by.call.events) :
                    p.by.call.events[i].id \in 0..(Len(before.base.events) - 1)
              => p.value = item[p.node]
      ]_schedVars

=============================================================================

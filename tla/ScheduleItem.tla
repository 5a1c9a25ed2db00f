---------------------------- MODULE ScheduleItem ----------------------------
(***************************************************************************)
(* What the schedule operations promise: each update of a node's schedule  *)
(* is one edit of some schedule the node has had.  It need not be the last *)
(* one: two clients may lose each other's updates.  An edit is described   *)
(* by what it does to each event, not by the loop that does it.            *)
(***************************************************************************)
EXTENDS Integers, Sequences

CONSTANTS Nodes, Fields, Texts, NULL, Calls

VARIABLES
    schedule,   \* [Nodes -> list of events]
    versions    \* [Nodes -> schedules the node has had]

itemSpecVars == <<schedule, versions>>

SetsField(e, id, f) == e.id = id /\ e.field[f] # NULL
SetsRecurrence(e, id) == e.id = id /\ e.recurrence # NULL

\* The last of the first k events that sets a part of event `id' determines
\* it; if there is none, it stays as it was.
FieldMerged(events, k, id, f, old, new) ==
    \/ \E j \in 1..k :
          /\ SetsField(events[j], id, f)
          /\ new = events[j].field[f]
          /\ \A l \in (j + 1)..k : ~SetsField(events[l], id, f)
    \/ /\ new = old
       /\ \A l \in 1..k : ~SetsField(events[l], id, f)

RecurrenceMerged(events, k, id, old, new) ==
    \/ \E j \in 1..k :
          /\ SetsRecurrence(events[j], id)
          /\ new = events[j].recurrence
          /\ \A l \in (j + 1)..k : ~SetsRecurrence(events[l], id)
    \/ /\ new = old
       /\ \A l \in 1..k : ~SetsRecurrence(events[l], id)

\* The list `new' is `old' with the first k of `events' merged in, but for the
\* numbering: events that are in the old schedule keep their place and take on
\* the new parts, the others come after them.
MergedParts(old, events, k, new) ==
    /\ Len(new) >= Len(old)
    /\ Len(new) <= Len(old) + k
    /\ Len(new) = Len(old) <=> \A j \in 1..k : events[j].id \in 0..(Len(old) - 1)
    /\ \A i \in 1..Len(old) :
          /\ \A f \in Fields :
                FieldMerged(events, k, i - 1, f, old[i].field[f], new[i].field[f])
          /\ RecurrenceMerged(events, k, i - 1, old[i].recurrence, new[i].recurrence)
    /\ \A i \in (Len(old) + 1)..Len(new) : \A f \in Fields :
          \/ new[i].field[f] = NULL
          \/ \E j \in 1..k : new[i].field[f] = events[j].field[f]

Numbered(events) == \A i \in 1..Len(events) : events[i].id = i - 1

Merged(old, events, new) ==
    /\ MergedParts(old, events, Len(events), new)
    /\ Numbered(new)

\* `new' is the list `events', numbered.
Replaced(events, new) ==
    /\ Len(new) = Len(events)
    /\ \A i \in 1..Len(new) :
          new[i] = [events[i] EXCEPT !.id = i - 1]

\* `new' is `old' without the event `id', numbered.
Removed(old, id, new) ==
    LET shift(i) == IF id \in 0..(Len(old) - 1) /\ i > id THEN 1 ELSE 0
    IN  /\ Len(new) = IF id \in 0..(Len(old) - 1) THEN Len(old) - 1 ELSE Len(old)
        /\ \A i \in 1..Len(new) :
              new[i] = [old[i + shift(i)] EXCEPT !.id = i - 1]

\* A recurrence that is stored as it is given.  The element byday of the item
\* is written with the text of bymonth (mio.c 525), so a byday of its own does
\* not survive; nothing is promised about what takes its place.
Faithful(rec) == rec = NULL \/ rec.byday \in {NULL, rec.bymonth}

Readings(event) ==
    IF Faithful(event.recurrence) THEN {event}
    ELSE {[event EXCEPT !.recurrence.byday = text] : text \in Texts}

\* The lists the caller's list may be stored as.
ReadingsOf(events) ==
    {list \in [1..Len(events) -> UNION {Readings(events[i]) : i \in 1..Len(events)}] :
        \A i \in 1..Len(events) : list[i] \in Readings(events[i])}

ItemInit ==
    /\ schedule = [n \in Nodes |-> <<>>]
    /\ versions = [n \in Nodes |-> {<<>>}]

\* The new schedule is what a call makes of a schedule the node has had.
Edited(n) ==
    \E r \in Calls :
        /\ r.node = n
        /\ \/ /\ r.op = "merge"
              /\ \E events \in ReadingsOf(r.events) :
                    \/ Replaced(events, schedule'[n])
                    \/ \E old \in versions[n] \ {<<>>} : Merged(old, events, schedule'[n])
           \/ /\ r.op = "remove"
              /\ \E old \in versions[n] : Removed(old, r.id, schedule'[n])

\* An update that changes the schedule; any other is a stuttering step.
Update(n) ==
    /\ schedule'[n] # schedule[n]
    /\ schedule' = [schedule EXCEPT ![n] = schedule'[n]]
    /\ versions' = [versions EXCEPT ![n] = @ \cup {schedule'[n]}]
    /\ Edited(n)

ItemNext == \E n \in Nodes : Update(n)

ItemSpec == ItemInit /\ [][ItemNext]_itemSpecVars

=============================================================================

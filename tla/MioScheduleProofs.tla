------------------------- MODULE MioScheduleProofs -------------------------
(***************************************************************************)
(* Proofs about MioSchedule for any number of clients, nodes, fields and   *)
(* calls, and event lists of any length.                                   *)
(***************************************************************************)
EXTENDS MioSchedule, FiniteSetTheorems, WellFoundedInduction, TLAPS

-----------------------------------------------------------------------------
(***************************************************************************)
(* What the code makes of a list, in terms of the list it was given.  The  *)
(* definitions follow ScheduleItem, but for recurrences, which are         *)
(* compared as they are written, and for new events, which are related to  *)
(* their entries while the merge goes on.                                  *)
(***************************************************************************)

\* A recurrence after the conversion to a stanza and back.
Written(rec) == IF rec = NULL THEN NULL ELSE RecurrenceToStanza(rec)

RecurrenceMerged(events, k, id, old, new) ==
    \/ \E j \in 1..k :
          /\ Promise!SetsRecurrence(events[j], id)
          /\ Written(new) = Written(events[j].recurrence)
          /\ \A l \in (j + 1)..k : ~Promise!SetsRecurrence(events[l], id)
    \/ /\ new = old
       /\ \A l \in 1..k : ~Promise!SetsRecurrence(events[l], id)

\* The entries of the new events among the first k.
AddedParts(old, events, k, list) ==
    /\ Len(list) = Len(old) + Cardinality(NewAmong(old, events, k))
    /\ \A j \in NewAmong(old, events, k) :
          LET added == list[Len(old) + Cardinality(NewAmong(old, events, j))]
          IN  /\ added.field = events[j].field
              /\ Written(added.recurrence) = Written(events[j].recurrence)

MergedParts(old, events, k, new) ==
    /\ Len(new) >= Len(old)
    /\ Len(new) <= Len(old) + k
    /\ Len(new) = Len(old) <=> \A j \in 1..k : events[j].id \in 0..(Len(old) - 1)
    /\ \A i \in 1..Len(old) :
          /\ \A f \in Fields :
                Promise!FieldMerged(events, k, i - 1, f, old[i].field[f], new[i].field[f])
          /\ RecurrenceMerged(events, k, i - 1, old[i].recurrence, new[i].recurrence)
    /\ \A i \in (Len(old) + 1)..Len(new) : \A f \in Fields :
          \/ new[i].field[f] = NULL
          \/ \E j \in 1..k : new[i].field[f] = events[j].field[f]

\* Two new events of one call never meet, or nothing is said of them.
AddedApart(old, events, k, list) ==
    NoCollapse(old, events) => AddedParts(old, events, k, list)

Merged(old, events, new) ==
    /\ MergedParts(old, events, Len(events), new)
    /\ AddedApart(old, events, Len(events), new)
    /\ Promise!Numbered(new)
    /\ \A i \in 1..Len(new) : new[i].recurrence = Written(new[i].recurrence)

Replaced(events, new) ==
    /\ Len(new) = Len(events)
    /\ \A i \in 1..Len(new) :
          new[i] = [id |-> i - 1, field |-> events[i].field,
                    recurrence |-> Written(events[i].recurrence)]

-----------------------------------------------------------------------------
(***************************************************************************)
(* The list functions.                                                     *)
(***************************************************************************)

\* A non-empty set of naturals has a smallest element (First is defined).
LEMMA SmallestElement ==
    ASSUME NEW S \in SUBSET Nat, S # {}
    PROVE  \E i \in S : \A j \in S : i <= j
<1> DEFINE R == OpToRel(<, Nat)
<1>1. IsWellFoundedOn(R, Nat)
  BY NatLessThanWellFounded, Zenon
<1>2. \E x \in S : \A y \in S : ~ (<<y, x>> \in R)
  <2> HIDE DEF R
  <2> QED
    BY <1>1, WFMin, Zenon
<1>3. \A x, y \in Nat : <<y, x>> \in R <=> y < x
  BY DEF OpToRel
<1>4. \E x \in S : \A y \in S : ~(y < x)
  <2> HIDE DEF R
  <2>1. \A x \in S : x \in Nat
    OBVIOUS
  <2> QED
    BY <1>2, <1>3, <2>1, Zenon
<1> QED
  BY <1>4

\* First picks a member of the set.
LEMMA FirstMatch ==
    ASSUME NEW events \in Seq(Event), NEW id \in Int, Matches(events, id) # {}
    PROVE  /\ First(Matches(events, id)) \in 1..Len(events)
           /\ events[First(Matches(events, id))].id = id
<1> DEFINE S == Matches(events, id)
<1>1. S \in SUBSET Nat
  BY DEF Matches
<1>2. \E i \in S : \A j \in S : i <= j
  BY <1>1, SmallestElement
<1>3. First(S) \in S
  BY <1>2 DEF First
<1> QED
  BY <1>3 DEF Matches

\* Events with the same parts are equal, and so are lists of equal events.
LEMMA SameEvent ==
    ASSUME NEW e \in Event, NEW f \in Event,
           e.id = f.id, e.field = f.field, e.recurrence = f.recurrence
    PROVE  e = f
BY DEF Event

LEMMA SameList ==
    ASSUME NEW s \in Seq(Event), NEW t \in Seq(Event), Len(s) = Len(t),
           \A i \in 1..Len(s) : s[i] = t[i]
    PROVE  s = t
<1>1. s \in [1..Len(s) -> Event] /\ t \in [1..Len(t) -> Event]
  OBVIOUS
<1> QED
  BY <1>1

\* _mio_event_renumber changes nothing but the ids, which become positions.
LEMMA RenumberFacts ==
    ASSUME NEW events \in Seq(Event)
    PROVE  /\ Renumber(events) \in Seq(Event)
           /\ Len(Renumber(events)) = Len(events)
           /\ \A i \in 1..Len(events) :
                 /\ Renumber(events)[i].id = i - 1
                 /\ Renumber(events)[i].field = events[i].field
                 /\ Renumber(events)[i].recurrence = events[i].recurrence
<1> DEFINE Num(e, k) == [e EXCEPT !.id = k]
<1>1. \A e \in Event, k \in Int :
         /\ Num(e, k) \in Event
         /\ Num(e, k).id = k
         /\ Num(e, k).field = e.field
         /\ Num(e, k).recurrence = e.recurrence
  BY DEF Event
<1>2. Renumber(events) = [i \in 1..Len(events) |-> Num(events[i], i - 1)]
  BY DEF Renumber
<1>3. \A i \in 1..Len(events) : events[i] \in Event /\ i - 1 \in Int
  OBVIOUS
<1> HIDE DEF Num
<1>4. \A i \in 1..Len(events) :
         /\ Num(events[i], i - 1) \in Event
         /\ Num(events[i], i - 1).id = i - 1
         /\ Num(events[i], i - 1).field = events[i].field
         /\ Num(events[i], i - 1).recurrence = events[i].recurrence
  BY <1>1, <1>3
<1>5. Renumber(events) \in Seq(Event) /\ Len(Renumber(events)) = Len(events)
  BY <1>2, <1>4
<1>6. \A i \in 1..Len(events) : Renumber(events)[i] = Num(events[i], i - 1)
  BY <1>2
<1> QED
  BY <1>4, <1>5, <1>6

\* Numbering a list twice is numbering it once.
LEMMA RenumberTwice ==
    ASSUME NEW events \in Seq(Event)
    PROVE  Renumber(Renumber(events)) = Renumber(events)
<1> DEFINE once == Renumber(events)
           twice == Renumber(once)
<1>1. /\ once \in Seq(Event) /\ Len(once) = Len(events)
      /\ \A i \in 1..Len(events) : once[i].id = i - 1
  BY RenumberFacts
<1>2. /\ twice \in Seq(Event) /\ Len(twice) = Len(events)
      /\ \A i \in 1..Len(events) :
            /\ twice[i].id = i - 1
            /\ twice[i].field = once[i].field
            /\ twice[i].recurrence = once[i].recurrence
  BY <1>1, RenumberFacts
<1> HIDE DEF once, twice
<1>3. \A i \in 1..Len(events) : twice[i] \in Event /\ once[i] \in Event
  BY <1>1, <1>2
<1>4. \A i \in 1..Len(events) : twice[i] = once[i]
  BY <1>1, <1>2, <1>3, SameEvent
<1>5. twice = once
  BY <1>1, <1>2, <1>4, SameList
<1> QED
  BY <1>5 DEF once, twice

\* mio_event_new and the copying of mio_schedule_event_merge build events.
LEMMA OverwriteType ==
    ASSUME NEW curr \in Event, NEW event \in Event
    PROVE  EventOverwrite(curr, event) \in Event
BY DEF EventOverwrite, Event

LEMMA EventNewType == EventNew \in Event
BY DEF EventNew, Event, Texts

\* The conversion to a stanza and back leaves ids and fields alone.
LEMMA ToItemFacts ==
    ASSUME NEW events \in Seq(Event)
    PROVE  /\ ToItem(events) \in Seq(Event)
           /\ Len(ToItem(events)) = Len(events)
           /\ \A i \in 1..Len(events) :
                 /\ ToItem(events)[i].id = events[i].id
                 /\ ToItem(events)[i].field = events[i].field
                 /\ ToItem(events)[i].recurrence = Written(events[i].recurrence)
<1>1. \A i \in 1..Len(events) : events[i] \in Event
  OBVIOUS
<1>2. \A rec \in Recurrence \cup {NULL} :
         /\ (IF rec = NULL THEN NULL ELSE RecurrenceToStanza(rec)) = Written(rec)
         /\ Written(rec) \in Recurrence \cup {NULL}
  BY ScheduleConstants DEF RecurrenceToStanza, Written, Recurrence, Texts
<1> DEFINE Conv(e) == [e EXCEPT !.recurrence = IF @ = NULL THEN NULL ELSE RecurrenceToStanza(@)]
<1>3. \A e \in Event :
         /\ Conv(e) \in Event
         /\ Conv(e).id = e.id
         /\ Conv(e).field = e.field
         /\ Conv(e).recurrence = Written(e.recurrence)
  BY <1>2 DEF Event
<1>4. ToItem(events) = [i \in 1..Len(events) |-> Conv(events[i])]
  BY DEF ToItem
<1> HIDE DEF Conv
<1> QED
  BY <1>1, <1>3, <1>4

\* Writing a recurrence that was read back changes nothing.
LEMMA WrittenTwice ==
    ASSUME NEW rec \in Recurrence \cup {NULL}
    PROVE  Written(Written(rec)) = Written(rec)
BY ScheduleConstants DEF Written, RecurrenceToStanza, Recurrence, Texts

-----------------------------------------------------------------------------
(***************************************************************************)
(* One merge against its declarative description.                          *)
(***************************************************************************)

\* Recurrences as they are read back from an item.
Stable(events) ==
    \A i \in 1..Len(events) :
        events[i].recurrence = Written(events[i].recurrence)

\* The list after k rounds of the loop of mio_schedule_event_merge.
LoopInv(old, events, k, list) ==
    /\ list \in Seq(Event)
    /\ MergedParts(old, events, k, list)
    /\ AddedApart(old, events, k, list)
    /\ \A i \in 1..Len(list) : list[i].id = IF i <= Len(old) THEN i - 1 ELSE -1

LEMMA FieldKept ==
    ASSUME NEW events \in Seq(Event), NEW k \in 0..(Len(events) - 1), NEW id \in Int,
           NEW f \in Fields, NEW o, NEW n,
           Promise!FieldMerged(events, k, id, f, o, n),
           ~Promise!SetsField(events[k + 1], id, f)
    PROVE  Promise!FieldMerged(events, k + 1, id, f, o, n)
BY DEF Promise!FieldMerged

LEMMA FieldSet ==
    ASSUME NEW events \in Seq(Event), NEW k \in 0..(Len(events) - 1), NEW id \in Int,
           NEW f \in Fields, NEW o,
           Promise!SetsField(events[k + 1], id, f)
    PROVE  Promise!FieldMerged(events, k + 1, id, f, o, events[k + 1].field[f])
BY DEF Promise!FieldMerged

LEMMA RecurrenceKept ==
    ASSUME NEW events \in Seq(Event), NEW k \in 0..(Len(events) - 1), NEW id \in Int,
           NEW o, NEW n,
           RecurrenceMerged(events, k, id, o, n),
           ~Promise!SetsRecurrence(events[k + 1], id)
    PROVE  RecurrenceMerged(events, k + 1, id, o, n)
BY DEF RecurrenceMerged

LEMMA RecurrenceSet ==
    ASSUME NEW events \in Seq(Event), NEW k \in 0..(Len(events) - 1), NEW id \in Int,
           NEW o,
           Promise!SetsRecurrence(events[k + 1], id)
    PROVE  RecurrenceMerged(events, k + 1, id, o, events[k + 1].recurrence)
BY DEF RecurrenceMerged

\* An event that the round addresses takes on its parts.
LEMMA PartsTaken ==
    ASSUME NEW events \in Seq(Event), NEW k \in 0..(Len(events) - 1), NEW id \in Int,
           NEW old \in Event, NEW curr \in Event, events[k + 1].id = id,
           \A f \in Fields : Promise!FieldMerged(events, k, id, f, old.field[f], curr.field[f]),
           RecurrenceMerged(events, k, id, old.recurrence, curr.recurrence)
    PROVE  LET new == EventOverwrite(curr, events[k + 1])
           IN  /\ \A f \in Fields :
                     Promise!FieldMerged(events, k + 1, id, f, old.field[f], new.field[f])
               /\ RecurrenceMerged(events, k + 1, id, old.recurrence, new.recurrence)
<1> DEFINE e == events[k + 1]
           new == EventOverwrite(curr, e)
<1>1. ASSUME NEW f \in Fields
      PROVE  Promise!FieldMerged(events, k + 1, id, f, old.field[f], new.field[f])
  <2>1. CASE e.field[f] # NULL
    <3>1. Promise!SetsField(events[k + 1], id, f)
      BY <2>1 DEF Promise!SetsField
    <3>2. new.field[f] = events[k + 1].field[f]
      BY <2>1 DEF EventOverwrite
    <3> QED
      BY <3>1, <3>2, FieldSet
  <2>2. CASE e.field[f] = NULL
    <3>1. ~Promise!SetsField(events[k + 1], id, f)
      BY <2>2 DEF Promise!SetsField
    <3>2. new.field[f] = curr.field[f]
      BY <2>2 DEF EventOverwrite
    <3> QED
      BY <3>1, <3>2, FieldKept
  <2> QED
    BY <2>1, <2>2
<1>2. RecurrenceMerged(events, k + 1, id, old.recurrence, new.recurrence)
  <2>1. CASE e.recurrence # NULL
    <3>1. Promise!SetsRecurrence(events[k + 1], id)
      BY <2>1 DEF Promise!SetsRecurrence
    <3>2. new.recurrence = events[k + 1].recurrence
      BY <2>1 DEF EventOverwrite
    <3> QED
      BY <3>1, <3>2, RecurrenceSet
  <2>2. CASE e.recurrence = NULL
    <3>1. ~Promise!SetsRecurrence(events[k + 1], id)
      BY <2>2 DEF Promise!SetsRecurrence
    <3>2. new.recurrence = curr.recurrence
      BY <2>2 DEF EventOverwrite
    <3> QED
      BY <3>1, <3>2, RecurrenceKept
  <2> QED
    BY <2>1, <2>2
<1> QED
  BY <1>1, <1>2

\* The others keep theirs.
LEMMA PartsKept ==
    ASSUME NEW events \in Seq(Event), NEW k \in 0..(Len(events) - 1), NEW id \in Int,
           NEW old \in Event, NEW curr \in Event, events[k + 1].id # id,
           \A f \in Fields : Promise!FieldMerged(events, k, id, f, old.field[f], curr.field[f]),
           RecurrenceMerged(events, k, id, old.recurrence, curr.recurrence)
    PROVE  /\ \A f \in Fields :
                 Promise!FieldMerged(events, k + 1, id, f, old.field[f], curr.field[f])
           /\ RecurrenceMerged(events, k + 1, id, old.recurrence, curr.recurrence)
<1>1. /\ \A f \in Fields : ~Promise!SetsField(events[k + 1], id, f)
      /\ ~Promise!SetsRecurrence(events[k + 1], id)
  BY DEF Promise!SetsField, Promise!SetsRecurrence
<1> QED
  BY <1>1, FieldKept, RecurrenceKept

\* One round changes one event, or appends one to the list.
LEMMA RoundShape ==
    ASSUME NEW list \in Seq(Event), NEW event \in Event
    PROVE  LET new == EventMerge(list, event)
           IN  /\ new \in Seq(Event)
               /\ \/ /\ Matches(list, event.id) = {}
                     /\ Len(new) = Len(list) + 1
                     /\ \A i \in 1..Len(list) : new[i] = list[i]
                     /\ new[Len(list) + 1] = EventOverwrite(EventNew, event)
                  \/ \E p \in 1..Len(list) :
                        /\ list[p].id = event.id
                        /\ Len(new) = Len(list)
                        /\ \A i \in 1..Len(list) : i # p => new[i] = list[i]
                        /\ new[p] = EventOverwrite(list[p], event)
<1> DEFINE new == EventMerge(list, event)
<1>1. event.id \in Int
  BY DEF Event
<1>2. CASE Matches(list, event.id) = {}
  <2>1. EventOverwrite(EventNew, event) \in Event
    BY OverwriteType, EventNewType
  <2>2. new = Append(list, EventOverwrite(EventNew, event))
    BY <1>2 DEF EventMerge
  <2> HIDE DEF new
  <2> QED
    BY <1>2, <2>1, <2>2 DEF new
<1>3. CASE Matches(list, event.id) # {}
  <2> DEFINE p == First(Matches(list, event.id))
  <2>1. p \in 1..Len(list) /\ list[p].id = event.id
    BY <1>1, <1>3, FirstMatch
  <2>2. list[p] \in Event
    BY <2>1
  <2>3. EventOverwrite(list[p], event) \in Event
    BY <2>2, OverwriteType
  <2>4. new = [list EXCEPT ![p] = EventOverwrite(list[p], event)]
    BY <1>3 DEF EventMerge
  <2> HIDE DEF new, p
  <2>5. /\ new \in Seq(Event) /\ Len(new) = Len(list)
        /\ \A i \in 1..Len(list) : i # p => new[i] = list[i]
        /\ new[p] = EventOverwrite(list[p], event)
    BY <2>1, <2>3, <2>4
  <2> QED
    BY <2>1, <2>5 DEF new
<1> QED
  BY <1>2, <1>3

\* The new events among the first k are counted one by one.
LEMMA NewAmongFacts ==
    ASSUME NEW old \in Seq(Event), NEW events \in Seq(Event), NEW k \in 0..Len(events)
    PROVE  /\ IsFiniteSet(NewAmong(old, events, k))
           /\ Cardinality(NewAmong(old, events, k)) \in Nat
           /\ \A j \in NewAmong(old, events, k) :
                 Cardinality(NewAmong(old, events, j))
                    \in 1..Cardinality(NewAmong(old, events, k))
<1> DEFINE New(i) == NewAmong(old, events, i)
<1>1. \A i \in 0..Len(events) : IsFiniteSet(New(i)) /\ Cardinality(New(i)) \in Nat
  <2> TAKE i \in 0..Len(events)
  <2>1. IsFiniteSet(1..i)
    BY FS_Interval
  <2>2. New(i) \subseteq 1..i
    BY DEF NewAmong
  <2> QED
    BY <2>1, <2>2, FS_Subset, FS_CardinalityType
<1>2. ASSUME NEW j \in New(k)
      PROVE  Cardinality(New(j)) \in 1..Cardinality(New(k))
  <2>1. j \in 1..k /\ j \in New(j) /\ New(j) \subseteq New(k) /\ j \in 0..Len(events)
    BY DEF NewAmong
  <2>2. Cardinality(New(j)) <= Cardinality(New(k))
    BY <1>1, <2>1, FS_Subset
  <2>3. Cardinality(New(j)) # 0
    BY <1>1, <2>1, FS_EmptySet
  <2> QED
    BY <1>1, <2>1, <2>2, <2>3
<1> QED
  BY <1>1, <1>2

\* A new event that cannot be taken for an earlier one is counted and gets the
\* next place; an event of the schedule is not counted.
LEMMA NewAmongNext ==
    ASSUME NEW old \in Seq(Event), NEW events \in Seq(Event), NEW k \in 0..(Len(events) - 1)
    PROVE  IF events[k + 1].id \in 0..(Len(old) - 1)
           THEN NewAmong(old, events, k + 1) = NewAmong(old, events, k)
           ELSE /\ NewAmong(old, events, k + 1)
                     = NewAmong(old, events, k) \cup {k + 1}
                /\ Cardinality(NewAmong(old, events, k + 1))
                     = Cardinality(NewAmong(old, events, k)) + 1
<1> DEFINE New(i) == NewAmong(old, events, i)
<1>1. 1..(k + 1) = (1..k) \cup {k + 1} /\ k + 1 \notin 1..k
  OBVIOUS
<1>2. CASE events[k + 1].id \in 0..(Len(old) - 1)
  BY <1>1, <1>2 DEF NewAmong
<1>3. CASE events[k + 1].id \notin 0..(Len(old) - 1)
  <2>1. New(k + 1) = New(k) \cup {k + 1}
    BY <1>1, <1>3 DEF NewAmong
  <2>2. k + 1 \notin New(k) /\ IsFiniteSet(New(k))
    BY <1>1, NewAmongFacts DEF NewAmong
  <2>3. Cardinality(New(k) \cup {k + 1}) = Cardinality(New(k)) + 1
    BY <2>2, FS_AddElement
  <2> QED
    BY <1>3, <2>1, <2>3
<1> QED
  BY <1>2, <1>3

\* What AddedParts says does not depend on ids, and of recurrences only on how
\* they are written.
LEMMA AddedSame ==
    ASSUME NEW old \in Seq(Event), NEW events \in Seq(Event), NEW k \in 0..Len(events),
           NEW list \in Seq(Event), NEW new \in Seq(Event), Len(new) = Len(list),
           \A i \in 1..Len(list) :
              /\ new[i].field = list[i].field
              /\ Written(new[i].recurrence) = Written(list[i].recurrence),
           AddedParts(old, events, k, list)
    PROVE  AddedParts(old, events, k, new)
<1> DEFINE New(i) == NewAmong(old, events, i)
<1>1. Len(new) = Len(old) + Cardinality(New(k))
  BY DEF AddedParts
<1>2. ASSUME NEW j \in New(k)
      PROVE  LET p == Len(old) + Cardinality(New(j))
             IN  /\ new[p].field = events[j].field
                 /\ Written(new[p].recurrence) = Written(events[j].recurrence)
  <2> DEFINE p == Len(old) + Cardinality(New(j))
  <2>1. Cardinality(New(j)) \in 1..Cardinality(New(k)) /\ Cardinality(New(k)) \in Nat
    BY NewAmongFacts
  <2>2. p \in 1..Len(list)
    BY <1>1, <2>1
  <2>3. /\ list[p].field = events[j].field
        /\ Written(list[p].recurrence) = Written(events[j].recurrence)
    BY DEF AddedParts
  <2> HIDE DEF p
  <2>4. /\ new[p].field = events[j].field
        /\ Written(new[p].recurrence) = Written(events[j].recurrence)
    BY <2>2, <2>3
  <2> QED
    BY <2>4 DEF p
<1> QED
  BY <1>1, <1>2 DEF AddedParts

\* The new events after one more round.
LEMMA AddedStep ==
    ASSUME NEW old \in Seq(Event), NEW events \in Seq(Event),
           NEW k \in 0..(Len(events) - 1), NEW list \in Seq(Event),
           NEW new \in Seq(Event), AddedParts(old, events, k, list),
           Len(new) = Len(list) + 1, \A i \in 1..Len(list) : new[i] = list[i],
           events[k + 1].id \notin 0..(Len(old) - 1),
           new[Len(list) + 1] = EventOverwrite(EventNew, events[k + 1])
    PROVE  AddedParts(old, events, k + 1, new)
<1> DEFINE New(i) == NewAmong(old, events, i)
           e == events[k + 1]
           added == EventOverwrite(EventNew, e)
<1>1. /\ New(k + 1) = New(k) \cup {k + 1} /\ Cardinality(New(k + 1)) = Cardinality(New(k)) + 1
      /\ Cardinality(New(k)) \in Nat
  <2>1. k \in 0..Len(events)
    OBVIOUS
  <2>2. Cardinality(New(k)) \in Nat
    BY <2>1, NewAmongFacts
  <2> HIDE DEF e
  <2>3. /\ New(k + 1) = New(k) \cup {k + 1}
        /\ Cardinality(New(k + 1)) = Cardinality(New(k)) + 1
    BY NewAmongNext
  <2> QED
    BY <2>2, <2>3
<1>2. Len(list) = Len(old) + Cardinality(New(k)) /\ Len(old) \in Nat
  BY DEF AddedParts
<1>3. added.field = e.field /\ added.recurrence = e.recurrence
  <2>1. e \in Event
    OBVIOUS
  <2> QED
    BY <2>1 DEF EventOverwrite, EventNew, Event
<1>4. ASSUME NEW j \in New(k + 1)
      PROVE  LET p == Len(old) + Cardinality(New(j))
             IN  /\ new[p].field = events[j].field
                 /\ Written(new[p].recurrence) = Written(events[j].recurrence)
  <2> DEFINE p == Len(old) + Cardinality(New(j))
  <2>1. CASE j = k + 1
    <3>1. p = Len(list) + 1
      BY <1>1, <1>2, <2>1
    <3> HIDE DEF p, added
    <3>2. new[p] = added /\ events[j] = e
      BY <2>1, <3>1 DEF added
    <3> HIDE DEF e
    <3> QED
      BY <1>3, <3>2 DEF p
  <2>2. CASE j \in New(k)
    <3>1. Cardinality(New(j)) \in 1..Cardinality(New(k))
      <4>1. k \in 0..Len(events)
        OBVIOUS
      <4> QED
        BY <2>2, <4>1, NewAmongFacts
    <3>2. p \in 1..Len(list)
      BY <1>1, <1>2, <3>1
    <3>3. /\ list[p].field = events[j].field
          /\ Written(list[p].recurrence) = Written(events[j].recurrence)
      BY <2>2 DEF AddedParts
    <3> HIDE DEF p
    <3>4. new[p] = list[p]
      BY <3>2
    <3> QED
      BY <3>3, <3>4 DEF p
  <2> QED
    BY <1>1, <2>1, <2>2
<1>5. Len(new) = Len(old) + Cardinality(New(k + 1))
  BY <1>1, <1>2
<1> QED
  BY <1>4, <1>5 DEF AddedParts

LEMMA AddedKept ==
    ASSUME NEW old \in Seq(Event), NEW events \in Seq(Event),
           NEW k \in 0..(Len(events) - 1), NEW list \in Seq(Event),
           NEW new \in Seq(Event), AddedParts(old, events, k, list),
           Len(new) = Len(list), \A i \in (Len(old) + 1)..Len(list) : new[i] = list[i],
           events[k + 1].id \in 0..(Len(old) - 1)
    PROVE  AddedParts(old, events, k + 1, new)
<1> DEFINE New(i) == NewAmong(old, events, i)
<1>1. New(k + 1) = New(k) /\ Cardinality(New(k)) \in Nat
  <2>1. k \in 0..Len(events)
    OBVIOUS
  <2> QED
    BY <2>1, NewAmongNext, NewAmongFacts
<1>2. Len(list) = Len(old) + Cardinality(New(k)) /\ Len(old) \in Nat
  BY DEF AddedParts
<1>3. ASSUME NEW j \in New(k)
      PROVE  LET p == Len(old) + Cardinality(New(j))
             IN  /\ new[p].field = events[j].field
                 /\ Written(new[p].recurrence) = Written(events[j].recurrence)
  <2> DEFINE p == Len(old) + Cardinality(New(j))
  <2>1. Cardinality(New(j)) \in 1..Cardinality(New(k))
    <3>1. k \in 0..Len(events)
      OBVIOUS
    <3> QED
      BY <3>1, NewAmongFacts
  <2>2. p \in (Len(old) + 1)..Len(list)
    BY <1>1, <1>2, <2>1
  <2>3. /\ list[p].field = events[j].field
        /\ Written(list[p].recurrence) = Written(events[j].recurrence)
    BY DEF AddedParts
  <2> HIDE DEF p
  <2>4. new[p] = list[p]
    BY <2>2
  <2> QED
    BY <2>3, <2>4 DEF p
<1> QED
  BY <1>1, <1>2, <1>3 DEF AddedParts

\* The parts of the events that were in the schedule, after one more round.
LEMMA MergeStep ==
    ASSUME NEW old \in Seq(Event), NEW events \in Seq(Event),
           NEW k \in 0..(Len(events) - 1), NEW list, LoopInv(old, events, k, list)
    PROVE  LoopInv(old, events, k + 1, EventMerge(list, events[k + 1]))
<1> DEFINE e == events[k + 1]
           new == EventMerge(list, e)
           m == Len(old)
           Slot(i, kk, x) ==
               /\ \A f \in Fields :
                     Promise!FieldMerged(events, kk, i - 1, f, old[i].field[f], x.field[f])
               /\ RecurrenceMerged(events, kk, i - 1, old[i].recurrence, x.recurrence)
           Extra(kk, x) == \A f \in Fields :
               x.field[f] = NULL \/ \E j \in 1..kk : x.field[f] = events[j].field[f]
<1>1. e \in Event /\ e.id \in Int /\ k + 1 \in 1..Len(events) /\ m \in Nat
  <2>1. k + 1 \in 1..Len(events) /\ m \in Nat
    OBVIOUS
  <2>2. e \in Event
    BY <2>1
  <2> QED
    BY <2>1, <2>2 DEF Event
<1>2. /\ list \in Seq(Event)
      /\ \A i \in 1..Len(list) : list[i].id = IF i <= m THEN i - 1 ELSE -1
      /\ Len(list) >= m /\ Len(list) <= m + k
      /\ Len(list) = m <=> \A j \in 1..k : events[j].id \in 0..(m - 1)
      /\ \A i \in 1..m : Slot(i, k, list[i])
      /\ \A i \in (m + 1)..Len(list) : Extra(k, list[i])
  BY DEF LoopInv, MergedParts
<1>13. NoCollapse(old, events) => AddedParts(old, events, k, list)
  BY DEF LoopInv, AddedApart
<1>3. ASSUME NEW i \in 1..m, e.id # i - 1, Slot(i, k, list[i])
      PROVE  Slot(i, k + 1, list[i])
  <2>1. i - 1 \in Int /\ old[i] \in Event /\ list[i] \in Event
    BY <1>2
  <2> QED
    BY <1>3, <2>1, PartsKept
<1>4. ASSUME NEW i \in 1..m, e.id = i - 1, Slot(i, k, list[i])
      PROVE  Slot(i, k + 1, EventOverwrite(list[i], e))
  <2>1. i - 1 \in Int /\ old[i] \in Event /\ list[i] \in Event
    BY <1>2
  <2> QED
    BY <1>4, <2>1, PartsTaken
<1>5. ASSUME NEW x, Extra(k, x)
      PROVE  Extra(k + 1, x)
  BY <1>5
<1>6. ASSUME NEW x \in Event, Extra(k, x)
      PROVE  Extra(k + 1, EventOverwrite(x, e))
  BY <1>6 DEF EventOverwrite
<1>7. Extra(k, EventNew)
  BY DEF EventNew
<1>8. \A x : EventOverwrite(x, e).id = x.id
  BY DEF EventOverwrite
<1>9. EventNew.id = -1
  BY DEF EventNew
<1>10. new \in Seq(Event)
  BY <1>1, <1>2, RoundShape
<1> HIDE DEF Slot, Extra
<1>11. CASE /\ Matches(list, e.id) = {}
            /\ Len(new) = Len(list) + 1
            /\ \A i \in 1..Len(list) : new[i] = list[i]
            /\ new[Len(list) + 1] = EventOverwrite(EventNew, e)
  <2> HIDE DEF new, e
  <2>1. e.id \notin 0..(m - 1)
    <3> SUFFICES ASSUME e.id \in 0..(m - 1) PROVE FALSE
      OBVIOUS
    <3>0. Len(list) \in Nat /\ e.id + 1 \in 1..Len(list) /\ e.id + 1 <= m
      BY <1>1, <1>2
    <3>1. e.id + 1 \in 1..Len(list) /\ list[e.id + 1].id = e.id
      BY <1>1, <1>2, <3>0
    <3> QED
      BY <1>11, <3>1 DEF Matches
  <2>2. \A i \in 1..m : Slot(i, k + 1, new[i])
    BY <1>1, <1>2, <1>3, <1>11, <2>1, SMTT(20)
  <2>3. \A i \in (m + 1)..Len(new) : Extra(k + 1, new[i])
    <3> TAKE i \in (m + 1)..Len(new)
    <3>1. CASE i <= Len(list)
      BY <1>1, <1>2, <1>5, <1>11, <3>1
    <3>2. CASE i = Len(list) + 1
      BY <1>6, <1>7, <1>11, <3>2, EventNewType
    <3> QED
      BY <1>2, <1>11, <3>1, <3>2
  <2>4. \A i \in 1..Len(new) : new[i].id = IF i <= m THEN i - 1 ELSE -1
    <3> TAKE i \in 1..Len(new)
    <3>1. CASE i <= Len(list)
      BY <1>1, <1>2, <1>11, <3>1, SMTT(20)
    <3>2. CASE i = Len(list) + 1
      BY <1>2, <1>8, <1>9, <1>11, <3>2
    <3> QED
      BY <1>2, <1>11, <3>1, <3>2
  <2>5. /\ Len(new) >= m /\ Len(new) <= m + (k + 1)
        /\ Len(new) = m <=> \A j \in 1..(k + 1) : events[j].id \in 0..(m - 1)
    BY <1>1, <1>2, <1>11, <2>1 DEF e
  <2>6. AddedApart(old, events, k + 1, new)
    BY <1>2, <1>10, <1>11, <1>13, <2>1, AddedStep DEF AddedApart, e, new
  <2> QED
    <3>1. MergedParts(old, events, k + 1, new)
      BY <2>2, <2>3, <2>5 DEF MergedParts, Slot, Extra
    <3> QED
      BY <1>10, <2>4, <2>6, <3>1 DEF LoopInv, new, e
<1>12. ASSUME NEW p \in 1..Len(list), list[p].id = e.id, Len(new) = Len(list),
              \A i \in 1..Len(list) : i # p => new[i] = list[i],
              new[p] = EventOverwrite(list[p], e)
       PROVE  LoopInv(old, events, k + 1, new)
  <2> HIDE DEF new, e
  <2>1. e.id = IF p <= m THEN p - 1 ELSE -1
    BY <1>2, <1>12
  <2>2. \A i \in 1..m : Slot(i, k + 1, new[i])
    <3> TAKE i \in 1..m
    <3>1. CASE i = p
      BY <1>1, <1>2, <1>4, <1>12, <2>1, <3>1
    <3>2. CASE i # p
      BY <1>1, <1>2, <1>3, <1>12, <2>1, <3>2
    <3> QED
      BY <3>1, <3>2
  <2>3. \A i \in (m + 1)..Len(new) : Extra(k + 1, new[i])
    <3> TAKE i \in (m + 1)..Len(new)
    <3>0. i \in 1..Len(list) /\ list[i] \in Event /\ Extra(k, list[i])
      BY <1>1, <1>2, <1>12
    <3>1. CASE i = p
      BY <1>6, <1>12, <3>0, <3>1
    <3>2. CASE i # p
      BY <1>5, <1>12, <3>0, <3>2
    <3> QED
      BY <3>1, <3>2
  <2>4. \A i \in 1..Len(new) : new[i].id = IF i <= m THEN i - 1 ELSE -1
    BY <1>2, <1>8, <1>12, SMTT(20)
  <2>5. /\ Len(new) >= m /\ Len(new) <= m + (k + 1)
        /\ Len(new) = m <=> \A j \in 1..(k + 1) : events[j].id \in 0..(m - 1)
    <3>1. p <= m => e.id \in 0..(m - 1)
      BY <1>1, <2>1
    <3>2. p > m => Len(list) # m /\ e.id \notin 0..(m - 1)
      BY <1>1, <1>2, <2>1
    <3>3. Len(new) >= m /\ Len(new) <= m + (k + 1)
      BY <1>1, <1>2, <1>12
    <3>4. (\A j \in 1..(k + 1) : events[j].id \in 0..(m - 1))
             <=> e.id \in 0..(m - 1) /\ \A j \in 1..k : events[j].id \in 0..(m - 1)
      BY DEF e
    <3>5. p <= m \/ p > m
      BY <1>1
    <3> QED
      BY <1>2, <1>12, <3>1, <3>2, <3>3, <3>4, <3>5
  <2>6. ASSUME NoCollapse(old, events)
        PROVE  AddedParts(old, events, k + 1, new)
    <3>1. p <= m
      <4> SUFFICES ASSUME p > m PROVE FALSE
        BY <1>1
      <4>1. e.id = -1 /\ Len(list) # m
        BY <1>1, <1>2, <2>1
      <4>2. NewAmong(old, events, k) = {}
        BY <1>1, <2>6, <4>1 DEF NoCollapse, e
      <4>3. \A j \in 1..k : events[j].id \in 0..(m - 1)
        BY <4>2 DEF NewAmong
      <4> QED
        BY <1>2, <4>1, <4>3
    <3>2. e.id \in 0..(m - 1)
      BY <1>1, <2>1, <3>1
    <3>3. \A i \in (m + 1)..Len(list) : new[i] = list[i]
      BY <1>1, <1>12, <3>1
    <3> QED
      BY <1>2, <1>10, <1>12, <1>13, <2>6, <3>2, <3>3, AddedKept DEF e, new
  <2> QED
    <3>1. MergedParts(old, events, k + 1, new)
      BY <2>2, <2>3, <2>5 DEF MergedParts, Slot, Extra
    <3>2. AddedApart(old, events, k + 1, new)
      BY <2>6 DEF AddedApart
    <3> QED
      BY <1>10, <2>4, <3>1, <3>2 DEF LoopInv, new, e
<1> QED
  BY <1>1, <1>2, <1>11, <1>12, RoundShape

-----------------------------------------------------------------------------
(***************************************************************************)
(* Types.                                                                  *)
(***************************************************************************)

\* What a client runs is one of the calls, or a repetition of one.
CallInv ==
    \A c \in Clients : pc[c] # "idle" \/ ret[c] # "none" => call[c] \in CallsAndRepeats

LEMMA CallFacts ==
    ASSUME NEW r \in CallsAndRepeats
    PROVE  /\ r \in Call /\ r.node \in Nodes /\ r.op \in {"merge", "remove"}
           /\ r.op = "merge" => r.events # <<>>
           /\ r.events \in Seq(Event)
           /\ r.id \in Int
<1>1. \A q \in Calls : /\ q \in Call /\ q.node \in Nodes /\ q.op \in {"merge", "remove"}
                       /\ q.op = "merge" => q.events # <<>>
                       /\ q.events \in Seq(Event)
                       /\ q.id \in Int
  <2> TAKE q \in Calls
  <2>0. CallOK(q)
    BY ScheduleConstants
  <2>1. CASE q \in [op : {"merge"}, node : Nodes, events : Seq(Event) \ {<<>>}, id : {0}]
    BY <2>1 DEF Call
  <2>2. CASE q \in [op : {"remove"}, node : Nodes, events : {<<>>}, id : Int]
    <3>1. q.events = <<>> /\ q.op = "remove" /\ q.id \in Int /\ q.node \in Nodes
      BY <2>2
    <3>2. <<>> \in Seq(Event)
      OBVIOUS
    <3> QED
      BY <2>2, <3>1, <3>2 DEF Call
  <2> QED
    BY <2>0, <2>1, <2>2 DEF CallOK
<1>2. CASE r \in Calls
  BY <1>1, <1>2
<1>3. ASSUME NEW q \in Calls, r = [q EXCEPT !.events = Renumber(q.events)]
      PROVE  /\ r \in Call /\ r.node \in Nodes /\ r.op \in {"merge", "remove"}
             /\ r.op = "merge" => r.events # <<>>
             /\ r.events \in Seq(Event)
             /\ r.id \in Int
  <2>1. q \in Call /\ q.node \in Nodes /\ q.op \in {"merge", "remove"}
        /\ (q.op = "merge" => q.events # <<>>) /\ q.events \in Seq(Event) /\ q.id \in Int
    BY <1>1
  <2> DEFINE new == Renumber(q.events)
  <2>2. new \in Seq(Event) /\ Len(new) = Len(q.events)
    BY <2>1, RenumberFacts
  <2> HIDE DEF new
  <2>3. q.events # <<>> => new # <<>>
    BY <2>1, <2>2
  <2>4. r = [q EXCEPT !.events = new]
    BY <1>3 DEF new
  <2>5. r.op = q.op /\ r.node = q.node /\ r.id = q.id /\ r.events = new /\ r \in Call
    BY <2>1, <2>2, <2>4 DEF Call
  <2> QED
    BY <2>1, <2>2, <2>3, <2>5
<1> QED
  BY <1>2, <1>3 DEF CallsAndRepeats

\* Numbering the caller's events makes a repetition of the call.
LEMMA NumberedCall ==
    ASSUME NEW r \in CallsAndRepeats
    PROVE  [r EXCEPT !.events = Renumber(r.events)] \in CallsAndRepeats
<1>1. CASE r \in Calls
  BY <1>1 DEF CallsAndRepeats
<1>2. ASSUME NEW q \in Calls, r = [q EXCEPT !.events = Renumber(q.events)]
      PROVE  [r EXCEPT !.events = Renumber(r.events)] \in CallsAndRepeats
  <2>1. q \in CallsAndRepeats
    BY DEF CallsAndRepeats
  <2>2. q \in Call /\ q.events \in Seq(Event)
    BY <2>1, CallFacts
  <2>3. Renumber(Renumber(q.events)) = Renumber(q.events)
    BY <2>2, RenumberTwice
  <2>4. r.events = Renumber(q.events)
    BY <1>2, <2>2 DEF Call
  <2>5. [r EXCEPT !.events = Renumber(r.events)] = r
    BY <1>2, <2>2, <2>3, <2>4 DEF Call
  <2> QED
    BY <2>5
<1> QED
  BY <1>1, <1>2 DEF CallsAndRepeats

LEMMA EventRemoveType ==
    ASSUME NEW events \in Seq(Event), NEW id \in Int
    PROVE  EventRemove(events, id) \in Seq(Event)
<1>1. CASE Matches(events, id) = {}
  BY <1>1, RenumberFacts DEF EventRemove
<1>2. CASE Matches(events, id) # {}
  <2> DEFINE i == First(Matches(events, id))
  <2>1. i \in 1..Len(events)
    BY <1>2, FirstMatch
  <2> HIDE DEF i
  <2>2. SubSeq(events, 1, i - 1) \in Seq(Event) /\ SubSeq(events, i + 1, Len(events)) \in Seq(Event)
    BY <2>1
  <2>3. Without(events, i) \in Seq(Event)
    BY <2>2 DEF Without
  <2> QED
    BY <1>2, <2>3, RenumberFacts DEF EventRemove, i
<1> QED
  BY <1>1, <1>2

LEMMA TypeInit == SchedInit => SchedTypeOK /\ CallInv
<1> SUFFICES ASSUME SchedInit PROVE SchedTypeOK /\ CallInv
  OBVIOUS
<1>1. NoCall \in Call /\ NoBase \in Base /\ Nothing \in Source
  BY DEF NoCall, NoBase, Nothing, Call, Base, Source
<1>2. \A n \in Nodes : {<<>>} \in SUBSET Seq(Event)
  OBVIOUS
<1> QED
  BY <1>1, <1>2, ScheduleConstants DEF SchedInit, SchedTypeOK, CallInv, Answers

\* The type invariant is inductive, action by action.
LEMMA TypeNext ==
    ASSUME SchedTypeOK, CallInv, [SchedNext]_schedVars
    PROVE  SchedTypeOK' /\ CallInv'
<1> USE DEF Answers
<1>1. ASSUME NEW c \in Clients, NEW r \in CallsAndRepeats, NewCall(c, r)
      PROVE  SchedTypeOK' /\ CallInv'
  <2>1. r \in Call
    BY CallFacts
  <2> QED
    BY <1>1, <2>1, ScheduleConstants DEF SchedTypeOK, CallInv, NewCall, itemVars
<1>2. ASSUME NEW c \in Clients, RetryCall(c)
      PROVE  SchedTypeOK' /\ CallInv'
  BY <1>1, <1>2 DEF RetryCall, CallInv
<1>3. ASSUME NEW c \in Clients, NEW err, Return(c, err), pc[c] # "idle",
             err \in {"ok", "error", "timeout", "disconnected", "unexpected_response"}
      PROVE  SchedTypeOK' /\ CallInv'
  <2>1. NoBase \in Base /\ <<>> \in Seq(Event)
    BY DEF NoBase, Base
  <2> QED
    BY <1>3, <2>1 DEF SchedTypeOK, CallInv, Return, itemVars
<1>4. ASSUME NEW c \in Clients, NEW from \in {"query", "none"}, TakeOwnEvents(c, from),
             pc[c] = "query", UNCHANGED <<itemVars, ret, calls, versions, stored>>
      PROVE  SchedTypeOK' /\ CallInv'
  <2> DEFINE own == Renumber(call[c].events)
             new == [call[c] EXCEPT !.events = own]
  <2>1. call[c] \in CallsAndRepeats
    BY <1>4 DEF CallInv
  <2>2. own \in Seq(Event)
    BY <2>1, CallFacts, RenumberFacts
  <2>3. new \in CallsAndRepeats
    BY <2>1, NumberedCall
  <2>4. new \in Call
    BY <2>3, CallFacts
  <2>5. call' = [call EXCEPT ![c] = new]
    BY <1>4 DEF TakeOwnEvents, SchedTypeOK
  <2>6. work' = [work EXCEPT ![c] = own] /\ pc' = [pc EXCEPT ![c] = "publish"]
        /\ next' = next /\ base' = [base EXCEPT ![c] = [from |-> from, events |-> <<>>]]
    BY <1>4 DEF TakeOwnEvents
  <2>7. [from |-> from, events |-> <<>>] \in Base
    BY DEF Base
  <2> HIDE DEF own, new
  <2>8. SchedTypeOK'
    BY <1>4, <2>2, <2>4, <2>5, <2>6, <2>7 DEF SchedTypeOK, itemVars
  <2> QED
    BY <1>4, <2>3, <2>5, <2>6, <2>8 DEF SchedTypeOK, CallInv
<1>5. ASSUME NEW c \in Clients, MergeQueried(c)
      PROVE  SchedTypeOK' /\ CallInv'
  <2>1. CASE TakeOwnEvents(c, "query")
    BY <1>4, <1>5, <2>1 DEF MergeQueried
  <2>2. CASE ~TakeOwnEvents(c, "query")
    <3> DEFINE events == item[call[c].node]
    <3>1. events \in Seq(Event)
      BY <1>5, CallFacts DEF MergeQueried, CallInv, SchedTypeOK
    <3>2. [from |-> "query", events |-> events] \in Base
      BY <3>1 DEF Base
    <3>3. /\ work' = [work EXCEPT ![c] = events]
          /\ base' = [base EXCEPT ![c] = [from |-> "query", events |-> events]]
          /\ next' = [next EXCEPT ![c] = 1]
          /\ pc' = [pc EXCEPT ![c] = "merge"]
          /\ pc[c] = "query"
          /\ UNCHANGED <<itemVars, call, ret, calls, versions, stored>>
      BY <1>5, <2>2 DEF MergeQueried
    <3> HIDE DEF events
    <3> QED
      BY <3>1, <3>2, <3>3 DEF SchedTypeOK, CallInv, itemVars
  <2> QED
    BY <2>1, <2>2
<1>6. ASSUME NEW c \in Clients, MergeUnanswered(c)
      PROVE  SchedTypeOK' /\ CallInv'
  BY <1>4, <1>6 DEF MergeUnanswered
<1>7. ASSUME NEW c \in Clients, MergeEvent(c)
      PROVE  SchedTypeOK' /\ CallInv'
  <2> DEFINE new == EventMerge(work[c], call[c].events[next[c]])
  <2>1. call[c].events \in Seq(Event) /\ next[c] \in 1..Len(call[c].events)
    BY <1>7 DEF SchedTypeOK, Call, MergeEvent
  <2>2. call[c].events[next[c]] \in Event /\ work[c] \in Seq(Event)
    BY <2>1 DEF SchedTypeOK
  <2>3. new \in Seq(Event)
    BY <2>2, RoundShape
  <2>4. /\ work' = [work EXCEPT ![c] = new]
        /\ next' = [next EXCEPT ![c] = next[c] + 1]
        /\ UNCHANGED <<itemVars, pc, call, base, ret, calls, versions, stored>>
    BY <1>7 DEF MergeEvent
  <2> HIDE DEF new
  <2> QED
    BY <2>3, <2>4 DEF SchedTypeOK, CallInv, itemVars
<1>8. ASSUME NEW c \in Clients, MergeEnd(c)
      PROVE  SchedTypeOK' /\ CallInv'
  <2>1. Renumber(work[c]) \in Seq(Event)
    BY RenumberFacts DEF SchedTypeOK
  <2> QED
    BY <1>8, <2>1 DEF SchedTypeOK, CallInv, MergeEnd, itemVars
<1>9. ASSUME NEW c \in Clients, RemoveQueried(c)
      PROVE  SchedTypeOK' /\ CallInv'
  <2> DEFINE events == item[call[c].node]
             new == EventRemove(events, call[c].id)
  <2>1. events \in Seq(Event) /\ call[c].id \in Int
    BY <1>9, CallFacts DEF RemoveQueried, CallInv, SchedTypeOK
  <2>2. new \in Seq(Event) /\ [from |-> "query", events |-> events] \in Base
    BY <2>1, EventRemoveType DEF Base
  <2>3. /\ work' = [work EXCEPT ![c] = new]
        /\ base' = [base EXCEPT ![c] = [from |-> "query", events |-> events]]
        /\ pc' = [pc EXCEPT ![c] = "publish"]
        /\ pc[c] = "query"
        /\ UNCHANGED <<itemVars, call, next, ret, calls, versions, stored>>
    BY <1>9 DEF RemoveQueried
  <2> HIDE DEF new, events
  <2> QED
    BY <2>2, <2>3 DEF SchedTypeOK, CallInv, itemVars
<1>10. ASSUME NEW c \in Clients, Publish(c)
       PROVE  SchedTypeOK' /\ CallInv'
  <2> DEFINE p == [node |-> call[c].node, value |-> ToItem(work[c]),
                   by |-> [call |-> call[c], base |-> base[c]]]
  <2>1. call[c].node \in Nodes
    BY <1>10, CallFacts DEF Publish, CallInv
  <2>2. ToItem(work[c]) \in Seq(Event)
    BY ToItemFacts DEF SchedTypeOK
  <2>3. p \in Publication
    BY <2>1, <2>2 DEF SchedTypeOK, Publication, Source
  <2>4. /\ sent' = [sent EXCEPT ![c] = Append(sent[c], p)]
        /\ answer' = [answer EXCEPT ![c] = "none"]
        /\ pc' = [pc EXCEPT ![c] = "await"]
        /\ pc[c] = "publish"
        /\ UNCHANGED <<item, call, base, work, next, ret, calls, versions, stored>>
    BY <1>10 DEF Publish, ItemPublish
  <2> HIDE DEF p
  <2>5. sent' \in [Clients -> Seq(Publication)]
    BY <2>3, <2>4 DEF SchedTypeOK
  <2> QED
    BY <2>4, <2>5 DEF SchedTypeOK, CallInv
<1>11. ASSUME NEW c \in Clients, PublishCrash(c)
       PROVE  SchedTypeOK' /\ CallInv'
  BY <1>11 DEF SchedTypeOK, CallInv, PublishCrash, itemVars
<1>12. ASSUME NEW c \in Clients,
              RemoveUnanswered(c) \/ PublishDisconnected(c) \/ PublishAnswered(c) \/ PublishTimeout(c)
       PROVE  SchedTypeOK' /\ CallInv'
  BY <1>3, <1>12 DEF RemoveUnanswered, PublishDisconnected, PublishAnswered, PublishTimeout,
                     SchedTypeOK
<1>13. ASSUME NEW c \in Clients, ServerStoreSchedule(c)
       PROVE  SchedTypeOK' /\ CallInv'
  <2> DEFINE p == Head(sent[c])
  <2>1. p \in Publication /\ Tail(sent[c]) \in Seq(Publication)
    BY <1>13 DEF ServerStoreSchedule, ServerStore, SchedTypeOK
  <2>2. p.node \in Nodes /\ p.value \in Seq(Event) /\ p.by \in Source
    BY <2>1 DEF Publication
  <2>3. /\ item' = [item EXCEPT ![p.node] = p.value]
        /\ sent' = [sent EXCEPT ![c] = Tail(sent[c])]
        /\ answer' \in {answer, [answer EXCEPT ![c] = "ok"]}
        /\ versions' = [versions EXCEPT ![p.node] = versions[p.node] \cup {p.value}]
        /\ stored' = [stored EXCEPT ![p.node] = p.by]
        /\ UNCHANGED clientVars
    BY <1>13 DEF ServerStoreSchedule, ServerStore, AnswerLast
  <2> HIDE DEF p
  <2>4. versions' \in [Nodes -> SUBSET Seq(Event)]
    BY <2>2, <2>3 DEF SchedTypeOK
  <2> QED
    BY <2>1, <2>2, <2>3, <2>4 DEF SchedTypeOK, CallInv, clientVars
<1>14. ASSUME NEW c \in Clients, NetworkFails(c)
       PROVE  SchedTypeOK' /\ CallInv'
  <2>1. /\ sent' \in {[sent EXCEPT ![c] = Tail(sent[c])], [sent EXCEPT ![c] = <<>>]}
        /\ answer' \in {answer, [answer EXCEPT ![c] = "error"]}
        /\ sent[c] # <<>>
        /\ UNCHANGED <<item, clientVars, versions, stored>>
    BY <1>14 DEF NetworkFails, ServerRefuse, LinkLost, AnswerLast
  <2>2. Tail(sent[c]) \in Seq(Publication) /\ <<>> \in Seq(Publication)
    BY <2>1 DEF SchedTypeOK
  <2>3. sent' \in [Clients -> Seq(Publication)]
    BY <2>1, <2>2 DEF SchedTypeOK
  <2>4. answer' \in [Clients -> Answers]
    BY <2>1 DEF SchedTypeOK
  <2> QED
    BY <2>1, <2>3, <2>4 DEF SchedTypeOK, CallInv, clientVars
<1>15. CASE UNCHANGED schedVars
  BY <1>15 DEF SchedTypeOK, CallInv, schedVars, itemVars, clientVars
<1>16. ASSUME NEW c \in Clients, NEW r \in Calls, NewCall(c, r)
       PROVE  SchedTypeOK' /\ CallInv'
  BY <1>1, <1>16 DEF CallsAndRepeats
<1> QED
  BY <1>2, <1>5, <1>6, <1>7, <1>8, <1>9, <1>10, <1>11, <1>12, <1>13, <1>14, <1>15, <1>16
     DEF SchedNext, ClientStep

\* Every variable keeps its type: lists hold events, a publication names a
\* node, and a client that runs or repeats a call has one.
THEOREM SchedTypeCorrect == SchedSpec => []SchedTypeOK
<1>1. SchedInit => SchedTypeOK /\ CallInv
  BY TypeInit
<1>2. SchedTypeOK /\ CallInv /\ [SchedNext]_schedVars => SchedTypeOK' /\ CallInv'
  BY TypeNext
<1> QED
  BY <1>1, <1>2, PTL DEF SchedSpec

-----------------------------------------------------------------------------
(***************************************************************************)
(* What a client publishes is one edit of what its query returned.         *)
(***************************************************************************)

\* A value the item can have.
GoodItem(v) == v \in Seq(Event) /\ Promise!Numbered(v) /\ Stable(v)

\* The list w that call r has made of b when it is about to publish.
WorkOf(r, b, w) ==
    /\ Promise!Numbered(w)
    /\ \/ r.op = "merge" /\ b.events = <<>> /\ w = r.events
       \/ /\ r.op = "merge" /\ b.events # <<>> /\ b.from = "query"
          /\ MergedParts(b.events, r.events, Len(r.events), w)
          /\ AddedApart(b.events, r.events, Len(r.events), w)
       \/ r.op = "remove" /\ b.from = "query" /\ w = EventRemove(b.events, r.id)

\* The value v that it publishes.
ResultOf(r, b, v) ==
    \/ r.op = "merge" /\ b.events = <<>> /\ Replaced(r.events, v)
    \/ /\ r.op = "merge" /\ b.events # <<>> /\ b.from = "query"
       /\ Merged(b.events, r.events, v)
    \/ r.op = "remove" /\ b.from = "query" /\ Promise!Removed(b.events, r.id, v)

LEMMA EmptyIsGood == GoodItem(<<>>)
BY DEF GoodItem, Stable, Promise!Numbered

LEMMA WrittenItem ==
    ASSUME NEW w \in Seq(Event), Promise!Numbered(w)
    PROVE  GoodItem(ToItem(w))
<1> DEFINE v == ToItem(w)
<1>1. /\ v \in Seq(Event) /\ Len(v) = Len(w)
      /\ \A i \in 1..Len(w) : /\ v[i].id = w[i].id
                              /\ v[i].recurrence = Written(w[i].recurrence)
  BY ToItemFacts
<1>2. \A i \in 1..Len(w) : w[i].recurrence \in Recurrence \cup {NULL}
  <2>1. \A i \in 1..Len(w) : w[i] \in Event
    OBVIOUS
  <2> QED
    BY <2>1 DEF Event
<1>3. \A i \in 1..Len(w) : Written(Written(w[i].recurrence)) = Written(w[i].recurrence)
  BY <1>2, WrittenTwice
<1> HIDE DEF v
<1>4. Stable(v)
  BY <1>1, <1>3 DEF Stable
<1>5. Promise!Numbered(v)
  BY <1>1 DEF Promise!Numbered
<1> QED
  BY <1>1, <1>4, <1>5 DEF GoodItem, v

\* The conversion to a stanza turns the merged list into what is promised.
LEMMA MergedItem ==
    ASSUME NEW old, GoodItem(old), NEW events \in Seq(Event), NEW w \in Seq(Event),
           Promise!Numbered(w), MergedParts(old, events, Len(events), w),
           AddedApart(old, events, Len(events), w)
    PROVE  Merged(old, events, ToItem(w))
<1> DEFINE v == ToItem(w)
           k == Len(events)
<1>1. GoodItem(v)
  BY WrittenItem
<1>2. /\ v \in Seq(Event) /\ Len(v) = Len(w)
      /\ \A i \in 1..Len(w) : /\ v[i].field = w[i].field
                              /\ v[i].recurrence = Written(w[i].recurrence)
  BY ToItemFacts
<1>3. Len(w) >= Len(old) /\ old \in Seq(Event) /\ Len(w) \in Nat /\ Len(old) \in Nat
  BY DEF MergedParts, GoodItem
<1>4. \A i \in 1..Len(old) : w[i].recurrence \in Recurrence \cup {NULL}
  <2>1. \A i \in 1..Len(old) : w[i] \in Event
    BY <1>3
  <2> QED
    BY <2>1 DEF Event
<1>5. \A i \in 1..Len(old) : old[i].recurrence = Written(old[i].recurrence)
  BY DEF GoodItem, Stable
<1>6. \A i \in 1..Len(old) :
         RecurrenceMerged(events, k, i - 1, old[i].recurrence, v[i].recurrence)
  <2> TAKE i \in 1..Len(old)
  <2>1. RecurrenceMerged(events, k, i - 1, old[i].recurrence, w[i].recurrence)
    BY DEF MergedParts
  <2>2. v[i].recurrence = Written(w[i].recurrence)
    BY <1>2, <1>3
  <2>3. Written(v[i].recurrence) = Written(w[i].recurrence)
    BY <1>4, <2>2, WrittenTwice
  <2>4. w[i].recurrence = old[i].recurrence => v[i].recurrence = old[i].recurrence
    BY <1>5, <2>2
  <2> QED
    BY <2>1, <2>3, <2>4 DEF RecurrenceMerged
<1> HIDE DEF v, k
<1>7. \A i \in 1..Len(old) : \A f \in Fields :
         Promise!FieldMerged(events, k, i - 1, f, old[i].field[f], v[i].field[f])
  BY <1>2, <1>3, SMTT(20) DEF MergedParts, k
<1>8. \A i \in (Len(old) + 1)..Len(v) : \A f \in Fields :
         v[i].field[f] = NULL \/ \E j \in 1..k : v[i].field[f] = events[j].field[f]
  BY <1>2, <1>3 DEF MergedParts, k
<1>9. MergedParts(old, events, k, v)
  <2>1. /\ Len(v) >= Len(old) /\ Len(v) <= Len(old) + k
        /\ Len(v) = Len(old) <=> \A j \in 1..k : events[j].id \in 0..(Len(old) - 1)
    BY <1>2 DEF MergedParts, k
  <2> QED
    BY <1>6, <1>7, <1>8, <2>1 DEF MergedParts
<1>10. AddedApart(old, events, k, v)
  <2> SUFFICES ASSUME NoCollapse(old, events) PROVE AddedParts(old, events, k, v)
    BY DEF AddedApart
  <2>1. AddedParts(old, events, k, w)
    BY DEF AddedApart, k
  <2>2. \A i \in 1..Len(w) :
           /\ v[i].field = w[i].field
           /\ Written(v[i].recurrence) = Written(w[i].recurrence)
    <3> TAKE i \in 1..Len(w)
    <3>1. w[i] \in Event
      OBVIOUS
    <3>2. w[i].recurrence \in Recurrence \cup {NULL}
      BY <3>1 DEF Event
    <3> QED
      BY <1>2, <3>2, WrittenTwice
  <2>3. k \in 0..Len(events)
    BY DEF k
  <2> QED
    BY <1>2, <1>3, <2>1, <2>2, <2>3, AddedSame
<1> QED
  BY <1>1, <1>9, <1>10 DEF Merged, GoodItem, Stable, v, k

\* A list that is numbered and published as it is.
LEMMA ReplacedItem ==
    ASSUME NEW w \in Seq(Event), Promise!Numbered(w)
    PROVE  Replaced(w, ToItem(w))
<1> DEFINE v == ToItem(w)
<1>1. /\ v \in Seq(Event) /\ Len(v) = Len(w)
      /\ \A i \in 1..Len(w) : /\ v[i].id = w[i].id
                              /\ v[i].field = w[i].field
                              /\ v[i].recurrence = Written(w[i].recurrence)
  BY ToItemFacts
<1> HIDE DEF v
<1>2. ASSUME NEW i \in 1..Len(v)
      PROVE  v[i] = [id |-> i - 1, field |-> w[i].field,
                     recurrence |-> Written(w[i].recurrence)]
  <2>1. v[i] \in Event /\ w[i].id = i - 1
    BY <1>1 DEF Promise!Numbered
  <2> QED
    BY <1>1, <2>1 DEF Event
<1> QED
  BY <1>1, <1>2 DEF Replaced, v

\* mio_schedule_event_remove takes out the one event with the id.
LEMMA RemovedItem ==
    ASSUME NEW old, GoodItem(old), NEW id \in Int
    PROVE  /\ EventRemove(old, id) \in Seq(Event)
           /\ Promise!Numbered(EventRemove(old, id))
           /\ Promise!Removed(old, id, ToItem(EventRemove(old, id)))
<1> DEFINE n == Len(old)
           rest == IF Matches(old, id) = {} THEN old
                   ELSE Without(old, First(Matches(old, id)))
           shift(i) == IF id \in 0..(n - 1) /\ i > id THEN 1 ELSE 0
           w == EventRemove(old, id)
           v == ToItem(w)
<1>1. /\ old \in Seq(Event) /\ n \in Nat
      /\ \A i \in 1..n : old[i].id = i - 1
      /\ \A i \in 1..n : old[i].recurrence = Written(old[i].recurrence)
  BY DEF GoodItem, Stable, Promise!Numbered
<1>2. /\ rest \in Seq(Event)
      /\ Len(rest) = IF id \in 0..(n - 1) THEN n - 1 ELSE n
      /\ \A i \in 1..Len(rest) : i + shift(i) \in 1..n /\ rest[i] = old[i + shift(i)]
  <2>1. CASE Matches(old, id) = {}
    <3>1. id \notin 0..(n - 1)
      <4> SUFFICES ASSUME id \in 0..(n - 1) PROVE FALSE
        OBVIOUS
      <4>1. id + 1 \in 1..n /\ old[id + 1].id = id
        BY <1>1
      <4> QED
        BY <2>1, <4>1 DEF Matches
    <3> QED
      BY <1>1, <2>1, <3>1
  <2>2. CASE Matches(old, id) # {}
    <3> DEFINE p == First(Matches(old, id))
    <3>1. p \in 1..n /\ old[p].id = id
      BY <1>1, <2>2, FirstMatch
    <3>2. rest = SubSeq(old, 1, p - 1) \o SubSeq(old, p + 1, n)
      BY <2>2 DEF Without
    <3> HIDE DEF p, rest
    <3>3. id = p - 1
      BY <1>1, <3>1
    <3> DEFINE a == SubSeq(old, 1, p - 1)
               b == SubSeq(old, p + 1, n)
    <3>4. a \in Seq(Event) /\ Len(a) = p - 1 /\ \A i \in 1..(p - 1) : a[i] = old[i]
      BY <1>1, <3>1
    <3>5. b \in Seq(Event) /\ Len(b) = n - p /\ \A i \in 1..(n - p) : b[i] = old[i + p]
      BY <1>1, <3>1
    <3>6. rest = a \o b
      BY <3>2
    <3> HIDE DEF a, b, n
    <3>7. rest \in Seq(Event) /\ Len(rest) = n - 1
      BY <1>1, <3>1, <3>4, <3>5, <3>6
    <3>8. \A i \in 1..Len(rest) : rest[i] = IF i <= p - 1 THEN old[i] ELSE old[i + 1]
      <4> TAKE i \in 1..Len(rest)
      <4>1. i \in 1..(n - 1)
        BY <3>7
      <4>2. CASE i <= p - 1
        <5>1. rest[i] = a[i]
          BY <3>1, <3>4, <3>5, <3>6, <4>1, <4>2
        <5> QED
          BY <3>1, <3>4, <4>1, <4>2, <5>1
      <4>3. CASE i > p - 1
        <5> DEFINE j == i - (p - 1)
        <5>0. j \in 1..(n - p) /\ j + p = i + 1 /\ i > Len(a) /\ i - Len(a) = j
          BY <1>1, <3>1, <3>4, <4>1, <4>3
        <5>1. rest[i] = b[j]
          <6>1. i \in 1..(Len(a) + Len(b))
            BY <1>1, <3>1, <3>4, <3>5, <4>1
          <6>2. (a \o b)[i] = b[i - Len(a)]
            BY <3>4, <3>5, <5>0, <6>1
          <6> QED
            BY <3>6, <5>0, <6>2
        <5> HIDE DEF j
        <5>2. b[j] = old[j + p]
          BY <3>5, <5>0
        <5> QED
          BY <3>1, <4>1, <4>3, <5>0, <5>1, <5>2
      <4> QED
        BY <3>1, <4>1, <4>2, <4>3
    <3> QED
      BY <1>1, <3>1, <3>3, <3>7, <3>8, SMTT(20)
  <2> QED
    BY <2>1, <2>2
<1>3. w = Renumber(rest)
  BY DEF EventRemove
<1> HIDE DEF rest
<1>4. /\ w \in Seq(Event) /\ Len(w) = Len(rest)
      /\ \A i \in 1..Len(rest) : /\ w[i].id = i - 1
                                 /\ w[i].field = rest[i].field
                                 /\ w[i].recurrence = rest[i].recurrence
  BY <1>2, <1>3, RenumberFacts
<1>5. Promise!Numbered(w)
  BY <1>4 DEF Promise!Numbered
<1> HIDE DEF w
<1>6. /\ v \in Seq(Event) /\ Len(v) = Len(rest)
      /\ \A i \in 1..Len(rest) : /\ v[i].id = i - 1
                                 /\ v[i].field = rest[i].field
                                 /\ v[i].recurrence = Written(rest[i].recurrence)
  BY <1>4, ToItemFacts
<1> HIDE DEF v
<1>7. ASSUME NEW i \in 1..Len(v)
      PROVE  v[i] = [old[i + shift(i)] EXCEPT !.id = i - 1]
  <2> DEFINE o == old[i + shift(i)]
  <2>1. i + shift(i) \in 1..n /\ rest[i] = o
    BY <1>2, <1>6
  <2>2. o \in Event /\ o.recurrence = Written(o.recurrence)
    BY <1>1, <2>1
  <2>3. v[i] \in Event /\ v[i].id = i - 1 /\ v[i].field = o.field /\ v[i].recurrence = o.recurrence
    BY <1>6, <2>1, <2>2
  <2> HIDE DEF o
  <2>4. v[i] = [o EXCEPT !.id = i - 1]
    BY <2>2, <2>3 DEF Event
  <2> QED
    BY <2>4 DEF o
<1>8. Promise!Removed(old, id, v)
  BY <1>2, <1>6, <1>7 DEF Promise!Removed
<1> QED
  BY <1>4, <1>5, <1>8 DEF w, v

\* What Publish sends.
LEMMA PublishedItem ==
    ASSUME NEW r \in CallsAndRepeats, NEW b, GoodItem(b.events), NEW w \in Seq(Event),
           WorkOf(r, b, w)
    PROVE  ResultOf(r, b, ToItem(w)) /\ GoodItem(ToItem(w))
<1>1. Promise!Numbered(w) /\ r.id \in Int /\ r.events \in Seq(Event)
  BY CallFacts DEF WorkOf
<1>2. GoodItem(ToItem(w))
  BY <1>1, WrittenItem
<1>3. CASE r.op = "merge" /\ b.events = <<>> /\ w = r.events
  BY <1>1, <1>2, <1>3, ReplacedItem DEF ResultOf
<1>4. CASE /\ r.op = "merge" /\ b.events # <<>> /\ b.from = "query"
           /\ MergedParts(b.events, r.events, Len(r.events), w)
           /\ AddedApart(b.events, r.events, Len(r.events), w)
  BY <1>1, <1>2, <1>4, MergedItem DEF ResultOf
<1>5. CASE r.op = "remove" /\ b.from = "query" /\ w = EventRemove(b.events, r.id)
  BY <1>1, <1>2, <1>5, RemovedItem DEF ResultOf
<1> QED
  BY <1>2, <1>3, <1>4, <1>5 DEF WorkOf

\* The loop of mio_schedule_event_merge begins with the list that was read ...
LEMMA LoopStart ==
    ASSUME NEW old, GoodItem(old), NEW events \in Seq(Event)
    PROVE  LoopInv(old, events, 0, old)
<1>1. /\ old \in Seq(Event) /\ Len(old) \in Nat
      /\ \A i \in 1..Len(old) : old[i].id = i - 1
  BY DEF GoodItem, Promise!Numbered
<1>2. \A i \in 1..Len(old) :
         /\ \A f \in Fields :
               Promise!FieldMerged(events, 0, i - 1, f, old[i].field[f], old[i].field[f])
         /\ RecurrenceMerged(events, 0, i - 1, old[i].recurrence, old[i].recurrence)
  BY DEF Promise!FieldMerged, RecurrenceMerged
<1>3. AddedParts(old, events, 0, old)
  <2>1. NewAmong(old, events, 0) = {}
    BY DEF NewAmong
  <2>2. Cardinality(NewAmong(old, events, 0)) = 0
    BY <2>1, FS_EmptySet
  <2> QED
    BY <1>1, <2>1, <2>2 DEF AddedParts
<1>4. MergedParts(old, events, 0, old)
  BY <1>1, <1>2 DEF MergedParts
<1> QED
  BY <1>1, <1>3, <1>4 DEF LoopInv, AddedApart

\* ... and ends with the merged list.
LEMMA LoopEnd ==
    ASSUME NEW old \in Seq(Event), NEW events \in Seq(Event), NEW list,
           LoopInv(old, events, Len(events), list)
    PROVE  /\ Promise!Numbered(Renumber(list))
           /\ MergedParts(old, events, Len(events), Renumber(list))
           /\ AddedApart(old, events, Len(events), Renumber(list))
<1> DEFINE w == Renumber(list)
           k == Len(events)
<1>1. list \in Seq(Event) /\ MergedParts(old, events, k, list)
  BY DEF LoopInv
<1>2. /\ w \in Seq(Event) /\ Len(w) = Len(list)
      /\ \A i \in 1..Len(list) : /\ w[i].id = i - 1
                                 /\ w[i].field = list[i].field
                                 /\ w[i].recurrence = list[i].recurrence
  BY <1>1, RenumberFacts
<1> HIDE DEF w
<1>3. Len(list) >= Len(old) /\ Len(list) \in Nat /\ Len(old) \in Nat
  BY <1>1 DEF MergedParts
<1> HIDE DEF k
<1>4. \A i \in 1..Len(old) :
         /\ \A f \in Fields :
               Promise!FieldMerged(events, k, i - 1, f, old[i].field[f], w[i].field[f])
         /\ RecurrenceMerged(events, k, i - 1, old[i].recurrence, w[i].recurrence)
  BY <1>1, <1>2, <1>3 DEF MergedParts
<1>5. \A i \in (Len(old) + 1)..Len(w) : \A f \in Fields :
         w[i].field[f] = NULL \/ \E j \in 1..k : w[i].field[f] = events[j].field[f]
  BY <1>1, <1>2, <1>3, SMTT(20) DEF MergedParts
<1>6. /\ Len(w) >= Len(old) /\ Len(w) <= Len(old) + k
      /\ Len(w) = Len(old) <=> \A j \in 1..k : events[j].id \in 0..(Len(old) - 1)
  BY <1>1, <1>2 DEF MergedParts
<1>7. MergedParts(old, events, k, w)
  BY <1>4, <1>5, <1>6 DEF MergedParts
<1>8. Promise!Numbered(w)
  BY <1>2 DEF Promise!Numbered
<1>9. AddedApart(old, events, k, w)
  <2> SUFFICES ASSUME NoCollapse(old, events) PROVE AddedParts(old, events, k, w)
    BY DEF AddedApart
  <2>1. AddedParts(old, events, k, list)
    BY DEF LoopInv, AddedApart, k
  <2>2. k \in 0..Len(events)
    BY DEF k
  <2>3. \A i \in 1..Len(list) :
           /\ w[i].field = list[i].field
           /\ Written(w[i].recurrence) = Written(list[i].recurrence)
    BY <1>2
  <2>4. list \in Seq(Event) /\ w \in Seq(Event) /\ Len(w) = Len(list)
    BY <1>1, <1>2
  <2> HIDE DEF k, w
  <2> QED
    BY <2>1, <2>2, <2>3, <2>4, AddedSame
<1> QED
  BY <1>7, <1>8, <1>9 DEF w, k

-----------------------------------------------------------------------------
(***************************************************************************)
(* The inductive invariant.                                                *)
(***************************************************************************)

\* Every schedule a node has had can be read and addressed, and the current
\* one is the result of the call that stored it.
ItemsInv ==
    \A n \in Nodes :
        /\ item[n] \in versions[n]
        /\ \A v \in versions[n] : GoodItem(v)
        /\ stored[n].call.op # "none" => ResultOf(stored[n].call, stored[n].base, item[n])

\* A base is a schedule its node has had.
BaseOK(b, n) ==
    /\ b.from = "query" => b.events \in versions[n]
    /\ b.from = "none" => b.events = <<>>

\* A client's list is what its call has made of its base so far.
ClientInv(c) ==
    /\ pc[c] \in {"idle", "query"} => base[c] = NoBase
    /\ BaseOK(base[c], call[c].node)
    /\ pc[c] = "merge" =>
          /\ call[c].op = "merge" /\ base[c].from = "query" /\ base[c].events # <<>>
          /\ next[c] <= Len(call[c].events) + 1
          /\ LoopInv(base[c].events, call[c].events, next[c] - 1, work[c])
    /\ pc[c] = "publish" => WorkOf(call[c], base[c], work[c])

PublicationOK(p) ==
    /\ p.by.call \in CallsAndRepeats
    /\ p.node = p.by.call.node
    /\ BaseOK(p.by.base, p.node)
    /\ ResultOf(p.by.call, p.by.base, p.value)
    /\ GoodItem(p.value)

SentInv == \A c \in Clients : \A i \in 1..Len(sent[c]) : PublicationOK(sent[c][i])

SchedInv ==
    /\ SchedTypeOK /\ CallInv
    /\ ItemsInv
    /\ \A c \in Clients : ClientInv(c)
    /\ SentInv

LEMMA InvInit == SchedInit => SchedInv
<1> SUFFICES ASSUME SchedInit PROVE SchedInv
  OBVIOUS
<1>2. ItemsInv
  BY EmptyIsGood DEF SchedInit, ItemsInv, Nothing, NoCall
<1>3. \A c \in Clients : ClientInv(c)
  BY DEF SchedInit, ClientInv, BaseOK, NoBase
<1>4. SentInv
  BY DEF SchedInit, SentInv
<1> QED
  BY <1>2, <1>3, <1>4, TypeInit DEF SchedInv

LEMMA TailElement ==
    ASSUME NEW S, NEW s \in Seq(S), s # <<>>, NEW i \in 1..Len(Tail(s))
    PROVE  i + 1 \in 1..Len(s) /\ Tail(s)[i] = s[i + 1]
<1>1. Len(s) \in Nat /\ Len(s) # 0 /\ Len(Tail(s)) = Len(s) - 1
  OBVIOUS
<1> QED
  BY <1>1

\* A list that a client got is one its node has had, also later.
LEMMA BaseStays ==
    ASSUME SchedInv, NEW c \in Clients, \A n \in Nodes : versions[n] \subseteq versions'[n]
    PROVE  /\ (base[c].from = "query" => base[c].events \in versions'[call[c].node])
           /\ (base[c].from = "none" => base[c].events = <<>>)
<1>1. ClientInv(c)
  BY DEF SchedInv
<1>2. CASE pc[c] = "idle"
  BY <1>1, <1>2 DEF ClientInv, NoBase
<1>3. CASE pc[c] # "idle"
  <2>1. call[c].node \in Nodes
    BY <1>3, CallFacts DEF SchedInv, CallInv
  <2> QED
    BY <1>1, <2>1 DEF ClientInv, BaseOK
<1> QED
  BY <1>2, <1>3

\* What a step of client c does not change.
Frame(c) ==
    /\ UNCHANGED <<item, versions, stored>>
    /\ \A d \in Clients \ {c} :
          /\ pc'[d] = pc[d] /\ call'[d] = call[d] /\ base'[d] = base[d]
          /\ work'[d] = work[d] /\ next'[d] = next[d]

\* So only the invariant of c is left to show.
LEMMA ClientPreserves ==
    ASSUME SchedInv, [SchedNext]_schedVars, NEW c \in Clients, Frame(c),
           SentInv', ClientInv(c)'
    PROVE  SchedInv'
<1>1. SchedTypeOK' /\ CallInv'
  BY TypeNext DEF SchedInv
<1>2. ItemsInv'
  BY DEF SchedInv, ItemsInv, Frame
<1>3. ASSUME NEW d \in Clients
      PROVE  ClientInv(d)'
  <2>1. CASE d = c
    BY <2>1
  <2>2. CASE d # c
    <3>1. ClientInv(d)
      BY DEF SchedInv
    <3>2. /\ pc'[d] = pc[d] /\ call'[d] = call[d] /\ base'[d] = base[d]
          /\ work'[d] = work[d] /\ next'[d] = next[d] /\ versions' = versions
      BY <2>2 DEF Frame
    <3> QED
      BY <3>1, <3>2 DEF ClientInv, BaseOK
  <2> QED
    BY <2>1, <2>2
<1> QED
  BY <1>1, <1>2, <1>3 DEF SchedInv

LEMMA SentKept ==
    ASSUME SchedInv, UNCHANGED <<sent, versions>>
    PROVE  SentInv'
BY DEF SchedInv, SentInv, PublicationOK, BaseOK

LEMMA NewCallInv ==
    ASSUME SchedInv, [SchedNext]_schedVars, NEW c \in Clients, NEW r, NewCall(c, r)
    PROVE  SchedInv'
<1>1. Frame(c) /\ SentInv'
  BY SentKept DEF NewCall, Frame, itemVars, SchedInv, SchedTypeOK
<1>2. base[c] = NoBase
  BY DEF NewCall, SchedInv, ClientInv
<1>3. pc'[c] = "query" /\ base'[c] = NoBase
  BY <1>2 DEF NewCall, SchedInv, SchedTypeOK
<1>4. ClientInv(c)'
  BY <1>3 DEF ClientInv, BaseOK, NoBase
<1> QED
  BY <1>1, <1>4, ClientPreserves

LEMMA ReturnInv ==
    ASSUME SchedInv, [SchedNext]_schedVars, NEW c \in Clients, NEW err, Return(c, err)
    PROVE  SchedInv'
<1>1. Frame(c) /\ SentInv'
  BY SentKept DEF Return, Frame, itemVars, SchedInv, SchedTypeOK
<1>2. pc'[c] = "idle" /\ base'[c] = NoBase
  BY DEF Return, SchedInv, SchedTypeOK
<1>3. ClientInv(c)'
  BY <1>2 DEF ClientInv, BaseOK, NoBase
<1> QED
  BY <1>1, <1>3, ClientPreserves

\* The item's value is one that can be read.
LEMMA ItemIsGood ==
    ASSUME SchedInv, NEW n \in Nodes
    PROVE  item[n] \in versions[n] /\ GoodItem(item[n])
BY DEF SchedInv, ItemsInv

LEMMA TakeOwnInv ==
    ASSUME SchedInv, [SchedNext]_schedVars, NEW c \in Clients,
           pc[c] = "query", call[c].op = "merge", NEW from \in {"query", "none"},
           from = "query" => item[call[c].node] = <<>>,
           TakeOwnEvents(c, from), UNCHANGED <<itemVars, ret, calls, versions, stored>>
    PROVE  SchedInv'
<1> DEFINE own == Renumber(call[c].events)
<1>0. call[c] \in CallsAndRepeats
  BY DEF SchedInv, CallInv
<1>1. /\ call[c] \in Call /\ call[c].node \in Nodes /\ call[c].events \in Seq(Event)
  BY <1>0, CallFacts
<1>2. /\ call' = [call EXCEPT ![c] = [call[c] EXCEPT !.events = own]]
      /\ work' = [work EXCEPT ![c] = own]
      /\ base' = [base EXCEPT ![c] = [from |-> from, events |-> <<>>]]
      /\ pc' = [pc EXCEPT ![c] = "publish"]
      /\ next' = next
  BY DEF TakeOwnEvents, SchedInv, SchedTypeOK
<1>3. Promise!Numbered(own)
  BY <1>1, RenumberFacts DEF Promise!Numbered
<1> HIDE DEF own
<1>4. Frame(c) /\ SentInv'
  BY <1>2, SentKept DEF Frame, itemVars, SchedInv, SchedTypeOK
<1>5. /\ call'[c].op = "merge" /\ call'[c].events = own /\ call'[c].node = call[c].node
      /\ work'[c] = own
      /\ base'[c].events = <<>> /\ base'[c].from = from /\ pc'[c] = "publish"
  BY <1>1, <1>2 DEF SchedInv, SchedTypeOK, Call
<1>6. WorkOf(call[c], base[c], work[c])'
  BY <1>3, <1>5 DEF WorkOf
<1>7. BaseOK(base[c], call[c].node)'
  BY <1>1, <1>5, ItemIsGood DEF BaseOK
<1>8. ClientInv(c)'
  BY <1>5, <1>6, <1>7 DEF ClientInv
<1> QED
  BY <1>4, <1>8, ClientPreserves

LEMMA MergeQueriedInv ==
    ASSUME SchedInv, [SchedNext]_schedVars, NEW c \in Clients, MergeQueried(c)
    PROVE  SchedInv'
<1> DEFINE events == item[call[c].node]
<1>0. pc[c] = "query" /\ call[c].op = "merge" /\ call[c] \in CallsAndRepeats
  BY DEF SchedInv, CallInv, MergeQueried
<1>1. call[c].node \in Nodes /\ call[c].events \in Seq(Event)
  BY <1>0, CallFacts
<1>2. CASE events = <<>> /\ TakeOwnEvents(c, "query")
  BY <1>0, <1>2, TakeOwnInv DEF MergeQueried
<1>3. CASE ~(events = <<>> /\ TakeOwnEvents(c, "query"))
  <2>1. /\ events # <<>>
        /\ work' = [work EXCEPT ![c] = events]
        /\ base' = [base EXCEPT ![c] = [from |-> "query", events |-> events]]
        /\ next' = [next EXCEPT ![c] = 1]
        /\ pc' = [pc EXCEPT ![c] = "merge"]
        /\ UNCHANGED <<itemVars, call, ret, calls, versions, stored>>
    BY <1>3 DEF MergeQueried
  <2>2. events \in versions[call[c].node] /\ GoodItem(events)
    BY <1>1, ItemIsGood
  <2> HIDE DEF events
  <2>3. Frame(c) /\ SentInv'
    BY <2>1, SentKept DEF Frame, itemVars, SchedInv, SchedTypeOK
  <2>4. /\ work'[c] = events /\ base'[c].from = "query" /\ base'[c].events = events
        /\ next'[c] = 1 /\ pc'[c] = "merge" /\ call'[c] = call[c] /\ versions' = versions
    BY <2>1 DEF SchedInv, SchedTypeOK
  <2>5. LoopInv(events, call[c].events, 0, events)
    BY <1>1, <2>2, LoopStart
  <2>6. LoopInv(base'[c].events, call'[c].events, next'[c] - 1, work'[c])
    BY <2>4, <2>5
  <2>7. BaseOK(base[c], call[c].node)'
    BY <2>2, <2>4 DEF BaseOK
  <2>8. next'[c] <= Len(call'[c].events) + 1
    BY <1>1, <2>4
  <2>9. ClientInv(c)'
    BY <1>0, <2>1, <2>4, <2>6, <2>7, <2>8 DEF ClientInv
  <2> QED
    BY <2>3, <2>9, ClientPreserves
<1> QED
  BY <1>2, <1>3

LEMMA MergeEventInv ==
    ASSUME SchedInv, [SchedNext]_schedVars, NEW c \in Clients, MergeEvent(c)
    PROVE  SchedInv'
<1> DEFINE e == call[c].events
           k == next[c] - 1
<1>0. /\ pc[c] = "merge" /\ ClientInv(c) /\ call[c] \in CallsAndRepeats
      /\ next[c] \in Nat \ {0} /\ base[c] \in Base /\ next[c] <= Len(e)
  BY DEF SchedInv, CallInv, MergeEvent, SchedTypeOK
<1>1. base[c].events \in Seq(Event) /\ e \in Seq(Event) /\ k \in 0..(Len(e) - 1) /\ k + 1 = next[c]
  BY <1>0, CallFacts DEF Base
<1>2. LoopInv(base[c].events, e, k, work[c])
  BY <1>0 DEF ClientInv
<1>3. LoopInv(base[c].events, e, k + 1, EventMerge(work[c], e[k + 1]))
  BY <1>1, <1>2, MergeStep
<1>4. Frame(c) /\ SentInv'
  BY SentKept DEF MergeEvent, Frame, itemVars, SchedInv, SchedTypeOK
<1>5. /\ work'[c] = EventMerge(work[c], e[k + 1]) /\ next'[c] = next[c] + 1
      /\ pc'[c] = "merge" /\ call'[c] = call[c] /\ base'[c] = base[c] /\ versions' = versions
  BY <1>0, <1>1 DEF MergeEvent, SchedInv, SchedTypeOK
<1>6. next'[c] - 1 = k + 1 /\ next'[c] <= Len(e) + 1
  <2>1. Len(e) \in Nat /\ next[c] \in Nat /\ next[c] <= Len(e) /\ next'[c] = next[c] + 1
    BY <1>0, <1>1, <1>5
  <2> HIDE DEF e
  <2> QED
    BY <2>1
<1>7. LoopInv(base'[c].events, call'[c].events, next'[c] - 1, work'[c])
  BY <1>3, <1>5, <1>6
<1>8. ClientInv(c)'
  BY <1>0, <1>5, <1>6, <1>7 DEF ClientInv, BaseOK
<1> QED
  BY <1>4, <1>8, ClientPreserves

LEMMA MergeEndInv ==
    ASSUME SchedInv, [SchedNext]_schedVars, NEW c \in Clients, MergeEnd(c)
    PROVE  SchedInv'
<1> DEFINE e == call[c].events
<1>0. /\ pc[c] = "merge" /\ ClientInv(c) /\ call[c] \in CallsAndRepeats
      /\ next[c] \in Nat \ {0} /\ base[c] \in Base /\ next[c] > Len(e)
  BY DEF SchedInv, CallInv, MergeEnd, SchedTypeOK
<1>1. base[c].events \in Seq(Event) /\ e \in Seq(Event) /\ Len(e) \in Nat
  BY <1>0, CallFacts DEF Base
<1>2. next[c] - 1 = Len(e)
  BY <1>0, <1>1 DEF ClientInv
<1>3. LoopInv(base[c].events, e, Len(e), work[c])
  BY <1>0, <1>2 DEF ClientInv
<1>4. /\ Promise!Numbered(Renumber(work[c]))
      /\ MergedParts(base[c].events, e, Len(e), Renumber(work[c]))
      /\ AddedApart(base[c].events, e, Len(e), Renumber(work[c]))
  BY <1>1, <1>3, LoopEnd
<1>5. Frame(c) /\ SentInv'
  BY SentKept DEF MergeEnd, Frame, itemVars, SchedInv, SchedTypeOK
<1>6. /\ work'[c] = Renumber(work[c]) /\ pc'[c] = "publish"
      /\ call'[c] = call[c] /\ base'[c] = base[c] /\ versions' = versions
  BY DEF MergeEnd, SchedInv, SchedTypeOK
<1>7. WorkOf(call'[c], base'[c], work'[c])
  BY <1>0, <1>4, <1>6 DEF WorkOf, ClientInv
<1>8. ClientInv(c)'
  BY <1>0, <1>6, <1>7 DEF ClientInv, BaseOK
<1> QED
  BY <1>5, <1>8, ClientPreserves

LEMMA RemoveQueriedInv ==
    ASSUME SchedInv, [SchedNext]_schedVars, NEW c \in Clients, RemoveQueried(c)
    PROVE  SchedInv'
<1> DEFINE events == item[call[c].node]
           new == EventRemove(events, call[c].id)
<1>0. pc[c] = "query" /\ call[c].op = "remove" /\ call[c] \in CallsAndRepeats
  BY DEF SchedInv, CallInv, RemoveQueried
<1>1. call[c].node \in Nodes /\ call[c].id \in Int
  BY <1>0, CallFacts
<1>2. events \in versions[call[c].node] /\ GoodItem(events)
  BY <1>1, ItemIsGood
<1>3. Promise!Numbered(new)
  BY <1>1, <1>2, RemovedItem
<1>4. /\ work' = [work EXCEPT ![c] = new]
      /\ base' = [base EXCEPT ![c] = [from |-> "query", events |-> events]]
      /\ pc' = [pc EXCEPT ![c] = "publish"]
      /\ UNCHANGED <<itemVars, call, next, ret, calls, versions, stored>>
  BY DEF RemoveQueried
<1> HIDE DEF events
<1>5. Frame(c) /\ SentInv'
  BY <1>4, SentKept DEF Frame, itemVars, SchedInv, SchedTypeOK
<1>6. /\ work'[c] = new /\ base'[c].from = "query" /\ base'[c].events = events
      /\ pc'[c] = "publish" /\ call'[c] = call[c] /\ versions' = versions
  BY <1>4 DEF SchedInv, SchedTypeOK
<1>7. WorkOf(call'[c], base'[c], work'[c])
  BY <1>0, <1>3, <1>6 DEF WorkOf
<1>8. BaseOK(base[c], call[c].node)'
  BY <1>2, <1>6 DEF BaseOK
<1>9. ClientInv(c)'
  BY <1>6, <1>7, <1>8 DEF ClientInv
<1> QED
  BY <1>5, <1>9, ClientPreserves

LEMMA PublishCrashInv ==
    ASSUME SchedInv, [SchedNext]_schedVars, NEW c \in Clients, PublishCrash(c)
    PROVE  SchedInv'
<1>1. Frame(c) /\ SentInv'
  BY SentKept DEF PublishCrash, Frame, itemVars, SchedInv, SchedTypeOK
<1>2. /\ pc'[c] = "crashed" /\ base'[c] = base[c] /\ call'[c] = call[c]
      /\ versions' = versions /\ ClientInv(c)
  BY DEF PublishCrash, SchedInv, SchedTypeOK
<1>3. ClientInv(c)'
  BY <1>2 DEF ClientInv, BaseOK
<1> QED
  BY <1>1, <1>3, ClientPreserves

LEMMA PublishInv ==
    ASSUME SchedInv, [SchedNext]_schedVars, NEW c \in Clients, Publish(c)
    PROVE  SchedInv'
<1> DEFINE v == ToItem(work[c])
           p == [node |-> call[c].node, value |-> v,
                 by |-> [call |-> call[c], base |-> base[c]]]
<1>1. /\ sent' = [sent EXCEPT ![c] = Append(sent[c], p)]
      /\ pc' = [pc EXCEPT ![c] = "await"]
      /\ pc[c] = "publish"
      /\ UNCHANGED <<item, call, base, work, next, ret, calls, versions, stored>>
  BY DEF Publish, ItemPublish
<1>2. /\ call[c] \in CallsAndRepeats /\ ClientInv(c) /\ base[c] \in Base
      /\ work[c] \in Seq(Event)
  BY <1>1 DEF SchedInv, CallInv, SchedTypeOK
<1>3. WorkOf(call[c], base[c], work[c]) /\ BaseOK(base[c], call[c].node)
  BY <1>1, <1>2 DEF ClientInv
<1>4. GoodItem(base[c].events)
  <2>1. CASE base[c].from = "query"
    <3>1. call[c].node \in Nodes /\ base[c].events \in versions[call[c].node]
      BY <1>2, <1>3, <2>1, CallFacts DEF BaseOK
    <3> QED
      BY <3>1 DEF SchedInv, ItemsInv
  <2>2. CASE base[c].from = "none"
    BY <1>3, <2>2, EmptyIsGood DEF BaseOK
  <2> QED
    BY <1>2, <2>1, <2>2 DEF Base
<1>5. ResultOf(call[c], base[c], v) /\ GoodItem(v)
  BY <1>2, <1>3, <1>4, PublishedItem
<1> HIDE DEF v
<1>6. PublicationOK(p)
  BY <1>2, <1>3, <1>5 DEF PublicationOK
<1>7. /\ p.by.call = call[c] /\ p.by.base = base[c] /\ p.node = call[c].node /\ p.value = v
  OBVIOUS
<1> HIDE DEF p
<1>8. SentInv'
  <2>1. \A q : PublicationOK(q) => PublicationOK(q)'
    BY <1>1 DEF PublicationOK, BaseOK
  <2>2. sent[c] \in Seq(Publication)
    BY DEF SchedInv, SchedTypeOK
  <2>3. ASSUME NEW d \in Clients, NEW i \in 1..Len(sent'[d])
        PROVE  PublicationOK(sent'[d][i])
    <3>1. CASE d # c
      BY <1>1, <2>3, <3>1 DEF SchedInv, SentInv, SchedTypeOK
    <3>2. CASE d = c /\ i <= Len(sent[c])
      <4>1. sent'[c] = Append(sent[c], p)
        BY <1>1 DEF SchedInv, SchedTypeOK
      <4>2. sent'[c][i] = sent[c][i] /\ i \in 1..Len(sent[c])
        BY <2>2, <2>3, <3>2, <4>1
      <4> QED
        BY <3>2, <4>2 DEF SchedInv, SentInv
    <3>3. CASE d = c /\ i > Len(sent[c])
      <4>1. sent'[c] = Append(sent[c], p)
        BY <1>1 DEF SchedInv, SchedTypeOK
      <4>2. sent'[c][i] = p
        BY <2>2, <2>3, <3>3, <4>1
      <4> QED
        BY <1>6, <3>3, <4>2
    <3>4. i \in Int /\ Len(sent[c]) \in Nat
      BY <2>2, <2>3
    <3> QED
      BY <3>1, <3>2, <3>3, <3>4
  <2> QED
    BY <2>1, <2>3 DEF SentInv
<1>9. Frame(c)
  BY <1>1 DEF Frame, SchedInv, SchedTypeOK
<1>10. /\ pc'[c] = "await" /\ base'[c] = base[c] /\ call'[c] = call[c] /\ versions' = versions
  BY <1>1 DEF SchedInv, SchedTypeOK
<1>11. ClientInv(c)'
  BY <1>3, <1>10 DEF ClientInv, BaseOK
<1> QED
  BY <1>8, <1>9, <1>11, ClientPreserves

\* The server stores a result of the call that sent it.
LEMMA StoreInv ==
    ASSUME SchedInv, [SchedNext]_schedVars, NEW c \in Clients, ServerStoreSchedule(c)
    PROVE  SchedInv'
<1> DEFINE p == Head(sent[c])
<1>1. /\ sent[c] # <<>>
      /\ item' = [item EXCEPT ![p.node] = p.value]
      /\ sent' = [sent EXCEPT ![c] = Tail(sent[c])]
      /\ versions' = [versions EXCEPT ![p.node] = versions[p.node] \cup {p.value}]
      /\ stored' = [stored EXCEPT ![p.node] = p.by]
      /\ UNCHANGED clientVars
  BY DEF ServerStoreSchedule, ServerStore
<1>2. sent[c] \in Seq(Publication) /\ p = sent[c][1] /\ 1 \in 1..Len(sent[c])
  BY <1>1 DEF SchedInv, SchedTypeOK
<1>3. PublicationOK(p)
  BY <1>2 DEF SchedInv, SentInv
<1>4. p \in Publication
  BY <1>2
<1>5. p.node \in Nodes
  BY <1>4 DEF Publication
<1> HIDE DEF p
<1>6. \A n \in Nodes : versions[n] \subseteq versions'[n]
  BY <1>1, <1>5 DEF SchedInv, SchedTypeOK
<1>7. SchedTypeOK' /\ CallInv'
  BY TypeNext DEF SchedInv
<1>8. ItemsInv'
  <2> SUFFICES ASSUME NEW n \in Nodes
               PROVE  /\ item'[n] \in versions'[n]
                      /\ \A v \in versions'[n] : GoodItem(v)
                      /\ stored'[n].call.op # "none"
                            => ResultOf(stored'[n].call, stored'[n].base, item'[n])
    BY DEF ItemsInv
  <2>1. CASE n = p.node
    <3>1. item'[n] = p.value /\ versions'[n] = versions[n] \cup {p.value} /\ stored'[n] = p.by
      BY <1>1, <2>1 DEF SchedInv, SchedTypeOK
    <3> QED
      BY <1>3, <3>1 DEF PublicationOK, SchedInv, ItemsInv
  <2>2. CASE n # p.node
    <3>1. item'[n] = item[n] /\ versions'[n] = versions[n] /\ stored'[n] = stored[n]
      BY <1>1, <2>2 DEF SchedInv, SchedTypeOK
    <3> QED
      BY <3>1 DEF SchedInv, ItemsInv
  <2> QED
    BY <2>1, <2>2
<1>9. ASSUME NEW d \in Clients PROVE ClientInv(d)'
  <2>1. ClientInv(d) /\ UNCHANGED clientVars
    BY <1>1 DEF SchedInv
  <2>2. BaseOK(base[d], call[d].node)'
    BY <1>6, <2>1, BaseStays DEF BaseOK, clientVars
  <2> QED
    BY <2>1, <2>2 DEF ClientInv, clientVars
<1>10. SentInv'
  <2>1. ASSUME NEW d \in Clients, NEW i \in 1..Len(sent'[d])
        PROVE  \E j \in 1..Len(sent[d]) : sent'[d][i] = sent[d][j]
    <3>1. CASE d # c
      BY <1>1, <2>1, <3>1 DEF SchedInv, SchedTypeOK
    <3>2. CASE d = c
      <4>1. sent'[c] = Tail(sent[c])
        BY <1>1 DEF SchedInv, SchedTypeOK
      <4>2. i + 1 \in 1..Len(sent[c]) /\ sent'[c][i] = sent[c][i + 1]
        BY <1>1, <1>2, <2>1, <3>2, <4>1, TailElement
      <4> QED
        BY <3>2, <4>2
    <3> QED
      BY <3>1, <3>2
  <2>2. ASSUME NEW d \in Clients, NEW j \in 1..Len(sent[d])
        PROVE  PublicationOK(sent[d][j]) /\ sent[d][j].node \in Nodes
    <3>1. sent[d] \in Seq(Publication)
      BY DEF SchedInv, SchedTypeOK
    <3>2. sent[d][j] \in Publication
      BY <3>1
    <3> QED
      BY <3>2 DEF SchedInv, SentInv, Publication
  <2>3. \A q : PublicationOK(q) /\ q.node \in Nodes =>
          /\ q.by.call \in CallsAndRepeats
          /\ q.node = q.by.call.node
          /\ (q.by.base.from = "query" => q.by.base.events \in versions'[q.node])
          /\ (q.by.base.from = "none" => q.by.base.events = <<>>)
          /\ ResultOf(q.by.call, q.by.base, q.value)
          /\ GoodItem(q.value)
    BY <1>6 DEF PublicationOK, BaseOK
  <2> QED
    <3> SUFFICES ASSUME NEW d \in Clients, NEW i \in 1..Len(sent'[d])
                 PROVE  PublicationOK(sent[d][i])'
      BY DEF SentInv
    <3>1. PICK j \in 1..Len(sent[d]) : sent'[d][i] = sent[d][j]
      BY <2>1
    <3> DEFINE q == sent[d][j]
    <3>2. PublicationOK(q) /\ q.node \in Nodes
      BY <2>2
    <3> HIDE DEF q
    <3>3. sent'[d][i] = q
      BY <3>1 DEF q
    <3> QED
      BY <2>3, <3>2, <3>3 DEF PublicationOK, BaseOK
<1> QED
  BY <1>7, <1>8, <1>9, <1>10 DEF SchedInv

LEMMA NetworkFailsInv ==
    ASSUME SchedInv, [SchedNext]_schedVars, NEW c \in Clients, NetworkFails(c)
    PROVE  SchedInv'
<1>1. /\ sent' \in {[sent EXCEPT ![c] = Tail(sent[c])], [sent EXCEPT ![c] = <<>>]}
      /\ sent[c] # <<>>
      /\ UNCHANGED <<item, clientVars, versions, stored>>
  BY DEF NetworkFails, ServerRefuse, LinkLost
<1>2. Frame(c) /\ ClientInv(c)
  BY <1>1 DEF Frame, clientVars, SchedInv
<1>3. ClientInv(c)'
  BY <1>1, <1>2 DEF ClientInv, BaseOK, clientVars
<1>4. ASSUME NEW d \in Clients, NEW i \in 1..Len(sent'[d])
      PROVE  \E j \in 1..Len(sent[d]) : sent'[d][i] = sent[d][j]
  <2>1. sent[d] \in Seq(Publication)
    BY DEF SchedInv, SchedTypeOK
  <2>2. CASE d # c
    BY <1>1, <1>4, <2>2 DEF SchedInv, SchedTypeOK
  <2>3. CASE d = c /\ sent'[c] = Tail(sent[c])
    <3>1. i + 1 \in 1..Len(sent[c]) /\ sent'[c][i] = sent[c][i + 1]
      BY <1>1, <1>4, <2>1, <2>3, TailElement
    <3> QED
      BY <2>3, <3>1
  <2>4. CASE d = c /\ sent'[c] = <<>>
    BY <1>4, <2>4
  <2> QED
    BY <1>1, <2>2, <2>3, <2>4 DEF SchedInv, SchedTypeOK
<1>5. SentInv'
  <2> SUFFICES ASSUME NEW d \in Clients, NEW i \in 1..Len(sent'[d])
               PROVE  PublicationOK(sent[d][i])'
    BY DEF SentInv
  <2>1. PICK j \in 1..Len(sent[d]) : sent'[d][i] = sent[d][j]
    BY <1>4
  <2>2. PublicationOK(sent[d][j])
    BY DEF SchedInv, SentInv
  <2> QED
    BY <1>1, <2>1, <2>2 DEF PublicationOK, BaseOK
<1> QED
  BY <1>2, <1>3, <1>5, ClientPreserves

LEMMA InvNext == SchedInv /\ [SchedNext]_schedVars => SchedInv'
<1> SUFFICES ASSUME SchedInv, [SchedNext]_schedVars PROVE SchedInv'
  OBVIOUS
<1>1. CASE UNCHANGED schedVars
  <2>1. /\ UNCHANGED <<item, sent, answer, pc, call, base, work, next, ret, calls, versions, stored>>
    BY <1>1 DEF schedVars, itemVars, clientVars
  <2>2. SchedTypeOK' /\ CallInv' /\ SentInv'
    BY <2>1, TypeNext, SentKept DEF SchedInv
  <2>3. ItemsInv'
    BY <2>1 DEF SchedInv, ItemsInv
  <2>4. \A c \in Clients : ClientInv(c)'
    BY <2>1 DEF SchedInv, ClientInv, BaseOK
  <2> QED
    BY <2>2, <2>3, <2>4 DEF SchedInv
<1>2. ASSUME NEW c \in Clients, MergeUnanswered(c) PROVE SchedInv'
  BY <1>2, TakeOwnInv DEF MergeUnanswered
<1>3. ASSUME NEW c \in Clients, RetryCall(c) PROVE SchedInv'
  BY <1>3, NewCallInv DEF RetryCall
<1>4. ASSUME NEW c \in Clients,
             RemoveUnanswered(c) \/ PublishDisconnected(c) \/ PublishAnswered(c) \/ PublishTimeout(c)
      PROVE  SchedInv'
  BY <1>4, ReturnInv DEF RemoveUnanswered, PublishDisconnected, PublishAnswered, PublishTimeout
<1>5. ASSUME SchedNext PROVE SchedInv'
  <2>1. PICK c \in Clients :
           \/ \E r \in Calls : NewCall(c, r)
           \/ RetryCall(c) \/ ClientStep(c) \/ ServerStoreSchedule(c) \/ NetworkFails(c)
    BY <1>5 DEF SchedNext
  <2> QED
    BY <1>2, <1>3, <1>4, <2>1, NewCallInv, MergeQueriedInv, MergeEventInv, MergeEndInv,
       RemoveQueriedInv, PublishInv, PublishCrashInv, StoreInv, NetworkFailsInv DEF ClientStep
<1> QED
  BY <1>1, <1>5

LEMMA SchedInvCorrect == SchedSpec => []SchedInv
BY InvInit, InvNext, PTL DEF SchedSpec

-----------------------------------------------------------------------------
(***************************************************************************)
(* The theorems.                                                           *)
(***************************************************************************)

\* Whatever clients do at the same time and however late their publications
\* arrive, the ids of a stored schedule are its positions.
THEOREM IdsCorrect == SchedSpec => []IdsArePositions
<1>1. SchedInv => IdsArePositions
  BY DEF SchedInv, ItemsInv, GoodItem, IdsArePositions
<1> QED
  BY <1>1, SchedInvCorrect, PTL

-----------------------------------------------------------------------------
(***************************************************************************)
(* From what the code makes of a list to what ScheduleItem says of the     *)
(* list as it is stored.                                                   *)
(***************************************************************************)

\* A list is stored as one of its readings, and unchanged if every recurrence
\* can be.
LEMMA StoredReading ==
    ASSUME NEW events \in Seq(Event)
    PROVE  /\ ToItem(events) \in Promise!ReadingsOf(events)
           /\ RecurrencesFaithful(events) => ToItem(events) = events
<1> DEFINE v == ToItem(events)
<1>1. /\ v \in Seq(Event) /\ Len(v) = Len(events)
      /\ \A i \in 1..Len(events) : /\ v[i].id = events[i].id
                                   /\ v[i].field = events[i].field
                                   /\ v[i].recurrence = Written(events[i].recurrence)
  BY ToItemFacts
<1>2. \A rec \in Recurrence \cup {NULL} : Promise!Faithful(rec) => Written(rec) = rec
  BY ScheduleConstants DEF Promise!Faithful, Written, RecurrenceToStanza, Recurrence
<1>3. ASSUME NEW e \in Event, NEW f \in Event, f.id = e.id, f.field = e.field,
             f.recurrence = Written(e.recurrence)
      PROVE  f \in Promise!Readings(e) /\ (Promise!Faithful(e.recurrence) => f = e)
  <2>0. e.recurrence \in Recurrence \cup {NULL}
    BY DEF Event
  <2>1. CASE Promise!Faithful(e.recurrence)
    <3>1. f = e
      BY <1>2, <1>3, <2>0, <2>1, SameEvent
    <3> QED
      BY <2>1, <3>1 DEF Promise!Readings
  <2>2. CASE ~Promise!Faithful(e.recurrence)
    <3>1. e.recurrence \in Recurrence /\ e.recurrence.bymonth \in Texts
          /\ e.recurrence # NULL /\ e.recurrence.byday # NULL
      BY <2>0, <2>2 DEF Promise!Faithful, Recurrence
    <3> DEFINE g == [e EXCEPT !.recurrence.byday = e.recurrence.bymonth]
    <3>2. f.recurrence = [bymonth |-> e.recurrence.bymonth, byday |-> e.recurrence.bymonth]
      BY <1>3, <3>1 DEF Written, RecurrenceToStanza
    <3>3. [e.recurrence EXCEPT !.byday = e.recurrence.bymonth]
             = [bymonth |-> e.recurrence.bymonth, byday |-> e.recurrence.bymonth]
      BY <3>1 DEF Recurrence
    <3>4. /\ g \in Event /\ g.id = e.id /\ g.field = e.field
          /\ g.recurrence = [bymonth |-> e.recurrence.bymonth, byday |-> e.recurrence.bymonth]
      BY <3>1, <3>3 DEF Event, Recurrence
    <3> HIDE DEF g
    <3>5. f = g
      BY <1>3, <3>2, <3>4, SameEvent
    <3> QED
      BY <2>2, <3>1, <3>5 DEF Promise!Readings, g
  <2> QED
    BY <2>1, <2>2
<1> HIDE DEF v
<1>4. \A i \in 1..Len(events) :
         /\ v[i] \in Promise!Readings(events[i])
         /\ Promise!Faithful(events[i].recurrence) => v[i] = events[i]
  <2> TAKE i \in 1..Len(events)
  <2>1. events[i] \in Event /\ v[i] \in Event
    BY <1>1
  <2> QED
    BY <1>1, <1>3, <2>1
<1>5. v \in Promise!ReadingsOf(events)
  <2> DEFINE all == UNION {Promise!Readings(events[i]) : i \in 1..Len(events)}
  <2>1. v = [i \in 1..Len(events) |-> v[i]]
    BY <1>1
  <2>2. \A i \in 1..Len(events) : v[i] \in all
    BY <1>4
  <2>3. v \in [1..Len(events) -> all]
    <3> HIDE DEF all
    <3> QED
      BY <2>1, <2>2
  <2> QED
    BY <1>4, <2>3 DEF Promise!ReadingsOf
<1>6. RecurrencesFaithful(events) => v = events
  BY <1>1, <1>4, SameList DEF RecurrencesFaithful
<1> QED
  BY <1>5, <1>6 DEF v

LEMMA ReplacedPromise ==
    ASSUME NEW events \in Seq(Event), NEW v, Replaced(events, v)
    PROVE  Promise!Replaced(ToItem(events), v)
<1> DEFINE ev == ToItem(events)
<1>1. /\ ev \in Seq(Event) /\ Len(ev) = Len(events)
      /\ \A i \in 1..Len(events) : /\ ev[i].field = events[i].field
                                   /\ ev[i].recurrence = Written(events[i].recurrence)
  BY ToItemFacts
<1> HIDE DEF ev
<1>2. ASSUME NEW i \in 1..Len(v)
      PROVE  v[i] = [ev[i] EXCEPT !.id = i - 1]
  <2>1. ev[i] \in Event /\ i \in 1..Len(events)
    BY <1>1 DEF Replaced
  <2>2. v[i] = [id |-> i - 1, field |-> ev[i].field, recurrence |-> ev[i].recurrence]
    BY <1>1, <2>1 DEF Replaced
  <2>3. \A e \in Event : \A x : [e EXCEPT !.id = x]
           = [id |-> x, field |-> e.field, recurrence |-> e.recurrence]
    BY DEF Event
  <2> QED
    BY <2>1, <2>2, <2>3
<1> QED
  BY <1>1, <1>2 DEF Replaced, Promise!Replaced, ev

LEMMA MergedPromise ==
    ASSUME NEW old \in Seq(Event), NEW events \in Seq(Event), NEW v \in Seq(Event),
           Merged(old, events, v)
    PROVE  /\ Promise!Merged(old, ToItem(events), v)
           /\ NoCollapse(old, events) => AddedEach(old, ToItem(events), v)
<1> DEFINE ev == ToItem(events)
           k == Len(events)
<1>1. /\ ev \in Seq(Event) /\ Len(ev) = k /\ k \in Nat
      /\ \A i \in 1..k : /\ ev[i].id = events[i].id
                         /\ ev[i].field = events[i].field
                         /\ ev[i].recurrence = Written(events[i].recurrence)
  BY ToItemFacts
<1>2. \A i \in 1..k : ev[i].recurrence = NULL <=> events[i].recurrence = NULL
  <2> TAKE i \in 1..k
  <2>1. events[i] \in Event
    OBVIOUS
  <2>2. events[i].recurrence \in Recurrence \cup {NULL}
    BY <2>1 DEF Event
  <2>3. \A rec \in Recurrence : Written(rec) \in Recurrence
    BY ScheduleConstants DEF Written, RecurrenceToStanza, Recurrence, Texts
  <2>4. Written(NULL) = NULL
    BY DEF Written
  <2> QED
    BY <1>1, <2>2, <2>3, <2>4, ScheduleConstants
<1> HIDE DEF ev
<1>3. /\ MergedParts(old, events, k, v) /\ Promise!Numbered(v)
      /\ AddedApart(old, events, k, v)
      /\ \A i \in 1..Len(v) : v[i].recurrence = Written(v[i].recurrence)
  BY DEF Merged
<1> HIDE DEF k
<1>4. \A j \in 1..k : \A id, f :
         /\ Promise!SetsField(ev[j], id, f) <=> Promise!SetsField(events[j], id, f)
         /\ Promise!SetsRecurrence(ev[j], id) <=> Promise!SetsRecurrence(events[j], id)
  BY <1>1, <1>2 DEF Promise!SetsField, Promise!SetsRecurrence
<1>5. Len(v) >= Len(old) /\ Len(v) \in Nat /\ Len(old) \in Nat
  BY <1>3 DEF MergedParts
<1>6. ASSUME NEW i \in 1..Len(old)
      PROVE  /\ \A f \in Fields : Promise!FieldMerged(ev, k, i - 1, f, old[i].field[f], v[i].field[f])
             /\ Promise!RecurrenceMerged(ev, k, i - 1, old[i].recurrence, v[i].recurrence)
  <2>1. ASSUME NEW f \in Fields
        PROVE  Promise!FieldMerged(ev, k, i - 1, f, old[i].field[f], v[i].field[f])
    <3>1. Promise!FieldMerged(events, k, i - 1, f, old[i].field[f], v[i].field[f])
      BY <1>3 DEF MergedParts
    <3> DEFINE o == old[i].field[f]
               n == v[i].field[f]
               id == i - 1
    <3> HIDE DEF o, n, id
    <3>2. Promise!FieldMerged(events, k, id, f, o, n)
      BY <3>1 DEF o, n, id
    <3>3. Promise!FieldMerged(ev, k, id, f, o, n)
      <4>1. \A l \in 1..k : ~Promise!SetsField(events[l], id, f) => ~Promise!SetsField(ev[l], id, f)
        BY <1>4, Zenon
      <4>2. CASE n = o /\ \A l \in 1..k : ~Promise!SetsField(events[l], id, f)
        BY <4>1, <4>2 DEF Promise!FieldMerged
      <4>3. ASSUME NEW j \in 1..k, Promise!SetsField(events[j], id, f), n = events[j].field[f],
                   \A l \in (j + 1)..k : ~Promise!SetsField(events[l], id, f)
            PROVE  Promise!FieldMerged(ev, k, id, f, o, n)
        <5>1. Promise!SetsField(ev[j], id, f) /\ n = ev[j].field[f]
          BY <1>1, <1>4, <4>3
        <5>2. \A l \in (j + 1)..k : l \in 1..k
          BY <1>1
        <5>3. \A l \in (j + 1)..k : ~Promise!SetsField(ev[l], id, f)
          BY <4>1, <4>3, <5>2, Zenon
        <5> QED
          BY <5>1, <5>3 DEF Promise!FieldMerged
      <4> QED
        BY <3>2, <4>2, <4>3 DEF Promise!FieldMerged
    <3> QED
      BY <3>3 DEF o, n, id
  <2>2. Promise!RecurrenceMerged(ev, k, i - 1, old[i].recurrence, v[i].recurrence)
    <3> DEFINE o == old[i].recurrence
               n == v[i].recurrence
               id == i - 1
    <3>1. RecurrenceMerged(events, k, id, o, n)
      BY <1>3 DEF MergedParts
    <3>2. n = Written(n)
      BY <1>3, <1>5
    <3> HIDE DEF o, n, id
    <3>3. Promise!RecurrenceMerged(ev, k, id, o, n)
      <4>1. \A l \in 1..k : ~Promise!SetsRecurrence(events[l], id)
                               => ~Promise!SetsRecurrence(ev[l], id)
        BY <1>4, Zenon
      <4>2. CASE n = o /\ \A l \in 1..k : ~Promise!SetsRecurrence(events[l], id)
        BY <4>1, <4>2 DEF Promise!RecurrenceMerged
      <4>3. ASSUME NEW j \in 1..k, Promise!SetsRecurrence(events[j], id),
                   Written(n) = Written(events[j].recurrence),
                   \A l \in (j + 1)..k : ~Promise!SetsRecurrence(events[l], id)
            PROVE  Promise!RecurrenceMerged(ev, k, id, o, n)
        <5>1. Promise!SetsRecurrence(ev[j], id) /\ n = ev[j].recurrence
          BY <1>1, <1>4, <3>2, <4>3
        <5>2. \A l \in (j + 1)..k : l \in 1..k
          BY <1>1
        <5>3. \A l \in (j + 1)..k : ~Promise!SetsRecurrence(ev[l], id)
          BY <4>1, <4>3, <5>2, Zenon
        <5> QED
          BY <5>1, <5>3 DEF Promise!RecurrenceMerged
      <4> QED
        BY <3>1, <4>2, <4>3 DEF RecurrenceMerged
    <3> QED
      BY <3>3 DEF o, n, id
  <2> QED
    BY <2>1, <2>2
<1>7. \A i \in (Len(old) + 1)..Len(v) : \A f \in Fields :
         v[i].field[f] = NULL \/ \E j \in 1..k : v[i].field[f] = ev[j].field[f]
  <2> TAKE i \in (Len(old) + 1)..Len(v)
  <2> TAKE f \in Fields
  <2>1. v[i].field[f] = NULL \/ \E j \in 1..k : v[i].field[f] = events[j].field[f]
    BY <1>3 DEF MergedParts
  <2> QED
    BY <1>1, <2>1
<1>8. /\ Len(v) <= Len(old) + k
      /\ Len(v) = Len(old) <=> \A j \in 1..k : ev[j].id \in 0..(Len(old) - 1)
  BY <1>1, <1>3 DEF MergedParts
<1>9. Promise!Merged(old, ev, v)
  <2>1. Promise!MergedParts(old, ev, k, v)
    BY <1>5, <1>6, <1>7, <1>8 DEF Promise!MergedParts
  <2> QED
    BY <1>1, <1>3, <2>1 DEF Promise!Merged
<1>10. ASSUME NoCollapse(old, events)
       PROVE  AddedEach(old, ev, v)
  <2>1. AddedParts(old, events, k, v)
    BY <1>3, <1>10 DEF AddedApart
  <2>2. \A j \in 0..k : NewAmong(old, ev, j) = NewAmong(old, events, j)
    BY <1>1 DEF NewAmong
  <2>3. Len(v) = Len(old) + Cardinality(NewAmong(old, ev, k))
    BY <1>1, <2>1, <2>2 DEF AddedParts
  <2>4. ASSUME NEW j \in NewAmong(old, ev, k)
        PROVE  LET added == v[Len(old) + Cardinality(NewAmong(old, ev, j))]
               IN  added.field = ev[j].field /\ added.recurrence = ev[j].recurrence
    <3>1. j \in 1..k /\ j \in NewAmong(old, events, k) /\ k \in 0..Len(events)
      BY <1>1, <2>2 DEF NewAmong, k
    <3> DEFINE c == Cardinality(NewAmong(old, events, j))
               p == Len(old) + c
    <3>2. c \in 1..Cardinality(NewAmong(old, events, k))
      BY <3>1, NewAmongFacts
    <3>3. Cardinality(NewAmong(old, events, k)) \in Nat
      BY <3>1, NewAmongFacts
    <3>4. p \in 1..Len(v)
      BY <1>5, <2>1, <3>2, <3>3 DEF AddedParts
    <3>5. v[p].field = events[j].field /\ Written(v[p].recurrence) = Written(events[j].recurrence)
      BY <2>1, <3>1 DEF AddedParts
    <3>6. Cardinality(NewAmong(old, ev, j)) = c
      BY <2>2, <3>1
    <3> HIDE DEF c
    <3>7. v[p].field = ev[j].field /\ v[p].recurrence = ev[j].recurrence
      BY <1>1, <1>3, <3>1, <3>4, <3>5
    <3> QED
      BY <3>6, <3>7
  <2>5. Len(ev) = k
    BY <1>1
  <2> HIDE DEF ev, k
  <2>6. Len(v) = Len(old) + Cardinality(NewAmong(old, ev, Len(ev)))
    BY <2>3, <2>5
  <2>7. \A j \in NewAmong(old, ev, Len(ev)) :
           LET added == v[Len(old) + Cardinality(NewAmong(old, ev, j))]
           IN  added.field = ev[j].field /\ added.recurrence = ev[j].recurrence
    BY <2>4, <2>5, Zenon
  <2> QED
    BY <2>6, <2>7, Zenon DEF AddedEach
<1> QED
  BY <1>9, <1>10 DEF ev

-----------------------------------------------------------------------------
LEMMA EventsOfQuery ==
    ASSUME NEW x, NEW y, x = [from |-> "query", events |-> y]
    PROVE  x.events = y
OBVIOUS

\* What is stored comes from a call, through one edit of a schedule of the
\* same node.
LEMMA StoredResult ==
    ASSUME SchedInv, NEW c \in Clients, ServerStoreSchedule(c)
    PROVE  LET p == Head(sent[c])
           IN  /\ PublicationOK(p) /\ p.node \in Nodes
               /\ item' = [item EXCEPT ![p.node] = p.value]
               /\ versions' = [versions EXCEPT ![p.node] = versions[p.node] \cup {p.value}]
<1> DEFINE p == Head(sent[c])
<1>1. /\ sent[c] # <<>>
      /\ item' = [item EXCEPT ![p.node] = p.value]
      /\ versions' = [versions EXCEPT ![p.node] = versions[p.node] \cup {p.value}]
  BY DEF ServerStoreSchedule, ServerStore
<1>2. sent[c] \in Seq(Publication) /\ p = sent[c][1] /\ 1 \in 1..Len(sent[c])
  BY <1>1 DEF SchedInv, SchedTypeOK
<1>3. PublicationOK(p)
  BY <1>2 DEF SchedInv, SentInv
<1>4. p \in Publication
  BY <1>2
<1>5. p.node \in Nodes
  BY <1>4 DEF Publication
<1> QED
  BY <1>1, <1>3, <1>5

\* Every step of the clients, the server and the network is an update of
\* ScheduleItem or leaves the schedules alone.
LEMMA Simulation ==
    ASSUME SchedInv, [SchedNext]_schedVars
    PROVE  [Promise!ItemNext]_(Promise!itemSpecVars)
<1>1. ASSUME NEW c \in Clients, ServerStoreSchedule(c)
      PROVE  Promise!ItemNext \/ UNCHANGED Promise!itemSpecVars
  <2> DEFINE p == Head(sent[c])
             n == p.node
             r == p.by.call
             b == p.by.base
  <2>1. /\ PublicationOK(p) /\ n \in Nodes
        /\ item' = [item EXCEPT ![n] = p.value]
        /\ versions' = [versions EXCEPT ![n] = versions[n] \cup {p.value}]
    BY <1>1, StoredResult
  <2> HIDE DEF p
  <2>2. item'[n] = p.value /\ item' = [item EXCEPT ![n] = item'[n]]
        /\ versions' = [versions EXCEPT ![n] = versions[n] \cup {item'[n]}]
    BY <2>1 DEF SchedInv, SchedTypeOK
  <2>3. /\ r \in CallsAndRepeats /\ r.node = n /\ BaseOK(b, n) /\ ResultOf(r, b, p.value)
    BY <2>1 DEF PublicationOK
  <2>4. item[n] \in versions[n]
    BY <2>1, ItemIsGood
  <2>5. r.events \in Seq(Event) /\ ToItem(r.events) \in Promise!ReadingsOf(r.events)
    BY <2>3, CallFacts, StoredReading
  <2>9. Promise!Edited(n)
    <3>6. CASE r.op = "merge" /\ b.events = <<>> /\ Replaced(r.events, p.value)
      <4>1. Promise!Replaced(ToItem(r.events), item'[n])
        BY <2>2, <2>5, <3>6, ReplacedPromise
      <4> QED
        BY <2>2, <2>3, <2>5, <3>6, <4>1 DEF Promise!Edited
    <3>7. CASE /\ r.op = "merge" /\ b.events # <<>> /\ b.from = "query"
               /\ Merged(b.events, r.events, p.value)
      <4>1. b.events \in versions[n]
        BY <2>3, <3>7 DEF BaseOK
      <4>2. b.events \in Seq(Event) /\ item'[n] \in Seq(Event)
        BY <1>1, <2>1, <2>2, <4>1, TypeNext DEF SchedInv, SchedTypeOK
      <4>3. Promise!Merged(b.events, ToItem(r.events), item'[n])
        BY <2>2, <2>5, <3>7, <4>2, MergedPromise
      <4> QED
        BY <2>2, <2>3, <2>5, <3>7, <4>1, <4>3 DEF Promise!Edited
    <3>8. CASE r.op = "remove" /\ b.from = "query" /\ Promise!Removed(b.events, r.id, p.value)
      BY <2>2, <2>3, <3>8 DEF BaseOK, Promise!Edited
    <3> QED
      BY <2>3, <3>6, <3>7, <3>8 DEF ResultOf
  <2>10. CASE item'[n] = item[n]
    <3>1. item' = item /\ versions' = versions
      BY <2>1, <2>2, <2>4, <2>10 DEF SchedInv, SchedTypeOK
    <3> QED
      BY <3>1 DEF Promise!itemSpecVars
  <2>11. CASE item'[n] # item[n]
    <3>1. Promise!Update(n)
      BY <2>2, <2>9, <2>11 DEF Promise!Update
    <3> QED
      BY <2>1, <3>1 DEF Promise!ItemNext
  <2> QED
    BY <2>10, <2>11
<1>2. ASSUME NEW c \in Clients, NetworkFails(c)
      PROVE  UNCHANGED <<item, versions>>
  BY <1>2 DEF NetworkFails, ServerRefuse, LinkLost
<1>3. ASSUME NEW c \in Clients, ClientStep(c)
      PROVE  UNCHANGED <<item, versions>>
  BY <1>3 DEF ClientStep, MergeQueried, MergeUnanswered, MergeEvent, MergeEnd, RemoveQueried,
              RemoveUnanswered, Publish, ItemPublish, PublishCrash, PublishDisconnected,
              PublishAnswered, PublishTimeout, Return, itemVars
<1>4. ASSUME NEW c \in Clients, NEW r, NewCall(c, r)
      PROVE  UNCHANGED <<item, versions>>
  BY <1>4 DEF NewCall, itemVars
<1>5. CASE UNCHANGED schedVars
  BY <1>5 DEF schedVars, itemVars, Promise!itemSpecVars
<1> QED
  BY <1>1, <1>2, <1>3, <1>4, <1>5 DEF SchedNext, RetryCall, Promise!itemSpecVars

\* mio_schedule_event_merge_publish and mio_schedule_event_remove_publish
\* implement ScheduleItem: each schedule a node gets is one whole edit of one
\* it has had, under every interleaving, retry and loss.
THEOREM ScheduleItemImplemented == SchedSpec => ImplementsScheduleItem
<1>1. SchedInit => Promise!ItemInit
  BY DEF SchedInit, Promise!ItemInit
<1>2. SchedInv /\ [SchedNext]_schedVars => [Promise!ItemNext]_(Promise!itemSpecVars)
  BY Simulation
<1> QED
  BY <1>1, <1>2, SchedInvCorrect, PTL DEF SchedSpec, ImplementsScheduleItem, Promise!ItemSpec

\* An update of the schedule it was computed from is exactly what its call
\* asks for, recurrences and new events included, if the call's recurrences
\* can be stored and no two of its new events are taken for one.
THEOREM FreshUpdateCorrect == SchedSpec => FreshUpdateIsExact
<1> DEFINE Asked(r, old, v) ==
        \/ /\ r.op = "merge"
           /\ IF old = <<>> THEN Promise!Replaced(r.events, v)
              ELSE /\ Promise!Merged(old, r.events, v)
                   /\ AddedEach(old, r.events, v)
        \/ /\ r.op = "remove"
           /\ Promise!Removed(old, r.id, v)
           Exact(c) ==
        LET p == Head(sent[c])
            old == item[p.node]
            events == p.by.call.events
        IN  /\ ServerStoreSchedule(c)
            /\ p.by.base = [from |-> "query", events |-> old]
            /\ RecurrencesFaithful(events)
            /\ old # <<>> => NoCollapse(old, events)
            => Asked(p.by.call, old, p.value)
<1>1. ASSUME SchedInv, NEW c \in Clients
      PROVE  Exact(c)
  <2> DEFINE p == Head(sent[c])
             old == item[p.node]
             r == p.by.call
  <2> SUFFICES ASSUME ServerStoreSchedule(c),
                      p.by.base = [from |-> "query", events |-> old],
                      RecurrencesFaithful(r.events),
                      old # <<>> => NoCollapse(old, r.events)
               PROVE  Asked(r, old, p.value)
    OBVIOUS
  <2>1. PublicationOK(p) /\ p.node \in Nodes
    BY <1>1, StoredResult
  <2>2. p.by.base.events = old
    BY EventsOfQuery, Zenon
  <2> HIDE DEF p
  <2>3. r \in CallsAndRepeats /\ ResultOf(r, p.by.base, p.value) /\ GoodItem(p.value)
    BY <2>1 DEF PublicationOK
  <2>4. r.events \in Seq(Event) /\ ToItem(r.events) = r.events
    BY <2>3, CallFacts, StoredReading
  <2>5. old \in Seq(Event) /\ p.value \in Seq(Event)
    BY <1>1, <2>1, <2>3 DEF SchedInv, SchedTypeOK, GoodItem
  <2> HIDE DEF r, old
  <2>6. CASE r.op = "merge" /\ old = <<>> /\ Replaced(r.events, p.value)
    BY <2>4, <2>6, ReplacedPromise
  <2>7. CASE r.op = "merge" /\ old # <<>> /\ Merged(old, r.events, p.value)
    BY <2>4, <2>5, <2>7, MergedPromise
  <2>8. CASE r.op = "remove" /\ Promise!Removed(old, r.id, p.value)
    BY <2>8
  <2> QED
    BY <2>2, <2>3, <2>6, <2>7, <2>8 DEF ResultOf
<1>2. SchedInv => [\A c \in Clients : Exact(c)]_schedVars
  BY <1>1
<1> QED
  BY <1>2, SchedInvCorrect, PTL DEF FreshUpdateIsExact

\* Merging the same events twice into the events they address has no further
\* effect.
LEMMA MergeIdempotent ==
    ASSUME NEW old \in Seq(Event), NEW events \in Seq(Event),
           NEW one, GoodItem(one), NEW two, GoodItem(two),
           \A j \in 1..Len(events) : events[j].id \in 0..(Len(old) - 1),
           Merged(old, events, one), Merged(one, events, two)
    PROVE  two = one
<1> DEFINE k == Len(events)
           n == Len(old)
<1>1. /\ MergedParts(old, events, k, one) /\ MergedParts(one, events, k, two)
      /\ Promise!Numbered(one) /\ Promise!Numbered(two)
      /\ one \in Seq(Event) /\ two \in Seq(Event)
  BY DEF Merged, GoodItem
<1>2. Len(one) = n
  BY <1>1 DEF MergedParts
<1>3. Len(two) = n
  BY <1>1, <1>2 DEF MergedParts
<1>4. ASSUME NEW i \in 1..n
      PROVE  two[i] = one[i]
  <2>1. one[i] \in Event /\ two[i] \in Event
    BY <1>1, <1>2, <1>3
  <2>2. one[i].id = two[i].id
    BY <1>1, <1>2, <1>3 DEF Promise!Numbered
  <2>3. ASSUME NEW f \in Fields
        PROVE  two[i].field[f] = one[i].field[f]
    <3>1. Promise!FieldMerged(events, k, i - 1, f, old[i].field[f], one[i].field[f])
      BY <1>1 DEF MergedParts
    <3>2. Promise!FieldMerged(events, k, i - 1, f, one[i].field[f], two[i].field[f])
      BY <1>1, <1>2 DEF MergedParts
    <3> QED
      BY <3>1, <3>2 DEF Promise!FieldMerged
  <2>4. Written(two[i].recurrence) = Written(one[i].recurrence)
    <3>1. RecurrenceMerged(events, k, i - 1, old[i].recurrence, one[i].recurrence)
      BY <1>1 DEF MergedParts
    <3>2. RecurrenceMerged(events, k, i - 1, one[i].recurrence, two[i].recurrence)
      BY <1>1, <1>2 DEF MergedParts
    <3> QED
      BY <3>1, <3>2 DEF RecurrenceMerged
  <2>5. two[i].recurrence = one[i].recurrence
    BY <1>2, <1>3, <2>4 DEF GoodItem, Stable
  <2>6. two[i].field = one[i].field
    BY <2>1, <2>3 DEF Event
  <2> QED
    BY <2>1, <2>2, <2>5, <2>6, SameEvent
<1> QED
  BY <1>1, <1>2, <1>3, <1>4, SameList

\* Repeating a merge that was already stored, because its answer was lost,
\* changes nothing.
THEOREM RepeatedMergeCorrect == SchedSpec => RepeatedMergeIsHarmless
<1> DEFINE Harmless(c) ==
        LET p == Head(sent[c])
            before == stored[p.node]
        IN  /\ ServerStoreSchedule(c)
            /\ p.by.base = [from |-> "query", events |-> item[p.node]]
            /\ p.by.call = before.call
            /\ p.by.call.op = "merge"
            /\ \A i \in 1..Len(p.by.call.events) :
                  p.by.call.events[i].id \in 0..(Len(before.base.events) - 1)
            => p.value = item[p.node]
<1>1. ASSUME SchedInv, NEW c \in Clients
      PROVE  Harmless(c)
  <2> DEFINE p == Head(sent[c])
             n == p.node
             r == p.by.call
             before == stored[n]
             old == before.base.events
  <2> SUFFICES ASSUME ServerStoreSchedule(c),
                      p.by.base = [from |-> "query", events |-> item[n]],
                      r = before.call, r.op = "merge",
                      \A i \in 1..Len(r.events) : r.events[i].id \in 0..(Len(old) - 1)
               PROVE  p.value = item[n]
    OBVIOUS
  <2>1. PublicationOK(p) /\ n \in Nodes
    BY <1>1, StoredResult
  <2>2. p.by.base.events = item[n]
    BY EventsOfQuery, Zenon
  <2> HIDE DEF p
  <2>3. /\ r \in CallsAndRepeats /\ ResultOf(r, p.by.base, p.value) /\ GoodItem(p.value)
    BY <2>1 DEF PublicationOK
  <2>4. ResultOf(r, before.base, item[n])
    BY <1>1, <2>1 DEF SchedInv, ItemsInv
  <2>5. GoodItem(item[n])
    BY <1>1, <2>1, ItemIsGood
  <2>6. old \in Seq(Event)
    BY <1>1, <2>1 DEF SchedInv, SchedTypeOK, Source, Base
  <2>7. r.events \in Seq(Event) /\ r.events # <<>>
    BY <2>3, CallFacts
  <2>8. Len(old) # 0
    <3>1. 1 \in 1..Len(r.events)
      BY <2>7
    <3>2. r.events[1].id \in 0..(Len(old) - 1)
      BY <3>1
    <3> QED
      BY <2>6, <3>2
  <2>9. old # <<>>
    BY <2>8
  <2>10. Merged(old, r.events, item[n])
    BY <2>4, <2>9 DEF ResultOf
  <2>11. item[n] # <<>>
    BY <2>6, <2>8, <2>10 DEF Merged, MergedParts
  <2>12. Merged(item[n], r.events, p.value)
    BY <2>2, <2>3, <2>11 DEF ResultOf
  <2> QED
    BY <2>3, <2>5, <2>6, <2>7, <2>10, <2>12, MergeIdempotent
<1>2. SchedInv => [\A c \in Clients : Harmless(c)]_schedVars
  BY <1>1
<1> QED
  BY <1>2, SchedInvCorrect, PTL DEF RepeatedMergeIsHarmless

=============================================================================

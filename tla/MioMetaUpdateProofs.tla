------------------------ MODULE MioMetaUpdateProofs ------------------------
(***************************************************************************)
(* Proofs that the updates of MioMeta do what they are asked for, and that *)
(* a merge may be repeated, for any number of clients, nodes and calls and *)
(* lists of any length.                                                    *)
(*                                                                         *)
(* A call may mention a name more than once: what counts is the last       *)
(* transducer or property that gives a value.                              *)
(***************************************************************************)
EXTENDS MioMetaProofs

-----------------------------------------------------------------------------
(***************************************************************************)
(* How far an update is.                                                   *)
(***************************************************************************)

\* The transducer of a name as a merge sees it: a new one if there is none.
TransducerOf(list, n) ==
    IF Named(list, n) = {} THEN TransducerNew ELSE list[First(Named(list, n))]

\* The members that a merge overwrites one by one and the server gets to see;
\* those of the location are members of the transducer for this purpose.
Fields == {"unit", "interface", "manufacturer", "accuracy", "region"}

Field(t, f) == IF f \in {"accuracy", "alt", "region"} THEN Member(t.geoloc, f) ELSE t[f]

\* Transducer t of a call gives field f of the transducer with name n, and its
\* v-th property is property q of it.
Gives(t, n, f) == t.name = n /\ Field(t, f) # NULL
GivesProperty(t, v, n, q) == t.name = n /\ t.properties[v].name = q

\* Order in which the properties of the transducers of a call are merged.
Before(i, v, j, w) == i < j \/ (i = j /\ v < w)

\* Value `is' is the one that the last of the transducers before k gives, and
\* still `was' if none of them does.
FieldMerged(ts, n, f, k, is) ==
    \A i \in 1..Len(ts) :
        /\ i < k /\ Gives(ts[i], n, f)
        /\ \A j \in 1..Len(ts) : i < j /\ j < k => ~Gives(ts[j], n, f)
        => is = Field(ts[i], f)

FieldKept(ts, n, f, k, was, is) ==
    (\A i \in 1..Len(ts) : i < k => ~Gives(ts[i], n, f)) => is = was

\* The same for the set of values of a property.
PropertyMerged(ts, n, q, k, u, is) ==
    \A i \in 1..Len(ts) : \A v \in 1..Len(ts[i].properties) :
        Before(i, v, k, u) /\ GivesProperty(ts[i], v, n, q) =>
            /\ is # {}
            /\ (\A j \in 1..Len(ts) : \A w \in 1..Len(ts[j].properties) :
                  Before(i, v, j, w) /\ Before(j, w, k, u) => ~GivesProperty(ts[j], w, n, q))
               => is = {ts[i].properties[v].value}

PropertyKept(ts, n, q, k, u, was, is) ==
    (\A i \in 1..Len(ts) : \A v \in 1..Len(ts[i].properties) :
        Before(i, v, k, u) => ~GivesProperty(ts[i], v, n, q))
    => is = was

\* The transducers of a call before k are merged into `list', and so are the
\* properties before u of transducer j and all of those before it.
TransducerMerged(ts, n, is, k, j, u) ==
    /\ \A f \in Fields : FieldMerged(ts, n, f, k, Field(is, f))
    /\ \A q \in Names : PropertyMerged(ts, n, q, j, u, ValuesOf(is.properties, q))
    /\ \A i \in 1..Len(ts) :
          i < k /\ ts[i].name = n =>
              /\ ts[i].geoloc # NULL => is.geoloc # NULL
              /\ Member(ts[i].geoloc, "alt") # NULL => Member(is.geoloc, "alt") # NULL

TransducersMerged(ts, list, k, j, u) ==
    /\ \A n \in Names : TransducerMerged(ts, n, TransducerOf(list, n), k, j, u)
    /\ \A i \in 1..Len(ts) : i < k => Named(list, ts[i].name) # {}

\* What they do not mention is as it `was'; the altitude, which the server does
\* not get to see, is followed here.
TransducerKept(ts, n, was, is, k, j, u) ==
    /\ \A f \in Fields : FieldKept(ts, n, f, k, Field(was, f), Field(is, f))
    /\ \A q \in Names : PropertyKept(ts, n, q, j, u, ValuesOf(was.properties, q),
                                     ValuesOf(is.properties, q))
    /\ FieldMerged(ts, n, "alt", k, Field(is, "alt"))
    /\ FieldKept(ts, n, "alt", k, Field(was, "alt"), Field(is, "alt"))

TransducersUntouched(ts, base, list, k, j, u) ==
    \A n \in Names :
        TransducerKept(ts, n, TransducerOf(base, n), TransducerOf(list, n), k, j, u)

\* What mio_meta_merge is given is there.
DeviceMerged(new, m) ==
    /\ new.type # "unknown" => m.type = new.type
    /\ new.text # NULL => m.text = new.text
    /\ new.geoloc # NULL =>
          /\ m.geoloc # NULL
          /\ new.geoloc.alt # NULL => m.geoloc.alt # NULL
          /\ \A f \in {"accuracy", "region"} :
                new.geoloc[f] # NULL => m.geoloc[f] = new.geoloc[f]

\* The properties of a call before d are merged into `list', after the one that
\* mio_meta_merge puts in the first place.
PropertiesMerged(r, list, d) ==
    LET ps == r.properties
    IN  /\ \A i \in 1..Len(ps) :
              i < d =>
                  /\ Named(list, ps[i].name) # {}
                  /\ (\A j \in 1..Len(ps) : i < j /\ j < d => ps[j].name # ps[i].name) =>
                         list[First(Named(list, ps[i].name))] = ps[i]
        /\ r.meta # NULL /\ r.meta.properties # <<>> =>
              LET q == r.meta.properties[1]
              IN  /\ list # <<>> /\ list[1].name = q.name
                  /\ \/ list[1] = q
                     \/ \E i \in 1..Len(ps) : i < d /\ ps[i].name = q.name

\* An item that the merge r has been applied to.
Merged(r, m) ==
    /\ r.meta # NULL => DeviceMerged(r.meta, m)
    /\ TransducersMerged(r.transducers, m.transducers, Len(r.transducers) + 1,
                         Len(r.transducers) + 1, 1)
    /\ PropertiesMerged(r, m.properties, Len(r.properties) + 1)

\* Locations that are both there or not, with an altitude or without.
SameShape(g, h) ==
    /\ g = NULL <=> h = NULL
    /\ g # NULL => (g.alt = NULL <=> h.alt = NULL)

\* A property is given at the position or after it.
PropertyPending(ts, n, q, k, u) ==
    \E i \in 1..Len(ts) : \E v \in 1..Len(ts[i].properties) :
        ~Before(i, v, k, u) /\ GivesProperty(ts[i], v, n, q)

\* Transducer `is' of an item that the call is merged into once more: it is as
\* it `was', but for what is still to be given.
TransducerAgain(ts, was, is, k, j, u) ==
    /\ is.name = was.name
    /\ SameShape(is.geoloc, was.geoloc)
    /\ \A f \in Fields :
          \/ Field(is, f) = Field(was, f)
          \/ \E i \in 1..Len(ts) : ~(i < k) /\ Gives(ts[i], was.name, f)
    /\ Len(is.properties) = Len(was.properties)
    /\ \A y \in 1..Len(was.properties) : is.properties[y].name = was.properties[y].name
    /\ \A q \in Names :
          \/ ValuesOf(is.properties, q) = ValuesOf(was.properties, q)
          \/ PropertyPending(ts, was.name, q, j, u)

TransducersAgain(ts, was, list, k, j, u) ==
    /\ Len(list) = Len(was)
    /\ \A x \in 1..Len(was) : TransducerAgain(ts, was[x], list[x], k, j, u)

PropertiesAgain(ps, was, list, d) ==
    /\ Len(list) = Len(was)
    /\ \A x \in 1..Len(was) :
          /\ list[x].name = was[x].name
          /\ \/ list[x] = was[x]
             \/ /\ x = First(Named(was, was[x].name))
                /\ \E i \in 1..Len(ps) : ~(i < d) /\ ps[i].name = was[x].name

DeviceAgain(was, m) ==
    /\ m.type = was.type /\ m.text = was.text
    /\ SameShape(m.geoloc, was.geoloc)
    /\ m.geoloc # NULL => \A f \in {"accuracy", "region"} : m.geoloc[f] = was.geoloc[f]

\* The members of the device are those of the item with what is given.
DeviceReached(r, was, w) ==
    LET new == MetaOf(r)
    IN  /\ w.type = IF new.type = "unknown" THEN was.type ELSE new.type
        /\ w.text = Given(new.text, was.text)
        /\ \A f \in {"accuracy", "alt", "region"} :
              Member(w.geoloc, f) = Given(Member(new.geoloc, f), Member(was.geoloc, f))

\* A merge that has already been applied to the item it has queried.
Repeats(r, was) == Merged(r, was) /\ NothingMisread(was)

\* Where a merge is with its copy w of the item.
MergeReached(r, was, w, k, j, u, d) ==
    /\ r.meta # NULL => DeviceMerged(r.meta, w)
    /\ DeviceReached(r, was, w)
    /\ TransducersMerged(r.transducers, w.transducers, k, j, u)
    /\ TransducersUntouched(r.transducers, MetaRead(was).transducers, w.transducers, k, j, u)
    /\ PropertiesMerged(r, w.properties, d)
    /\ Repeats(r, was) =>
          /\ DeviceAgain(was, w)
          /\ TransducersAgain(r.transducers, was.transducers, w.transducers, k, j, u)
          /\ PropertiesAgain(r.properties, was.properties, w.properties, d)

\* The names of a call before k are gone from a list.
Gone(names, list, k) == \A i \in 1..Len(names) : i < k => Named(list, names[i]) = {}

\* Where a removal is.
RemovalReached(r, was, w, k, d) ==
    /\ Gone(r.transducers, w.transducers, k)
    /\ Unique(was.properties) => Unique(w.properties) /\ Gone(r.properties, w.properties, d)

\* Where a client is: the positions follow from its step.
Reached(step, r, was, w, n, u) ==
    LET all == Len(r.transducers) + 1
        fields == CASE step = "transducers" -> n [] step = "t_properties" -> n + 1 [] OTHER -> all
        outer == IF step \in {"transducers", "t_properties"} THEN n ELSE all
        inner == IF step = "t_properties" THEN u ELSE 1
        props == CASE step = "properties" -> n [] step = "publish" -> Len(r.properties) + 1
                   [] OTHER -> 1
    IN  /\ step \in {"idle", "query"} => n = 1
        /\ step = "transducers" => n <= all
        /\ step = "properties" => n <= Len(r.properties) + 1
        /\ step \in {"transducers", "t_properties", "properties", "publish"} =>
              /\ r.op = "merge" =>
                    UniqueNames(was) /\ MergeReached(r, was, w, fields, outer, inner, props)
              /\ r.op = "remove" => RemovalReached(r, was, w, fields, props)

ClientReached(c) == Reached(pc[c], call[c], old[c], work[c], next[c], prop[c])

PublicationDone(p) ==
    LET r == p.by.call
    IN  /\ r.op = "merge" =>
              /\ MergeDone(r, p.by.old, p.value)
              /\ Merged(r, p.value)
              /\ Repeats(r, p.by.old) => p.value = p.by.old
        /\ r.op = "remove" => RemovalDone(r, p.by.old, p.value)

UpdateInv ==
    /\ \A c \in Clients : ClientReached(c)
    /\ \A c \in Clients : \A i \in 1..Len(sent[c]) : PublicationDone(sent[c][i])
    /\ \A n \in Nodes :
          stored[n] # NULL /\ stored[n].call.op = "merge" => Merged(stored[n].call, item[n])

-----------------------------------------------------------------------------
(***************************************************************************)
(* Lists whose elements have names.                                        *)
(***************************************************************************)

LEMMA FirstOfOne ==
    ASSUME NEW i \in Nat
    PROVE  First({i}) = i
BY FirstFound

LEMMA UniquePosition ==
    ASSUME NEW T, \A e \in T : e.name \in Names, NEW list \in Seq(T), Unique(list),
           NEW i \in 1..Len(list)
    PROVE  Named(list, list[i].name) = {i} /\ First(Named(list, list[i].name)) = i
<1>1. \A j, k \in 1..Len(list) : list[j].name = list[k].name => j = k
  BY UniqueMeansInjective
<1>2. Named(list, list[i].name) = {i}
  BY <1>1 DEF Named
<1> QED
  BY <1>2, FirstOfOne

\* Putting element e of a name at i, where the name is found, makes `new' of a
\* list.
PutAt(list, e, i, new) ==
    /\ i \in 1..Len(new) /\ new[i] = e
    /\ Named(new, e.name) # {} /\ First(Named(new, e.name)) = i
    /\ \A n : n # e.name => Named(new, n) = Named(list, n)
    /\ \A j \in 1..Len(list) : j \in 1..Len(new) /\ (j # i => new[j] = list[j])
    /\ Named(list, e.name) # {} => /\ i = First(Named(list, e.name))
                                   /\ i \in 1..Len(list) /\ list[i].name = e.name
                                   /\ Len(new) = Len(list)
    /\ Named(list, e.name) = {} => i = Len(list) + 1 /\ Len(new) = Len(list) + 1

LEMMA PutNamed ==
    ASSUME NEW T, NEW list \in Seq(T), NEW e \in T
    PROVE  /\ PutAt(list, e, Slot(list, e.name), Put(list, Slot(list, e.name), e))
           /\ Put(list, Slot(list, e.name), e) \in Seq(T)
<1> DEFINE i == Slot(list, e.name)
           new == Put(list, i, e)
<1>0. Len(list) \in Nat
  OBVIOUS
<1>1. \/ /\ i \in 1..Len(list) /\ list[i].name = e.name
      \/ i = Len(list) + 1 /\ \A j \in 1..Len(list) : list[j].name # e.name
  BY SlotFound
<1>2. i \in 1..(Len(list) + 1)
  BY <1>0, <1>1
<1>3. /\ new \in Seq(T)
      /\ Len(new) = IF i > Len(list) THEN Len(list) + 1 ELSE Len(list)
      /\ new[i] = e
      /\ \A j \in 1..Len(list) : j # i => new[j] = list[j]
  BY <1>2, PutEffect
<1>4. Named(list, e.name) # {} => i = First(Named(list, e.name))
  BY DEF Slot
<1>5. Named(list, e.name) # {} <=> i \in 1..Len(list)
  <2> HIDE DEF i
  <2> QED
    BY <1>0, <1>1 DEF Named
<1> HIDE DEF i, new
<1>6. i \in 1..Len(new) /\ \A j \in 1..Len(list) : j \in 1..Len(new)
  BY <1>0, <1>2, <1>3
<1>7. ASSUME NEW n, n # e.name PROVE Named(new, n) = Named(list, n)
  <2>1. ASSUME NEW j \in Named(new, n) PROVE j \in Named(list, n)
    <3>1. j \in 1..Len(new) /\ new[j].name = n /\ j # i
      BY <1>3, <1>7 DEF Named
    <3>2. j \in 1..Len(list)
      BY <1>0, <1>2, <1>3, <3>1
    <3> QED
      BY <1>3, <3>1, <3>2 DEF Named
  <2>2. ASSUME NEW j \in Named(list, n) PROVE j \in Named(new, n)
    <3>1. j \in 1..Len(list) /\ list[j].name = n
      BY DEF Named
    <3>2. j # i
      BY <1>0, <1>1, <1>7, <3>1
    <3> QED
      BY <1>3, <1>6, <3>1, <3>2 DEF Named
  <2> QED
    BY <2>1, <2>2
<1>8. Named(new, e.name) # {} /\ First(Named(new, e.name)) = i
  <2>1. i \in Named(new, e.name)
    BY <1>3, <1>6 DEF Named
  <2>2. CASE i \in 1..Len(list)
    <3>1. Named(new, e.name) = Named(list, e.name)
      <4>1. Len(new) = Len(list)
        BY <1>0, <1>3, <2>2
      <4>2. \A j \in 1..Len(list) : new[j].name = list[j].name \/ j = i
        BY <1>3
      <4> QED
        BY <1>0, <1>1, <1>3, <2>2, <4>1, <4>2 DEF Named
    <3> QED
      BY <1>4, <1>5, <2>1, <2>2, <3>1
  <2>3. CASE i \notin 1..Len(list)
    <3>1. i = Len(list) + 1 /\ Len(new) = Len(list) + 1
      BY <1>0, <1>1, <1>3, <2>3
    <3>2. \A j \in 1..Len(list) : new[j].name # e.name
      BY <1>1, <1>3, <2>3
    <3>3. Named(new, e.name) = {i}
      BY <1>0, <1>3, <3>1, <3>2 DEF Named
    <3> QED
      BY <1>0, <3>1, <3>3, FirstOfOne
  <2> QED
    BY <2>2, <2>3
<1>9. i \in 1..Len(list) => list[i].name = e.name /\ Len(new) = Len(list)
  BY <1>0, <1>1, <1>3
<1>10. i \notin 1..Len(list) => i = Len(list) + 1 /\ Len(new) = Len(list) + 1
  BY <1>0, <1>1, <1>3
<1> QED
  BY <1>3, <1>4, <1>5, <1>6, <1>7, <1>8, <1>9, <1>10 DEF PutAt, i, new

\* One round of the loop over the properties of a transducer.
LEMMA TransducerPropertyMergeValues ==
    ASSUME NEW list \in Seq(Property), NEW p \in Property
    PROVE  LET new == TransducerPropertyMerge(list, p)
           IN  /\ ValuesOf(new, p.name) = {p.value}
               /\ \A q : q # p.name => ValuesOf(new, q) = ValuesOf(list, q)
               /\ Named(list, p.name) # {} =>
                     /\ Len(new) = Len(list)
                     /\ \A i \in 1..Len(list) : new[i].name = list[i].name
<1> DEFINE new == TransducerPropertyMerge(list, p)
<1>0. Len(list) \in Nat
  OBVIOUS
<1>1. CASE Named(list, p.name) = {}
  <2>1. \A i \in 1..Len(list) : list[i].name # p.name
    BY <1>1 DEF Named
  <2>2. /\ new = Append(list, p) /\ Len(new) = Len(list) + 1
        /\ new[Len(list) + 1] = p /\ \A i \in 1..Len(list) : new[i] = list[i]
    BY <1>1 DEF TransducerPropertyMerge
  <2> HIDE DEF new
  <2>3. Named(new, p.name) = {Len(list) + 1}
    BY <1>0, <2>1, <2>2 DEF Named
  <2>4. \A q : q # p.name => Named(new, q) = Named(list, q)
    BY <1>0, <2>1, <2>2 DEF Named
  <2>5. \A q : q # p.name => \A i \in Named(new, q) : new[i] = list[i]
    BY <2>2, <2>4 DEF Named
  <2>6. ValuesOf(new, p.name) = {p.value}
    BY <2>2, <2>3 DEF ValuesOf
  <2>7. \A q : q # p.name => ValuesOf(new, q) = ValuesOf(list, q)
    BY <2>4, <2>5 DEF ValuesOf
  <2> QED
    BY <1>1, <2>6, <2>7 DEF new
<1>2. CASE Named(list, p.name) # {}
  <2>1. /\ Len(new) = Len(list)
        /\ \A i \in 1..Len(list) : new[i] = IF list[i].name = p.name THEN p ELSE list[i]
    BY <1>0, <1>2 DEF TransducerPropertyMerge
  <2> HIDE DEF new
  <2>2. \A i \in 1..Len(list) : new[i].name = list[i].name
    BY <2>1
  <2>3. \A q : Named(new, q) = Named(list, q)
    BY <2>1, <2>2 DEF Named
  <2>4. ValuesOf(new, p.name) = {p.value}
    <3>1. \A i \in Named(new, p.name) : new[i] = p
      BY <2>1, <2>3 DEF Named
    <3> QED
      BY <1>2, <2>3, <3>1 DEF ValuesOf
  <2>5. ASSUME NEW q, q # p.name PROVE ValuesOf(new, q) = ValuesOf(list, q)
    <3>1. \A i \in Named(new, q) : new[i] = list[i]
      BY <2>1, <2>3, <2>5 DEF Named
    <3> QED
      BY <2>3, <3>1 DEF ValuesOf
  <2> QED
    BY <1>2, <2>1, <2>2, <2>4, <2>5 DEF new
<1> QED
  BY <1>1, <1>2

-----------------------------------------------------------------------------
(***************************************************************************)
(* What the functions on the structures do to each member.                 *)
(***************************************************************************)

LEMMA GeolocMergeMembers ==
    ASSUME NEW was \in Geolocs, NEW new \in Geolocs
    PROVE  /\ GeolocMerge(was, new) = NULL <=> was = NULL /\ new = NULL
           /\ \A f \in {"accuracy", "alt", "region"} :
                 Member(GeolocMerge(was, new), f) = Given(Member(new, f), Member(was, f))
<1>1. CASE new = NULL
  BY <1>1 DEF GeolocMerge, Member, Given
<1>2. CASE new # NULL
  <2> DEFINE g == IF was = NULL THEN GeolocNew ELSE was
             m == GeolocMerge(was, new)
  <2>1. m = [accuracy |-> Given(new.accuracy, g.accuracy), alt |-> Given(new.alt, g.alt),
             region |-> Given(new.region, g.region)]
    BY <1>2 DEF GeolocMerge
  <2>2. m # NULL
    <3>1. g \in Geoloc /\ new \in Geoloc
      BY <1>2 DEF Geolocs, GeolocNew, Geoloc, Texts
    <3> HIDE DEF g
    <3>2. /\ Given(new.accuracy, g.accuracy) \in Texts /\ Given(new.alt, g.alt) \in Texts
          /\ Given(new.region, g.region) \in Texts \cup {Garbage}
      BY <3>1 DEF Given, Geoloc
    <3>3. m \in Geoloc
      BY <2>1, <3>2 DEF Geoloc
    <3> QED
      BY <3>3, MetaConstants
  <2>3. \A f \in {"accuracy", "alt", "region"} : g[f] = Member(was, f)
    BY DEF Member, GeolocNew
  <2> HIDE DEF g, m
  <2>4. \A f \in {"accuracy", "alt", "region"} : m[f] = Given(new[f], g[f])
    BY <2>1
  <2> QED
    BY <1>2, <2>2, <2>3, <2>4 DEF Member, m
<1> QED
  BY <1>1, <1>2

LEMMA TransducerMembersTypes ==
    ASSUME NEW t \in Transducer \cup {TransducerNew}
    PROVE  t.geoloc \in Geolocs /\ t.properties \in Seq(Property)
<1>1. NULL \in Geolocs /\ <<>> \in Seq(Property)
  BY DEF Geolocs
<1>2. CASE t \in Transducer
  BY <1>2 DEF Transducer
<1>3. CASE t = TransducerNew
  BY <1>1, <1>3 DEF TransducerNew
<1> QED
  BY <1>2, <1>3

LEMMA OverwriteMembers ==
    ASSUME NEW was \in Transducer \cup {TransducerNew}, NEW t \in Transducer
    PROVE  LET new == TransducerOverwrite(was, t)
           IN  /\ new.properties = was.properties
               /\ \A f \in Fields : Field(new, f) = Given(Field(t, f), Field(was, f))
               /\ new.geoloc = NULL <=> was.geoloc = NULL /\ t.geoloc = NULL
               /\ Member(new.geoloc, "alt") =
                     Given(Member(t.geoloc, "alt"), Member(was.geoloc, "alt"))
<1> DEFINE new == TransducerOverwrite(was, t)
<1>1. /\ new.properties = was.properties
      /\ new.geoloc = GeolocMerge(was.geoloc, t.geoloc)
      /\ \A f \in {"unit", "interface", "manufacturer"} : new[f] = Given(t[f], was[f])
  BY DEF TransducerOverwrite, TransducerMembers
<1> HIDE DEF new
<1>2. was.geoloc \in Geolocs /\ t.geoloc \in Geolocs
  BY TransducerMembersTypes
<1>3. /\ new.geoloc = NULL <=> was.geoloc = NULL /\ t.geoloc = NULL
      /\ \A f \in {"accuracy", "alt", "region"} :
            Member(new.geoloc, f) = Given(Member(t.geoloc, f), Member(was.geoloc, f))
  BY <1>1, <1>2, GeolocMergeMembers
<1>4. ASSUME NEW f \in Fields PROVE Field(new, f) = Given(Field(t, f), Field(was, f))
  <2>1. CASE f \in {"accuracy", "region"}
    BY <1>3, <2>1 DEF Field
  <2>2. CASE f \notin {"accuracy", "region"}
    BY <1>1, <2>2 DEF Field, Fields
  <2> QED
    BY <2>1, <2>2
<1> QED
  BY <1>1, <1>3, <1>4 DEF new

LEMMA TransducerOfType ==
    ASSUME NEW list \in Seq(Transducer), NEW n
    PROVE  /\ TransducerOf(list, n) \in Transducer \cup {TransducerNew}
           /\ Named(list, n) # {} => /\ First(Named(list, n)) \in 1..Len(list)
                                     /\ TransducerOf(list, n) = list[First(Named(list, n))]
                                     /\ TransducerOf(list, n) \in Transducer
                                     /\ TransducerOf(list, n).name = n
<1>1. Named(list, n) \in SUBSET Nat
  BY DEF Named
<1>2. CASE Named(list, n) = {}
  BY <1>2 DEF TransducerOf
<1>3. CASE Named(list, n) # {}
  <2>1. First(Named(list, n)) \in Named(list, n)
    BY <1>1, <1>3, FirstFound
  <2>2. First(Named(list, n)) \in 1..Len(list) /\ list[First(Named(list, n))].name = n
    BY <2>1 DEF Named
  <2> QED
    BY <1>3, <2>2 DEF TransducerOf
<1> QED
  BY <1>2, <1>3

\* A merge overwrites the transducer of its name and no other.
LEMMA TransducerOfMerge ==
    ASSUME NEW list \in Seq(Transducer), NEW t \in Transducer
    PROVE  LET new == TransducerMerge(list, t)
           IN  /\ TransducerOf(new, t.name) =
                     TransducerOverwrite(TransducerOf(list, t.name), t)
               /\ Named(new, t.name) # {}
               /\ \A n : n # t.name => /\ TransducerOf(new, n) = TransducerOf(list, n)
                                       /\ Named(new, n) = Named(list, n)
<1> DEFINE i == Slot(list, t.name)
           was == IF i > Len(list) THEN TransducerNew ELSE list[i]
           e == TransducerOverwrite(was, t)
           new == TransducerMerge(list, t)
<1>0. Len(list) \in Nat /\ Named(list, t.name) \in SUBSET Nat
  BY DEF Named
<1>1. was = TransducerOf(list, t.name)
  <2>1. CASE Named(list, t.name) = {}
    <3>1. i = Len(list) + 1
      BY <2>1 DEF Slot
    <3> HIDE DEF i
    <3> QED
      BY <1>0, <2>1, <3>1 DEF TransducerOf
  <2>2. CASE Named(list, t.name) # {}
    <3>1. i = First(Named(list, t.name)) /\ i \in 1..Len(list)
      BY <2>2, TransducerOfType DEF Slot
    <3>2. ~(i > Len(list))
      <4> HIDE DEF i
      <4> QED
        BY <1>0, <3>1
    <3> QED
      BY <2>2, <3>1, <3>2 DEF TransducerOf
  <2> QED
    BY <2>1, <2>2
<1>2. was \in Transducer \cup {TransducerNew}
  BY <1>1, TransducerOfType
<1>3. e \in Transducer /\ e.name = t.name
  BY <1>2, TransducerOverwriteType
<1>4. new = Put(list, Slot(list, e.name), e)
  BY <1>3 DEF TransducerMerge
<1>5. i = Slot(list, e.name)
  BY <1>3
<1> HIDE DEF i, was, e, new
<1>6. /\ new[i] = e /\ Named(new, t.name) # {} /\ First(Named(new, t.name)) = i
      /\ \A n : n # t.name => Named(new, n) = Named(list, n)
      /\ \A j \in 1..Len(list) : j # i => new[j] = list[j]
      /\ Named(list, t.name) # {} => list[i].name = t.name
      /\ Named(list, t.name) = {} => i = Len(list) + 1
  <2>1. PutAt(list, e, i, new)
    BY <1>3, <1>4, <1>5, PutNamed
  <2> QED
    BY <1>3, <2>1 DEF PutAt
<1>7. ASSUME NEW n, n # t.name PROVE TransducerOf(new, n) = TransducerOf(list, n)
  <2>1. CASE Named(list, n) = {}
    BY <1>6, <1>7, <2>1 DEF TransducerOf
  <2>2. CASE Named(list, n) # {}
    <3> DEFINE j == First(Named(list, n))
    <3>1. j \in 1..Len(list) /\ list[j].name = n
      BY <2>2, TransducerOfType
    <3> HIDE DEF j
    <3>2. j # i
      BY <1>0, <1>6, <1>7, <3>1
    <3> QED
      BY <1>6, <1>7, <2>2, <3>1, <3>2 DEF TransducerOf, j
  <2> QED
    BY <2>1, <2>2
<1>8. TransducerOf(new, t.name) = e
  BY <1>6 DEF TransducerOf
<1> QED
  BY <1>1, <1>6, <1>7, <1>8 DEF e, new

-----------------------------------------------------------------------------
(***************************************************************************)
(* One more transducer or property is merged.                              *)
(***************************************************************************)

LEMMA FieldStep ==
    ASSUME NEW ts \in Seq(Transducer), NEW k \in 1..Len(ts), NEW n, NEW f, NEW is, NEW new,
           new = IF ts[k].name = n THEN Given(Field(ts[k], f), is) ELSE is
    PROVE  /\ FieldMerged(ts, n, f, k, is) => FieldMerged(ts, n, f, k + 1, new)
           /\ \A was : FieldKept(ts, n, f, k, was, is) => FieldKept(ts, n, f, k + 1, was, new)
<1>0. Len(ts) \in Nat /\ k \in Nat
  OBVIOUS
<1>1. Gives(ts[k], n, f) => new = Field(ts[k], f)
  BY DEF Gives, Given
<1>2. ~Gives(ts[k], n, f) => new = is
  BY DEF Gives, Given
<1>3. ASSUME FieldMerged(ts, n, f, k, is), NEW i \in 1..Len(ts), i < k + 1, Gives(ts[i], n, f),
             \A j \in 1..Len(ts) : i < j /\ j < k + 1 => ~Gives(ts[j], n, f)
      PROVE  new = Field(ts[i], f)
  <2>1. CASE i = k
    BY <1>1, <1>3, <2>1
  <2>2. CASE i # k
    <3>1. i < k
      BY <1>0, <1>3, <2>2
    <3>2. ~Gives(ts[k], n, f)
      BY <1>0, <1>3, <3>1
    <3>3. \A j \in 1..Len(ts) : i < j /\ j < k => ~Gives(ts[j], n, f)
      BY <1>0, <1>3
    <3> QED
      BY <1>2, <1>3, <3>1, <3>2, <3>3 DEF FieldMerged
  <2> QED
    BY <2>1, <2>2
<1>4. ASSUME NEW was, FieldKept(ts, n, f, k, was, is),
             \A i \in 1..Len(ts) : i < k + 1 => ~Gives(ts[i], n, f)
      PROVE  new = was
  <2>1. ~Gives(ts[k], n, f)
    BY <1>0, <1>4
  <2>2. \A i \in 1..Len(ts) : i < k => ~Gives(ts[i], n, f)
    BY <1>0, <1>4
  <2> QED
    BY <1>2, <1>4, <2>1, <2>2 DEF FieldKept
<1>5. FieldMerged(ts, n, f, k, is) => FieldMerged(ts, n, f, k + 1, new)
  BY <1>3 DEF FieldMerged
<1>6. \A was : FieldKept(ts, n, f, k, was, is) => FieldKept(ts, n, f, k + 1, was, new)
  BY <1>4 DEF FieldKept
<1> QED
  BY <1>5, <1>6

\* Positions are naturals.
LEMMA PropertyPositions ==
    ASSUME NEW ts \in Seq(Transducer), NEW i \in 1..Len(ts)
    PROVE  ts[i] \in Transducer /\ ts[i].properties \in Seq(Property) /\ Len(ts[i].properties) \in Nat
<1>1. ts[i] \in Transducer
  OBVIOUS
<1>2. ts[i].properties \in Seq(Property)
  BY <1>1 DEF Transducer
<1> QED
  BY <1>1, <1>2

LEMMA PropertyStep ==
    ASSUME NEW ts \in Seq(Transducer), NEW k \in 1..Len(ts),
           NEW u \in 1..Len(ts[k].properties), NEW n, NEW q, NEW is, NEW new,
           new = IF GivesProperty(ts[k], u, n, q) THEN {ts[k].properties[u].value} ELSE is
    PROVE  /\ PropertyMerged(ts, n, q, k, u, is) => PropertyMerged(ts, n, q, k, u + 1, new)
           /\ \A was : PropertyKept(ts, n, q, k, u, was, is) =>
                       PropertyKept(ts, n, q, k, u + 1, was, new)
<1>0. Len(ts) \in Nat /\ k \in Nat /\ u \in Nat /\ Len(ts[k].properties) \in Nat
  BY PropertyPositions
<1>1. \A i, v \in Nat : /\ Before(i, v, k, u + 1) <=> Before(i, v, k, u) \/ (i = k /\ v = u)
                        /\ ~(Before(i, v, k, u) /\ i = k /\ v = u)
  BY <1>0 DEF Before
<1>2. \A i \in 1..Len(ts) : i \in Nat /\ \A v \in 1..Len(ts[i].properties) : v \in Nat
  BY <1>0, PropertyPositions
<1>3. ASSUME PropertyMerged(ts, n, q, k, u, is), NEW i \in 1..Len(ts),
             NEW v \in 1..Len(ts[i].properties), Before(i, v, k, u + 1),
             GivesProperty(ts[i], v, n, q)
      PROVE  new # {}
  <2>1. CASE GivesProperty(ts[k], u, n, q)
    BY <2>1
  <2>2. CASE ~GivesProperty(ts[k], u, n, q)
    <3>1. Before(i, v, k, u)
      BY <1>1, <1>2, <1>3, <2>2
    <3> QED
      BY <1>3, <2>2, <3>1 DEF PropertyMerged
  <2> QED
    BY <2>1, <2>2
<1>4. ASSUME PropertyMerged(ts, n, q, k, u, is), NEW i \in 1..Len(ts),
             NEW v \in 1..Len(ts[i].properties), Before(i, v, k, u + 1),
             GivesProperty(ts[i], v, n, q),
             \A j \in 1..Len(ts) : \A w \in 1..Len(ts[j].properties) :
                 Before(i, v, j, w) /\ Before(j, w, k, u + 1) => ~GivesProperty(ts[j], w, n, q)
      PROVE  new = {ts[i].properties[v].value}
  <2>1. CASE i = k /\ v = u
    BY <1>4, <2>1
  <2>2. CASE ~(i = k /\ v = u)
    <3>1. Before(i, v, k, u)
      BY <1>1, <1>2, <1>4, <2>2
    <3>2. ~GivesProperty(ts[k], u, n, q)
      BY <1>0, <1>1, <1>4, <3>1
    <3>3. \A j \in 1..Len(ts) : \A w \in 1..Len(ts[j].properties) :
              Before(i, v, j, w) /\ Before(j, w, k, u) => ~GivesProperty(ts[j], w, n, q)
      BY <1>1, <1>2, <1>4
    <3> QED
      BY <1>4, <3>1, <3>2, <3>3 DEF PropertyMerged
  <2> QED
    BY <2>1, <2>2
<1>5. ASSUME NEW was, PropertyKept(ts, n, q, k, u, was, is),
             \A i \in 1..Len(ts) : \A v \in 1..Len(ts[i].properties) :
                 Before(i, v, k, u + 1) => ~GivesProperty(ts[i], v, n, q)
      PROVE  new = was
  <2>1. ~GivesProperty(ts[k], u, n, q)
    BY <1>0, <1>1, <1>5
  <2>2. \A i \in 1..Len(ts) : \A v \in 1..Len(ts[i].properties) :
            Before(i, v, k, u) => ~GivesProperty(ts[i], v, n, q)
    BY <1>1, <1>2, <1>5
  <2> QED
    BY <1>5, <2>1, <2>2 DEF PropertyKept
<1>6. PropertyMerged(ts, n, q, k, u, is) => PropertyMerged(ts, n, q, k, u + 1, new)
  BY <1>3, <1>4 DEF PropertyMerged
<1>7. \A was : PropertyKept(ts, n, q, k, u, was, is) => PropertyKept(ts, n, q, k, u + 1, was, new)
  BY <1>5 DEF PropertyKept
<1> QED
  BY <1>6, <1>7

\* The end of the properties of a transducer is the beginning of the next one.
LEMMA SamePosition ==
    ASSUME NEW ts \in Seq(Transducer), NEW k \in 1..Len(ts), NEW u \in Nat,
           u > Len(ts[k].properties)
    PROVE  \A i \in 1..Len(ts) : \A v \in 1..Len(ts[i].properties) :
               Before(i, v, k, u) <=> Before(i, v, k + 1, 1)
<1> TAKE i \in 1..Len(ts)
<1> TAKE v \in 1..Len(ts[i].properties)
<1>1. Len(ts) \in Nat /\ Len(ts[k].properties) \in Nat /\ Len(ts[i].properties) \in Nat
  BY PropertyPositions
<1>2. CASE i = k
  BY <1>1, <1>2 DEF Before
<1>3. CASE i # k
  BY <1>1, <1>3 DEF Before
<1> QED
  BY <1>2, <1>3

LEMMA PropertiesDone ==
    ASSUME NEW ts \in Seq(Transducer), NEW k \in 1..Len(ts), NEW u \in Nat,
           u > Len(ts[k].properties), NEW n, NEW q, NEW is
    PROVE  /\ PropertyMerged(ts, n, q, k, u, is) => PropertyMerged(ts, n, q, k + 1, 1, is)
           /\ \A was : PropertyKept(ts, n, q, k, u, was, is) =>
                       PropertyKept(ts, n, q, k + 1, 1, was, is)
<1>1. \A i \in 1..Len(ts) : \A v \in 1..Len(ts[i].properties) :
          Before(i, v, k, u) <=> Before(i, v, k + 1, 1)
  BY SamePosition
<1>2. PropertyMerged(ts, n, q, k, u, is) => PropertyMerged(ts, n, q, k + 1, 1, is)
  BY <1>1 DEF PropertyMerged
<1>3. \A was : PropertyKept(ts, n, q, k, u, was, is) => PropertyKept(ts, n, q, k + 1, 1, was, is)
  BY <1>1 DEF PropertyKept
<1> QED
  BY <1>2, <1>3

\* The members of transducer `is' of name n after t has been merged: those of
\* `was', or overwritten by t if the name is the one of t.
OverwrittenBy(t, n, was, is) ==
    /\ is.properties = was.properties
    /\ \A f \in Fields :
          Field(is, f) = IF t.name = n THEN Given(Field(t, f), Field(was, f)) ELSE Field(was, f)
    /\ is.geoloc = NULL <=> was.geoloc = NULL /\ (t.name = n => t.geoloc = NULL)
    /\ Member(is.geoloc, "alt") =
          IF t.name = n THEN Given(Member(t.geoloc, "alt"), Member(was.geoloc, "alt"))
          ELSE Member(was.geoloc, "alt")

LEMMA OverwriteFacts ==
    ASSUME NEW was \in Transducer \cup {TransducerNew}, NEW t \in Transducer
    PROVE  OverwrittenBy(t, t.name, was, TransducerOverwrite(was, t))
<1> DEFINE new == TransducerOverwrite(was, t)
<1>1. /\ new.properties = was.properties
      /\ \A f \in Fields : Field(new, f) = Given(Field(t, f), Field(was, f))
      /\ new.geoloc = NULL <=> was.geoloc = NULL /\ t.geoloc = NULL
      /\ Member(new.geoloc, "alt") =
            Given(Member(t.geoloc, "alt"), Member(was.geoloc, "alt"))
  BY OverwriteMembers
<1> HIDE DEF new
<1>2. OverwrittenBy(t, t.name, was, new)
  BY <1>1 DEF OverwrittenBy
<1> QED
  BY <1>2 DEF new

LEMMA MergeOverwrites ==
    ASSUME NEW list \in Seq(Transducer), NEW t \in Transducer, NEW n
    PROVE  OverwrittenBy(t, n, TransducerOf(list, n), TransducerOf(TransducerMerge(list, t), n))
<1> DEFINE new == TransducerMerge(list, t)
<1>1. /\ TransducerOf(new, t.name) = TransducerOverwrite(TransducerOf(list, t.name), t)
      /\ n # t.name => TransducerOf(new, n) = TransducerOf(list, n)
  BY TransducerOfMerge
<1> HIDE DEF new
<1>2. CASE n = t.name
  <2>1. TransducerOf(list, n) \in Transducer \cup {TransducerNew}
    BY TransducerOfType
  <2>2. OverwrittenBy(t, t.name, TransducerOf(list, n),
                      TransducerOverwrite(TransducerOf(list, n), t))
    BY <2>1, OverwriteFacts
  <2> QED
    BY <1>1, <1>2, <2>2 DEF new
<1>3. CASE n # t.name
  BY <1>1, <1>3 DEF OverwrittenBy, new
<1> QED
  BY <1>2, <1>3

LEMMA TransducerStep ==
    ASSUME NEW ts \in Seq(Transducer), NEW k \in 1..Len(ts), NEW n, NEW was, NEW is,
           OverwrittenBy(ts[k], n, was, is)
    PROVE  /\ TransducerMerged(ts, n, was, k, k, 1) => TransducerMerged(ts, n, is, k + 1, k, 1)
           /\ \A base : TransducerKept(ts, n, base, was, k, k, 1) =>
                        TransducerKept(ts, n, base, is, k + 1, k, 1)
<1>0. Len(ts) \in Nat /\ k \in Nat
  OBVIOUS
<1>1. ASSUME NEW f \in Fields
      PROVE  /\ FieldMerged(ts, n, f, k, Field(was, f)) => FieldMerged(ts, n, f, k + 1, Field(is, f))
             /\ \A base : FieldKept(ts, n, f, k, base, Field(was, f)) =>
                          FieldKept(ts, n, f, k + 1, base, Field(is, f))
  <2>1. Field(is, f) = IF ts[k].name = n THEN Given(Field(ts[k], f), Field(was, f))
                       ELSE Field(was, f)
    BY DEF OverwrittenBy
  <2> QED
    BY <2>1, FieldStep
<1>a. /\ FieldMerged(ts, n, "alt", k, Field(was, "alt")) =>
             FieldMerged(ts, n, "alt", k + 1, Field(is, "alt"))
      /\ \A base : FieldKept(ts, n, "alt", k, base, Field(was, "alt")) =>
                   FieldKept(ts, n, "alt", k + 1, base, Field(is, "alt"))
  <2>1. Field(is, "alt") = IF ts[k].name = n THEN Given(Field(ts[k], "alt"), Field(was, "alt"))
                           ELSE Field(was, "alt")
    BY DEF OverwrittenBy, Field
  <2> QED
    BY <2>1, FieldStep
<1>2. is.properties = was.properties
  BY DEF OverwrittenBy
<1>3. ASSUME TransducerMerged(ts, n, was, k, k, 1), NEW i \in 1..Len(ts), i < k + 1, ts[i].name = n
      PROVE  /\ ts[i].geoloc # NULL => is.geoloc # NULL
             /\ Member(ts[i].geoloc, "alt") # NULL => Member(is.geoloc, "alt") # NULL
  <2>1. CASE i = k
    BY <1>3, <2>1 DEF OverwrittenBy, Given
  <2>2. CASE i # k
    <3>1. i < k
      BY <1>0, <1>3, <2>2
    <3>2. /\ ts[i].geoloc # NULL => was.geoloc # NULL
          /\ Member(ts[i].geoloc, "alt") # NULL => Member(was.geoloc, "alt") # NULL
      BY <1>3, <3>1 DEF TransducerMerged
    <3> QED
      BY <3>2 DEF OverwrittenBy, Given
  <2> QED
    BY <2>1, <2>2
<1>4. TransducerMerged(ts, n, was, k, k, 1) => TransducerMerged(ts, n, is, k + 1, k, 1)
  BY <1>1, <1>2, <1>3 DEF TransducerMerged
<1>5. \A base : TransducerKept(ts, n, base, was, k, k, 1) =>
                TransducerKept(ts, n, base, is, k + 1, k, 1)
  BY <1>1, <1>a, <1>2 DEF TransducerKept
<1> QED
  BY <1>4, <1>5

LEMMA TransducersStep ==
    ASSUME NEW ts \in Seq(Transducer), NEW k \in 1..Len(ts), NEW list \in Seq(Transducer)
    PROVE  LET new == TransducerMerge(list, ts[k])
           IN  /\ TransducersMerged(ts, list, k, k, 1) => TransducersMerged(ts, new, k + 1, k, 1)
               /\ \A base : TransducersUntouched(ts, base, list, k, k, 1) =>
                            TransducersUntouched(ts, base, new, k + 1, k, 1)
<1> DEFINE t == ts[k]
           new == TransducerMerge(list, t)
<1>0. Len(ts) \in Nat /\ k \in Nat /\ t \in Transducer
  OBVIOUS
<1>1. \A n : OverwrittenBy(t, n, TransducerOf(list, n), TransducerOf(new, n))
  BY <1>0, MergeOverwrites
<1>2. /\ Named(new, t.name) # {}
      /\ \A n : n # t.name => Named(new, n) = Named(list, n)
  BY <1>0, TransducerOfMerge
<1> HIDE DEF new
<1>3. \A n : /\ TransducerMerged(ts, n, TransducerOf(list, n), k, k, 1) =>
                    TransducerMerged(ts, n, TransducerOf(new, n), k + 1, k, 1)
             /\ \A base : TransducerKept(ts, n, base, TransducerOf(list, n), k, k, 1) =>
                          TransducerKept(ts, n, base, TransducerOf(new, n), k + 1, k, 1)
  BY <1>1, TransducerStep
<1>4. ASSUME TransducersMerged(ts, list, k, k, 1), NEW i \in 1..Len(ts), i < k + 1
      PROVE  Named(new, ts[i].name) # {}
  <2>1. CASE ts[i].name = t.name
    BY <1>2, <2>1
  <2>2. CASE ts[i].name # t.name
    <3>1. i < k
      BY <1>0, <1>4, <2>2
    <3> QED
      BY <1>2, <1>4, <2>2, <3>1 DEF TransducersMerged
  <2> QED
    BY <2>1, <2>2
<1>5. TransducersMerged(ts, list, k, k, 1) => TransducersMerged(ts, new, k + 1, k, 1)
  BY <1>3, <1>4 DEF TransducersMerged
<1>6. \A base : TransducersUntouched(ts, base, list, k, k, 1) =>
                TransducersUntouched(ts, base, new, k + 1, k, 1)
  BY <1>3 DEF TransducersUntouched
<1> QED
  BY <1>5, <1>6 DEF new

\* A round of the loop over the properties: property p comes into the i-th
\* transducer of a list.
WithProperty(list, i, p) ==
    [list EXCEPT ![i] = [list[i] EXCEPT !.properties =
                            TransducerPropertyMerge(list[i].properties, p)]]

LEMMA WithPropertyEffect ==
    ASSUME NEW list \in Seq(Transducer), NEW i \in 1..Len(list), NEW p \in Property
    PROVE  LET new == WithProperty(list, i, p)
           IN  /\ new \in Seq(Transducer) /\ Len(new) = Len(list)
               /\ new[i].properties = TransducerPropertyMerge(list[i].properties, p)
               /\ new[i].name = list[i].name /\ new[i].geoloc = list[i].geoloc
               /\ \A f \in Fields : Field(new[i], f) = Field(list[i], f)
               /\ \A j \in 1..Len(list) : j # i => new[j] = list[j]
               /\ \A n : Named(new, n) = Named(list, n)
<1> DEFINE t == list[i]
           props == TransducerPropertyMerge(t.properties, p)
           e == [t EXCEPT !.properties = props]
           new == WithProperty(list, i, p)
<1>1. t \in Transducer /\ Len(list) \in Nat
  OBVIOUS
<1>2. t.properties \in Seq(Property)
  BY <1>1 DEF Transducer
<1> HIDE DEF t
<1>3. props \in Seq(Property)
  BY <1>2, TransducerPropertyMergeEffect
<1> HIDE DEF props
<1>4. /\ e \in Transducer /\ e.properties = props /\ e.name = t.name /\ e.geoloc = t.geoloc
      /\ e.unit = t.unit /\ e.interface = t.interface /\ e.manufacturer = t.manufacturer
  BY <1>1, <1>3 DEF Transducer
<1> HIDE DEF e
<1>5. \A f \in Fields : Field(e, f) = Field(t, f)
  BY <1>4 DEF Field, Fields
<1>6. new = [list EXCEPT ![i] = e]
  BY DEF WithProperty, e, props, t
<1>7. /\ new \in Seq(Transducer) /\ Len(new) = Len(list) /\ new[i] = e
      /\ \A j \in 1..Len(list) : j # i => new[j] = list[j]
  <2> HIDE DEF new
  <2> QED
    BY <1>1, <1>4, <1>6
<1> HIDE DEF new
<1>8. \A j \in 1..Len(list) : new[j].name = list[j].name
  BY <1>4, <1>7 DEF t
<1>9. \A n : Named(new, n) = Named(list, n)
  BY <1>7, <1>8 DEF Named
<1> QED
  BY <1>4, <1>5, <1>7, <1>9 DEF new, props, t

\* Transducer `is' of name n is `was' with the v-th property of t, if the name
\* is the one of t.
PropertyGivenBy(t, v, n, was, is) ==
    /\ \A f \in Fields : Field(is, f) = Field(was, f)
    /\ is.geoloc = was.geoloc
    /\ \A q : ValuesOf(is.properties, q) =
                 IF GivesProperty(t, v, n, q) THEN {t.properties[v].value}
                 ELSE ValuesOf(was.properties, q)

LEMMA WithPropertyGives ==
    ASSUME NEW list \in Seq(Transducer), Unique(list), NEW i \in 1..Len(list), NEW t \in Transducer,
           NEW v \in 1..Len(t.properties), t.name = list[i].name, NEW n
    PROVE  PropertyGivenBy(t, v, n, TransducerOf(list, n),
                           TransducerOf(WithProperty(list, i, t.properties[v]), n))
<1> DEFINE p == t.properties[v]
           new == WithProperty(list, i, p)
<1>1. t.properties \in Seq(Property)
  BY DEF Transducer
<1>2. p \in Property
  BY <1>1
<1>3. list[i] \in Transducer /\ list[i].properties \in Seq(Property)
  BY PropertyPositions
<1> HIDE DEF p
<1>4. /\ new[i].properties = TransducerPropertyMerge(list[i].properties, p)
      /\ new[i].geoloc = list[i].geoloc
      /\ \A f \in Fields : Field(new[i], f) = Field(list[i], f)
      /\ \A j \in 1..Len(list) : j # i => new[j] = list[j]
      /\ Named(new, n) = Named(list, n)
  BY <1>2, WithPropertyEffect
<1> HIDE DEF new
<1>5. Named(list, t.name) = {i} /\ First(Named(list, t.name)) = i
  BY NamesOfElements, UniquePosition
<1>6. CASE n = t.name
  <2>1. TransducerOf(list, n) = list[i] /\ TransducerOf(new, n) = new[i]
    BY <1>4, <1>5, <1>6 DEF TransducerOf
  <2>2. /\ ValuesOf(new[i].properties, p.name) = {p.value}
        /\ \A q : q # p.name => ValuesOf(new[i].properties, q) = ValuesOf(list[i].properties, q)
    <3> DEFINE ps == list[i].properties
               merged == TransducerPropertyMerge(ps, p)
    <3>1. ps \in Seq(Property)
      BY <1>3
    <3> HIDE DEF ps
    <3>2. /\ ValuesOf(merged, p.name) = {p.value}
          /\ \A q : q # p.name => ValuesOf(merged, q) = ValuesOf(ps, q)
      BY <1>2, <3>1, TransducerPropertyMergeValues
    <3>3. new[i].properties = merged
      BY <1>4 DEF ps
    <3> HIDE DEF merged
    <3> QED
      BY <3>2, <3>3 DEF ps
  <2>3. \A q : GivesProperty(t, v, n, q) <=> p.name = q
    BY <1>6 DEF GivesProperty, p
  <2> QED
    BY <1>4, <2>1, <2>2, <2>3 DEF PropertyGivenBy, new, p
<1>7. CASE n # t.name
  <2>1. TransducerOf(new, n) = TransducerOf(list, n)
    <3>1. CASE Named(list, n) = {}
      BY <1>4, <3>1 DEF TransducerOf
    <3>2. CASE Named(list, n) # {}
      <4>1. First(Named(list, n)) \in 1..Len(list) /\ First(Named(list, n)) # i
        BY <1>7, <3>2, TransducerOfType
      <4> QED
        BY <1>4, <3>2, <4>1 DEF TransducerOf
    <3> QED
      BY <3>1, <3>2
  <2>2. \A q : ~GivesProperty(t, v, n, q)
    BY <1>7 DEF GivesProperty
  <2> QED
    BY <2>1, <2>2 DEF PropertyGivenBy, new, p
<1> QED
  BY <1>6, <1>7

LEMMA TransducerPropertyStep ==
    ASSUME NEW ts \in Seq(Transducer), NEW k \in 1..Len(ts), NEW m,
           NEW u \in 1..Len(ts[k].properties), NEW n, NEW was, NEW is,
           PropertyGivenBy(ts[k], u, n, was, is)
    PROVE  /\ TransducerMerged(ts, n, was, m, k, u) => TransducerMerged(ts, n, is, m, k, u + 1)
           /\ \A base : TransducerKept(ts, n, base, was, m, k, u) =>
                        TransducerKept(ts, n, base, is, m, k, u + 1)
<1>1. ASSUME NEW q
      PROVE  /\ PropertyMerged(ts, n, q, k, u, ValuesOf(was.properties, q)) =>
                PropertyMerged(ts, n, q, k, u + 1, ValuesOf(is.properties, q))
             /\ \A base : PropertyKept(ts, n, q, k, u, base, ValuesOf(was.properties, q)) =>
                          PropertyKept(ts, n, q, k, u + 1, base, ValuesOf(is.properties, q))
  <2>1. ValuesOf(is.properties, q) =
            IF GivesProperty(ts[k], u, n, q) THEN {ts[k].properties[u].value}
            ELSE ValuesOf(was.properties, q)
    BY DEF PropertyGivenBy
  <2> QED
    BY <2>1, PropertyStep
<1>2. is.geoloc = was.geoloc /\ \A f \in Fields : Field(is, f) = Field(was, f)
  BY DEF PropertyGivenBy
<1>3. TransducerMerged(ts, n, was, m, k, u) => TransducerMerged(ts, n, is, m, k, u + 1)
  BY <1>1, <1>2 DEF TransducerMerged
<1>4. \A base : TransducerKept(ts, n, base, was, m, k, u) =>
                TransducerKept(ts, n, base, is, m, k, u + 1)
  <2>1. Field(is, "alt") = Field(was, "alt")
    BY <1>2 DEF Field
  <2> QED
    BY <1>1, <1>2, <2>1 DEF TransducerKept
<1> QED
  BY <1>3, <1>4

LEMMA TransducersPropertyStep ==
    ASSUME NEW ts \in Seq(Transducer), NEW k \in 1..Len(ts), NEW m,
           NEW u \in 1..Len(ts[k].properties), NEW list \in Seq(Transducer), Unique(list),
           NEW i \in 1..Len(list), ts[k].name = list[i].name
    PROVE  LET new == WithProperty(list, i, ts[k].properties[u])
           IN  /\ TransducersMerged(ts, list, m, k, u) => TransducersMerged(ts, new, m, k, u + 1)
               /\ \A base : TransducersUntouched(ts, base, list, m, k, u) =>
                            TransducersUntouched(ts, base, new, m, k, u + 1)
<1> DEFINE p == ts[k].properties[u]
           new == WithProperty(list, i, p)
<1>1. ts[k] \in Transducer /\ ts[k].properties \in Seq(Property)
  BY PropertyPositions
<1>2. p \in Property
  BY <1>1
<1>3. \A n : PropertyGivenBy(ts[k], u, n, TransducerOf(list, n), TransducerOf(new, n))
  BY <1>1, WithPropertyGives
<1>4. \A n : Named(new, n) = Named(list, n)
  BY <1>2, WithPropertyEffect
<1> HIDE DEF new
<1>5. \A n : /\ TransducerMerged(ts, n, TransducerOf(list, n), m, k, u) =>
                TransducerMerged(ts, n, TransducerOf(new, n), m, k, u + 1)
             /\ \A base : TransducerKept(ts, n, base, TransducerOf(list, n), m, k, u) =>
                          TransducerKept(ts, n, base, TransducerOf(new, n), m, k, u + 1)
  BY <1>3, TransducerPropertyStep
<1>6. TransducersMerged(ts, list, m, k, u) => TransducersMerged(ts, new, m, k, u + 1)
  BY <1>4, <1>5 DEF TransducersMerged
<1>7. \A base : TransducersUntouched(ts, base, list, m, k, u) =>
                TransducersUntouched(ts, base, new, m, k, u + 1)
  BY <1>5 DEF TransducersUntouched
<1> QED
  BY <1>6, <1>7 DEF new

\* The end of the loop over the properties of a transducer.
LEMMA TransducersNext ==
    ASSUME NEW ts \in Seq(Transducer), NEW k \in 1..Len(ts), NEW u \in Nat,
           u > Len(ts[k].properties), NEW m, NEW list
    PROVE  /\ TransducersMerged(ts, list, m, k, u) => TransducersMerged(ts, list, m, k + 1, 1)
           /\ \A base : TransducersUntouched(ts, base, list, m, k, u) =>
                        TransducersUntouched(ts, base, list, m, k + 1, 1)
<1>1. \A n, q, is : /\ PropertyMerged(ts, n, q, k, u, is) => PropertyMerged(ts, n, q, k + 1, 1, is)
                    /\ \A was : PropertyKept(ts, n, q, k, u, was, is) =>
                                PropertyKept(ts, n, q, k + 1, 1, was, is)
  BY PropertiesDone
<1>2. TransducersMerged(ts, list, m, k, u) => TransducersMerged(ts, list, m, k + 1, 1)
  BY <1>1 DEF TransducersMerged, TransducerMerged
<1>3. \A base : TransducersUntouched(ts, base, list, m, k, u) =>
                TransducersUntouched(ts, base, list, m, k + 1, 1)
  BY <1>1 DEF TransducersUntouched, TransducerKept
<1> QED
  BY <1>2, <1>3

\* One more property of the device.
LEMMA PropertiesStep ==
    ASSUME NEW r, r.properties \in Seq(Property), NEW d \in 1..Len(r.properties),
           NEW list \in Seq(Property), PropertiesMerged(r, list, d)
    PROVE  PropertiesMerged(r, Put(list, Slot(list, r.properties[d].name), r.properties[d]), d + 1)
<1> DEFINE ps == r.properties
           p == ps[d]
           i == Slot(list, p.name)
           new == Put(list, i, p)
<1>0. Len(ps) \in Nat /\ d \in Nat /\ Len(list) \in Nat /\ p \in Property
  OBVIOUS
<1> HIDE DEF ps, p
<1>1. PutAt(list, p, i, new)
  BY <1>0, PutNamed
<1> HIDE DEF i, new
<1>2. /\ i \in 1..Len(new) /\ new[i] = p
      /\ Named(new, p.name) # {} /\ First(Named(new, p.name)) = i
      /\ \A n : n # p.name => Named(new, n) = Named(list, n)
      /\ \A j \in 1..Len(list) : j \in 1..Len(new) /\ (j # i => new[j] = list[j])
      /\ Named(list, p.name) # {} => i \in 1..Len(list) /\ list[i].name = p.name
      /\ Named(list, p.name) = {} => i = Len(list) + 1
  BY <1>1 DEF PutAt
<1>3. i \in 1..Len(list) => list[i].name = p.name
  BY <1>0, <1>2
<1>4. ASSUME NEW j \in 1..Len(ps), j < d + 1
      PROVE  /\ Named(new, ps[j].name) # {}
             /\ (\A l \in 1..Len(ps) : j < l /\ l < d + 1 => ps[l].name # ps[j].name) =>
                    new[First(Named(new, ps[j].name))] = ps[j]
  <2>1. CASE j = d
    BY <1>2, <2>1 DEF p
  <2>2. CASE j # d /\ ps[j].name = p.name
    <3>1. j < d /\ d \in 1..Len(ps) /\ d < d + 1
      BY <1>0, <1>4, <2>2 DEF ps
    <3> QED
      BY <1>2, <2>2, <3>1 DEF p
  <2>3. CASE ps[j].name # p.name
    <3> DEFINE n == ps[j].name
    <3>1. j < d
      BY <1>0, <1>4, <2>3 DEF p
    <3>2. /\ Named(list, n) # {}
          /\ (\A l \in 1..Len(ps) : j < l /\ l < d => ps[l].name # n) =>
                 list[First(Named(list, n))] = ps[j]
      BY <3>1 DEF PropertiesMerged, ps
    <3> HIDE DEF n
    <3>3. Named(new, n) = Named(list, n)
      BY <1>2, <2>3 DEF n
    <3>4. First(Named(list, n)) \in 1..Len(list) /\ list[First(Named(list, n))].name = n
      <4>1. Named(list, n) \in SUBSET Nat
        BY DEF Named
      <4>2. First(Named(list, n)) \in Named(list, n)
        BY <3>2, <4>1, FirstFound
      <4> QED
        BY <4>2 DEF Named
    <3>5. new[First(Named(list, n))] = list[First(Named(list, n))]
      BY <1>2, <1>3, <2>3, <3>4 DEF n
    <3>6. (\A l \in 1..Len(ps) : j < l /\ l < d + 1 => ps[l].name # n) =>
              (\A l \in 1..Len(ps) : j < l /\ l < d => ps[l].name # n)
      BY <1>0
    <3> QED
      BY <3>2, <3>3, <3>5, <3>6 DEF n
  <2> QED
    BY <2>1, <2>2, <2>3
<1>5. ASSUME r.meta # NULL, r.meta.properties # <<>>
      PROVE  LET q == r.meta.properties[1]
             IN  /\ new # <<>> /\ new[1].name = q.name
                 /\ \/ new[1] = q
                    \/ \E l \in 1..Len(ps) : l < d + 1 /\ ps[l].name = q.name
  <2> DEFINE q == r.meta.properties[1]
  <2>1. /\ list # <<>> /\ list[1].name = q.name
        /\ \/ list[1] = q
           \/ \E l \in 1..Len(ps) : l < d /\ ps[l].name = q.name
    BY <1>5 DEF PropertiesMerged, ps
  <2> HIDE DEF q
  <2>2. 1 \in 1..Len(list)
    BY <2>1
  <2>3. 1 \in 1..Len(new)
    BY <1>2, <2>2
  <2>4. new # <<>>
    BY <2>3
  <2>5. CASE i = 1
    <3>1. new[1] = p /\ p.name = q.name
      BY <1>2, <1>3, <2>1, <2>2, <2>5
    <3>2. d \in 1..Len(ps) /\ d < d + 1
      BY <1>0 DEF ps
    <3> QED
      BY <2>4, <3>1, <3>2 DEF p, q
  <2>6. CASE i # 1
    <3>1. new[1] = list[1]
      BY <1>2, <2>2, <2>6
    <3>2. (\E l \in 1..Len(ps) : l < d /\ ps[l].name = q.name) =>
              \E l \in 1..Len(ps) : l < d + 1 /\ ps[l].name = q.name
      BY <1>0
    <3> QED
      BY <2>1, <2>4, <3>1, <3>2 DEF q
  <2> QED
    BY <2>5, <2>6
<1>6. PropertiesMerged(r, new, d + 1)
  BY <1>4, <1>5 DEF PropertiesMerged, ps
<1> QED
  BY <1>6 DEF new, i, p, ps

-----------------------------------------------------------------------------
(***************************************************************************)
(* The same when the merge has been applied before.                        *)
(***************************************************************************)

LEMMA FieldAgain ==
    ASSUME NEW ts \in Seq(Transducer), NEW k \in 1..Len(ts), NEW n, NEW f, NEW was, NEW is, NEW new,
           new = IF ts[k].name = n THEN Given(Field(ts[k], f), is) ELSE is,
           FieldMerged(ts, n, f, Len(ts) + 1, was),
           \/ is = was
           \/ \E i \in 1..Len(ts) : ~(i < k) /\ Gives(ts[i], n, f)
    PROVE  \/ new = was
           \/ \E i \in 1..Len(ts) : ~(i < k + 1) /\ Gives(ts[i], n, f)
<1>0. Len(ts) \in Nat /\ k \in Nat
  OBVIOUS
<1>1. CASE \E i \in 1..Len(ts) : ~(i < k + 1) /\ Gives(ts[i], n, f)
  BY <1>1
<1>2. CASE /\ \A i \in 1..Len(ts) : ~(i < k + 1) => ~Gives(ts[i], n, f)
           /\ Gives(ts[k], n, f)
  <2>1. k < Len(ts) + 1 /\ \A j \in 1..Len(ts) : k < j => ~(j < k + 1)
    BY <1>0
  <2>2. was = Field(ts[k], f)
    BY <1>2, <2>1 DEF FieldMerged
  <2>3. new = Field(ts[k], f)
    BY <1>2 DEF Gives, Given
  <2> QED
    BY <2>2, <2>3
<1>3. CASE /\ \A i \in 1..Len(ts) : ~(i < k + 1) => ~Gives(ts[i], n, f)
           /\ ~Gives(ts[k], n, f)
  <2>1. new = is
    BY <1>3 DEF Gives, Given
  <2>2. \A i \in 1..Len(ts) : ~(i < k) => ~Gives(ts[i], n, f)
    BY <1>0, <1>3
  <2> QED
    BY <2>1, <2>2
<1> QED
  BY <1>1, <1>2, <1>3

LEMMA PropertyAgain ==
    ASSUME NEW ts \in Seq(Transducer), NEW k \in 1..Len(ts), NEW u \in 1..Len(ts[k].properties),
           NEW n, NEW q, NEW was, PropertyMerged(ts, n, q, Len(ts) + 1, 1, was)
    PROVE  /\ GivesProperty(ts[k], u, n, q) =>
                 was = {ts[k].properties[u].value} \/ PropertyPending(ts, n, q, k, u + 1)
           /\ PropertyPending(ts, n, q, k, u) =>
                 GivesProperty(ts[k], u, n, q) \/ PropertyPending(ts, n, q, k, u + 1)
<1>0. Len(ts) \in Nat /\ k \in Nat /\ u \in Nat /\ Len(ts[k].properties) \in Nat
  BY PropertyPositions
<1>1. \A i, v \in Nat : /\ Before(i, v, k, u + 1) <=> Before(i, v, k, u) \/ (i = k /\ v = u)
                        /\ Before(k, u, i, v) => ~Before(i, v, k, u + 1)
  BY <1>0 DEF Before
<1>2. \A i \in 1..Len(ts) : i \in Nat /\ \A v \in 1..Len(ts[i].properties) : v \in Nat
  BY <1>0, PropertyPositions
<1>3. CASE \E i \in 1..Len(ts) : \E v \in 1..Len(ts[i].properties) :
               ~Before(i, v, k, u + 1) /\ GivesProperty(ts[i], v, n, q)
  BY <1>3 DEF PropertyPending
<1>4. CASE /\ \A i \in 1..Len(ts) : \A v \in 1..Len(ts[i].properties) :
                  ~Before(i, v, k, u + 1) => ~GivesProperty(ts[i], v, n, q)
           /\ GivesProperty(ts[k], u, n, q)
  <2>1. Before(k, u, Len(ts) + 1, 1)
    BY <1>0 DEF Before
  <2>2. \A j \in 1..Len(ts) : \A w \in 1..Len(ts[j].properties) :
            Before(k, u, j, w) => ~GivesProperty(ts[j], w, n, q)
    BY <1>1, <1>2, <1>4
  <2>3. was = {ts[k].properties[u].value}
    BY <1>4, <2>1, <2>2 DEF PropertyMerged
  <2> QED
    BY <1>4, <2>3
<1>5. CASE /\ \A i \in 1..Len(ts) : \A v \in 1..Len(ts[i].properties) :
                  ~Before(i, v, k, u + 1) => ~GivesProperty(ts[i], v, n, q)
           /\ ~GivesProperty(ts[k], u, n, q)
  <2>1. \A i \in 1..Len(ts) : \A v \in 1..Len(ts[i].properties) :
            ~Before(i, v, k, u) => ~GivesProperty(ts[i], v, n, q)
    BY <1>1, <1>2, <1>5
  <2> QED
    BY <1>5, <2>1 DEF PropertyPending
<1> QED
  BY <1>3, <1>4, <1>5

LEMMA ShapeOfMembers ==
    ASSUME NEW g, NEW h
    PROVE  SameShape(g, h) <=> /\ g = NULL <=> h = NULL
                               /\ Member(g, "alt") = NULL <=> Member(h, "alt") = NULL
BY DEF SameShape, Member

LEMMA TransducerAgainStep ==
    ASSUME NEW ts \in Seq(Transducer), NEW k \in 1..Len(ts), NEW was, NEW is, NEW new,
           TransducerMerged(ts, was.name, was, Len(ts) + 1, Len(ts) + 1, 1),
           TransducerAgain(ts, was, is, k, k, 1),
           new.name = was.name, OverwrittenBy(ts[k], was.name, is, new)
    PROVE  TransducerAgain(ts, was, new, k + 1, k, 1)
<1>0. Len(ts) \in Nat /\ k \in Nat /\ k < Len(ts) + 1
  OBVIOUS
<1>1. ASSUME NEW f \in Fields
      PROVE  \/ Field(new, f) = Field(was, f)
             \/ \E i \in 1..Len(ts) : ~(i < k + 1) /\ Gives(ts[i], was.name, f)
  <2>1. Field(new, f) = IF ts[k].name = was.name THEN Given(Field(ts[k], f), Field(is, f))
                        ELSE Field(is, f)
    BY DEF OverwrittenBy
  <2>2. FieldMerged(ts, was.name, f, Len(ts) + 1, Field(was, f))
    BY DEF TransducerMerged
  <2>3. \/ Field(is, f) = Field(was, f)
        \/ \E i \in 1..Len(ts) : ~(i < k) /\ Gives(ts[i], was.name, f)
    BY DEF TransducerAgain
  <2> QED
    BY <2>1, <2>2, <2>3, FieldAgain
<1>2. SameShape(new.geoloc, was.geoloc)
  <2>1. /\ is.geoloc = NULL <=> was.geoloc = NULL
        /\ Member(is.geoloc, "alt") = NULL <=> Member(was.geoloc, "alt") = NULL
    BY ShapeOfMembers DEF TransducerAgain
  <2>2. ts[k].name = was.name =>
            /\ ts[k].geoloc # NULL => was.geoloc # NULL
            /\ Member(ts[k].geoloc, "alt") # NULL => Member(was.geoloc, "alt") # NULL
    BY <1>0 DEF TransducerMerged
  <2>3. /\ new.geoloc = NULL <=> was.geoloc = NULL
        /\ Member(new.geoloc, "alt") = NULL <=> Member(was.geoloc, "alt") = NULL
    BY <2>1, <2>2 DEF OverwrittenBy, Given
  <2> QED
    BY <2>3, ShapeOfMembers
<1>3. new.properties = is.properties
  BY DEF OverwrittenBy
<1> QED
  BY <1>1, <1>2, <1>3 DEF TransducerAgain

\* Lists with the same names in the same places.
LEMMA NamesInPlace ==
    ASSUME NEW was \in Seq(Transducer), Unique(was), NEW list \in Seq(Transducer),
           Len(list) = Len(was), \A x \in 1..Len(was) : list[x].name = was[x].name
    PROVE  /\ \A n : Named(list, n) = Named(was, n)
           /\ Unique(list)
           /\ \A x \in 1..Len(was) : /\ TransducerOf(list, was[x].name) = list[x]
                                     /\ Named(was, was[x].name) = {x}
<1>1. \A n : Named(list, n) = Named(was, n)
  BY DEF Named
<1>2. Unique(list)
  BY <1>1 DEF Unique
<1>3. ASSUME NEW x \in 1..Len(was)
      PROVE  TransducerOf(list, was[x].name) = list[x] /\ Named(was, was[x].name) = {x}
  <2>1. Named(was, was[x].name) = {x} /\ First(Named(was, was[x].name)) = x
    BY NamesOfElements, UniquePosition
  <2> QED
    BY <1>1, <2>1 DEF TransducerOf
<1> QED
  BY <1>1, <1>2, <1>3

\* What a merge into an item that it has been applied to finds there.
LEMMA MergedBefore ==
    ASSUME NEW ts, NEW was \in Seq(Transducer), Unique(was), NEW k, NEW j, NEW u,
           TransducersMerged(ts, was, k, j, u), NEW x \in 1..Len(was)
    PROVE  TransducerMerged(ts, was[x].name, was[x], k, j, u)
<1>1. TransducerOf(was, was[x].name) = was[x]
  BY NamesInPlace
<1>2. was[x].name \in Names
  BY NamesOfElements
<1> QED
  BY <1>1, <1>2 DEF TransducersMerged

LEMMA TransducersAgainStep ==
    ASSUME NEW ts \in Seq(Transducer), NEW k \in 1..Len(ts),
           NEW was \in Seq(Transducer), Unique(was), NEW list \in Seq(Transducer),
           TransducersMerged(ts, was, Len(ts) + 1, Len(ts) + 1, 1),
           TransducersAgain(ts, was, list, k, k, 1)
    PROVE  TransducersAgain(ts, was, TransducerMerge(list, ts[k]), k + 1, k, 1)
<1> DEFINE t == ts[k]
           new == TransducerMerge(list, t)
           i == Slot(list, t.name)
<1>0. Len(ts) \in Nat /\ k \in Nat /\ k < Len(ts) + 1 /\ t \in Transducer /\ Len(list) \in Nat
  OBVIOUS
<1>1. Len(list) = Len(was) /\ \A x \in 1..Len(was) : list[x].name = was[x].name
  BY DEF TransducersAgain, TransducerAgain
<1>2. /\ \A n : Named(list, n) = Named(was, n) /\ Unique(list)
      /\ \A x \in 1..Len(was) : TransducerOf(list, was[x].name) = list[x]
  BY <1>1, NamesInPlace
<1>3. Named(list, t.name) # {}
  BY <1>0, <1>2 DEF TransducersMerged
<1>4. i \in 1..Len(list) /\ list[i].name = t.name
  BY <1>3, TransducerOfType DEF Slot
<1>5. /\ new \in Seq(Transducer)
      /\ Len(new) = IF i > Len(list) THEN Len(list) + 1 ELSE Len(list)
      /\ new[i].name = t.name
      /\ \A j \in 1..Len(list) : j # i => new[j] = list[j]
  BY <1>0, TransducerMergeEffect
<1>6. \A n : OverwrittenBy(t, n, TransducerOf(list, n), TransducerOf(new, n))
  BY <1>0, MergeOverwrites
<1> HIDE DEF i, new
<1>7. Len(new) = Len(was)
  BY <1>0, <1>1, <1>4, <1>5
<1>8. \A x \in 1..Len(was) : new[x].name = was[x].name
  BY <1>1, <1>4, <1>5
<1>9. \A x \in 1..Len(was) : TransducerOf(new, was[x].name) = new[x]
  BY <1>5, <1>7, <1>8, NamesInPlace
<1>10. ASSUME NEW x \in 1..Len(was)
       PROVE  TransducerAgain(ts, was[x], new[x], k + 1, k, 1)
  <2>1. OverwrittenBy(t, was[x].name, list[x], new[x])
    BY <1>2, <1>6, <1>9
  <2>2. TransducerMerged(ts, was[x].name, was[x], Len(ts) + 1, Len(ts) + 1, 1)
    BY MergedBefore
  <2>3. TransducerAgain(ts, was[x], list[x], k, k, 1)
    BY DEF TransducersAgain
  <2> QED
    BY <1>8, <2>1, <2>2, <2>3, TransducerAgainStep
<1>11. TransducersAgain(ts, was, new, k + 1, k, 1)
  BY <1>7, <1>10 DEF TransducersAgain
<1> QED
  BY <1>11 DEF new

LEMMA TransducerAgainPropertyStep ==
    ASSUME NEW ts \in Seq(Transducer), NEW k \in 1..Len(ts), NEW u \in 1..Len(ts[k].properties),
           NEW was, NEW is, NEW new, NEW m,
           TransducerMerged(ts, was.name, was, Len(ts) + 1, Len(ts) + 1, 1),
           TransducerAgain(ts, was, is, m, k, u),
           new.name = was.name, PropertyGivenBy(ts[k], u, was.name, is, new),
           Len(new.properties) = Len(is.properties),
           \A y \in 1..Len(is.properties) : new.properties[y].name = is.properties[y].name
    PROVE  TransducerAgain(ts, was, new, m, k, u + 1)
<1>1. ASSUME NEW q \in Names
      PROVE  \/ ValuesOf(new.properties, q) = ValuesOf(was.properties, q)
             \/ PropertyPending(ts, was.name, q, k, u + 1)
  <2>1. ValuesOf(new.properties, q) =
            IF GivesProperty(ts[k], u, was.name, q) THEN {ts[k].properties[u].value}
            ELSE ValuesOf(is.properties, q)
    BY DEF PropertyGivenBy
  <2>2. PropertyMerged(ts, was.name, q, Len(ts) + 1, 1, ValuesOf(was.properties, q))
    BY DEF TransducerMerged
  <2>3. \/ ValuesOf(is.properties, q) = ValuesOf(was.properties, q)
        \/ PropertyPending(ts, was.name, q, k, u)
    BY DEF TransducerAgain
  <2>4. /\ GivesProperty(ts[k], u, was.name, q) =>
              \/ ValuesOf(was.properties, q) = {ts[k].properties[u].value}
              \/ PropertyPending(ts, was.name, q, k, u + 1)
        /\ PropertyPending(ts, was.name, q, k, u) =>
              \/ GivesProperty(ts[k], u, was.name, q)
              \/ PropertyPending(ts, was.name, q, k, u + 1)
    BY <2>2, PropertyAgain
  <2> QED
    BY <2>1, <2>3, <2>4
<1>2. new.geoloc = is.geoloc /\ \A f \in Fields : Field(new, f) = Field(is, f)
  BY DEF PropertyGivenBy
<1>3. /\ Len(new.properties) = Len(was.properties)
      /\ \A y \in 1..Len(was.properties) : new.properties[y].name = was.properties[y].name
  BY DEF TransducerAgain
<1>4. /\ SameShape(new.geoloc, was.geoloc)
      /\ \A f \in Fields : \/ Field(new, f) = Field(was, f)
                           \/ \E i \in 1..Len(ts) : ~(i < m) /\ Gives(ts[i], was.name, f)
  BY <1>2 DEF TransducerAgain
<1> QED
  BY <1>1, <1>3, <1>4 DEF TransducerAgain

LEMMA TransducersAgainPropertyStep ==
    ASSUME NEW ts \in Seq(Transducer), NEW k \in 1..Len(ts), NEW u \in 1..Len(ts[k].properties),
           NEW was \in Seq(Transducer), Unique(was), NEW list \in Seq(Transducer), NEW m,
           TransducersMerged(ts, was, Len(ts) + 1, Len(ts) + 1, 1),
           TransducersAgain(ts, was, list, m, k, u),
           NEW i \in 1..Len(list), ts[k].name = list[i].name
    PROVE  TransducersAgain(ts, was, WithProperty(list, i, ts[k].properties[u]), m, k, u + 1)
<1> DEFINE t == ts[k]
           p == t.properties[u]
           new == WithProperty(list, i, p)
<1>0. t \in Transducer /\ t.properties \in Seq(Property)
  BY PropertyPositions
<1>1. p \in Property
  BY <1>0
<1>2. Len(list) = Len(was) /\ \A x \in 1..Len(was) : list[x].name = was[x].name
  BY DEF TransducersAgain, TransducerAgain
<1>3. /\ Unique(list)
      /\ \A x \in 1..Len(was) : TransducerOf(list, was[x].name) = list[x]
  BY <1>2, NamesInPlace
<1>4. /\ new \in Seq(Transducer) /\ Len(new) = Len(list)
      /\ new[i].properties = TransducerPropertyMerge(list[i].properties, p)
      /\ new[i].name = list[i].name
      /\ \A j \in 1..Len(list) : j # i => new[j] = list[j]
  BY <1>1, WithPropertyEffect
<1>5. \A n : PropertyGivenBy(t, u, n, TransducerOf(list, n), TransducerOf(new, n))
  BY <1>0, <1>3, WithPropertyGives
<1> HIDE DEF new, p
<1>6. \A x \in 1..Len(was) : new[x].name = was[x].name
  BY <1>2, <1>4
<1>7. \A x \in 1..Len(was) : TransducerOf(new, was[x].name) = new[x]
  BY <1>2, <1>4, <1>6, NamesInPlace
<1>8. /\ Len(new[i].properties) = Len(list[i].properties)
      /\ \A y \in 1..Len(list[i].properties) :
            new[i].properties[y].name = list[i].properties[y].name
  <2> DEFINE ps == list[i].properties
             old_ == was[i].properties
  <2>1. TransducerMerged(ts, was[i].name, was[i], Len(ts) + 1, Len(ts) + 1, 1)
    BY <1>2, MergedBefore
  <2>2. p.name \in Names
    BY <1>1, NamesOfElements
  <2>3. PropertyMerged(ts, was[i].name, p.name, Len(ts) + 1, 1, ValuesOf(old_, p.name))
    BY <2>1, <2>2 DEF TransducerMerged
  <2>4. Before(k, u, Len(ts) + 1, 1) /\ GivesProperty(t, u, was[i].name, p.name)
    BY <1>2 DEF Before, GivesProperty, p
  <2>5. ValuesOf(old_, p.name) # {}
    BY <2>3, <2>4 DEF PropertyMerged
  <2>6. Named(old_, p.name) # {}
    BY <2>5 DEF ValuesOf
  <2>7. Len(ps) = Len(old_) /\ \A y \in 1..Len(old_) : ps[y].name = old_[y].name
    BY <1>2 DEF TransducersAgain, TransducerAgain
  <2>8. Named(ps, p.name) # {}
    BY <2>6, <2>7 DEF Named
  <2>9. ps \in Seq(Property)
    BY PropertyPositions
  <2> HIDE DEF ps
  <2>10. LET merged == TransducerPropertyMerge(ps, p)
         IN  /\ Len(merged) = Len(ps)
             /\ \A y \in 1..Len(ps) : merged[y].name = ps[y].name
    BY <1>1, <2>8, <2>9, TransducerPropertyMergeValues
  <2> QED
    BY <1>4, <2>10 DEF ps
<1>9. ASSUME NEW x \in 1..Len(was)
      PROVE  TransducerAgain(ts, was[x], new[x], m, k, u + 1)
  <2>1. PropertyGivenBy(t, u, was[x].name, list[x], new[x])
    BY <1>3, <1>5, <1>7
  <2>2. TransducerMerged(ts, was[x].name, was[x], Len(ts) + 1, Len(ts) + 1, 1)
    BY MergedBefore
  <2>3. TransducerAgain(ts, was[x], list[x], m, k, u)
    BY DEF TransducersAgain
  <2>4. /\ Len(new[x].properties) = Len(list[x].properties)
        /\ \A y \in 1..Len(list[x].properties) :
              new[x].properties[y].name = list[x].properties[y].name
    BY <1>2, <1>4, <1>8
  <2> QED
    BY <1>6, <2>1, <2>2, <2>3, <2>4, TransducerAgainPropertyStep
<1>10. TransducersAgain(ts, was, new, m, k, u + 1)
  BY <1>2, <1>4, <1>9 DEF TransducersAgain
<1> QED
  BY <1>10 DEF new, p

LEMMA TransducersAgainNext ==
    ASSUME NEW ts \in Seq(Transducer), NEW k \in 1..Len(ts), NEW u \in Nat,
           u > Len(ts[k].properties), NEW m, NEW was, NEW list,
           TransducersAgain(ts, was, list, m, k, u)
    PROVE  TransducersAgain(ts, was, list, m, k + 1, 1)
<1>1. \A i \in 1..Len(ts) : \A v \in 1..Len(ts[i].properties) :
          Before(i, v, k, u) <=> Before(i, v, k + 1, 1)
  BY SamePosition
<1>2. ASSUME NEW x \in 1..Len(was) PROVE TransducerAgain(ts, was[x], list[x], m, k + 1, 1)
  <2>1. TransducerAgain(ts, was[x], list[x], m, k, u)
    BY DEF TransducersAgain
  <2> QED
    BY <1>1, <2>1 DEF TransducerAgain, PropertyPending
<1> QED
  BY <1>2 DEF TransducersAgain

LEMMA PropertiesAgainStep ==
    ASSUME NEW r, r.properties \in Seq(Property), NEW d \in 1..Len(r.properties),
           NEW was \in Seq(Property), NEW list \in Seq(Property),
           PropertiesMerged(r, was, Len(r.properties) + 1),
           PropertiesAgain(r.properties, was, list, d)
    PROVE  PropertiesAgain(r.properties, was,
                           Put(list, Slot(list, r.properties[d].name), r.properties[d]), d + 1)
<1> DEFINE ps == r.properties
           p == ps[d]
           i == Slot(list, p.name)
           new == Put(list, i, p)
<1>0. Len(ps) \in Nat /\ d \in Nat /\ d < Len(ps) + 1 /\ Len(list) \in Nat /\ p \in Property
  OBVIOUS
<1>1. /\ Named(was, p.name) # {}
      /\ (\A j \in 1..Len(ps) : d < j => ps[j].name # p.name) => was[First(Named(was, p.name))] = p
  BY <1>0 DEF PropertiesMerged
<1>2. /\ Len(list) = Len(was)
      /\ \A x \in 1..Len(was) :
          /\ list[x].name = was[x].name
          /\ \/ list[x] = was[x]
             \/ /\ x = First(Named(was, was[x].name))
                /\ \E j \in 1..Len(ps) : ~(j < d) /\ ps[j].name = was[x].name
  BY DEF PropertiesAgain
<1> HIDE DEF ps, p
<1>3. Named(list, p.name) = Named(was, p.name)
  BY <1>2 DEF Named
<1>4. PutAt(list, p, i, new)
  BY <1>0, PutNamed
<1> HIDE DEF i, new
<1>5. /\ new[i] = p /\ Len(new) = Len(list)
      /\ i = First(Named(was, p.name)) /\ i \in 1..Len(list) /\ list[i].name = p.name
      /\ \A j \in 1..Len(list) : j # i => new[j] = list[j]
  BY <1>1, <1>3, <1>4 DEF PutAt
<1>6. ASSUME NEW x \in 1..Len(was)
      PROVE  /\ new[x].name = was[x].name
             /\ \/ new[x] = was[x]
                \/ /\ x = First(Named(was, was[x].name))
                   /\ \E j \in 1..Len(ps) : ~(j < d + 1) /\ ps[j].name = was[x].name
  <2>1. CASE x = i
    <3>1. was[x].name = p.name /\ new[x] = p
      BY <1>2, <1>5, <2>1
    <3>2. CASE \E j \in 1..Len(ps) : d < j /\ ps[j].name = p.name
      <4>1. \E j \in 1..Len(ps) : ~(j < d + 1) /\ ps[j].name = p.name
        BY <1>0, <3>2
      <4> QED
        BY <1>5, <2>1, <3>1, <4>1
    <3>3. CASE ~\E j \in 1..Len(ps) : d < j /\ ps[j].name = p.name
      BY <1>1, <1>5, <2>1, <3>1, <3>3
    <3> QED
      BY <3>2, <3>3
  <2>2. CASE x # i
    <3>1. new[x] = list[x]
      BY <1>2, <1>5, <2>2
    <3>2. CASE list[x] = was[x]
      BY <3>1, <3>2
    <3>3. CASE list[x] # was[x]
      <4>1. PICK j \in 1..Len(ps) : ~(j < d) /\ ps[j].name = was[x].name
        BY <1>2, <3>3
      <4>2. x = First(Named(was, was[x].name))
        BY <1>2, <3>3
      <4>3. j # d
        BY <1>5, <2>2, <4>1, <4>2 DEF p
      <4>4. ~(j < d + 1)
        BY <1>0, <4>1, <4>3
      <4> QED
        BY <1>2, <3>1, <4>1, <4>2, <4>4
    <3> QED
      BY <3>2, <3>3
  <2> QED
    BY <2>1, <2>2
<1>7. PropertiesAgain(ps, was, new, d + 1)
  BY <1>2, <1>5, <1>6 DEF PropertiesAgain
<1> QED
  BY <1>7 DEF new, i, p, ps

-----------------------------------------------------------------------------
(***************************************************************************)
(* Where a merge begins.                                                   *)
(***************************************************************************)

LEMMA NothingMerged ==
    ASSUME NEW ts \in Seq(Transducer), NEW list
    PROVE  /\ TransducersMerged(ts, list, 1, 1, 1)
           /\ TransducersUntouched(ts, list, list, 1, 1, 1)
<1>1. \A i \in 1..Len(ts) : ~(i < 1) /\ \A v \in 1..Len(ts[i].properties) : ~Before(i, v, 1, 1)
  <2> SUFFICES ASSUME NEW i \in 1..Len(ts)
               PROVE  ~(i < 1) /\ \A v \in 1..Len(ts[i].properties) : ~Before(i, v, 1, 1)
    OBVIOUS
  <2>1. Len(ts) \in Nat /\ Len(ts[i].properties) \in Nat
    BY PropertyPositions
  <2> QED
    BY <2>1 DEF Before
<1>2. \A n, f, is : FieldMerged(ts, n, f, 1, is) /\ FieldKept(ts, n, f, 1, is, is)
  BY <1>1 DEF FieldMerged, FieldKept
<1>3. \A n, q, is : PropertyMerged(ts, n, q, 1, 1, is) /\ PropertyKept(ts, n, q, 1, 1, is, is)
  BY <1>1 DEF PropertyMerged, PropertyKept
<1>4. TransducersMerged(ts, list, 1, 1, 1)
  BY <1>1, <1>2, <1>3 DEF TransducersMerged, TransducerMerged
<1>5. TransducersUntouched(ts, list, list, 1, 1, 1)
  BY <1>2, <1>3 DEF TransducersUntouched, TransducerKept
<1> QED
  BY <1>4, <1>5

\* mio_meta_merge, member by member.
LEMMA MetaMergeDevice ==
    ASSUME NEW m \in Meta, NEW new \in Meta
    PROVE  LET w == MetaMerge(m, new)
           IN  /\ DeviceMerged(new, w)
               /\ w.type = IF new.type = "unknown" THEN m.type ELSE new.type
               /\ w.text = Given(new.text, m.text)
               /\ \A f \in {"accuracy", "alt", "region"} :
                     Member(w.geoloc, f) = Given(Member(new.geoloc, f), Member(m.geoloc, f))
               /\ DeviceMerged(new, m) => DeviceAgain(m, w)
<1> DEFINE w == MetaMerge(m, new)
<1>1. /\ w.type = IF new.type # "unknown" THEN new.type ELSE m.type
      /\ w.text = Given(new.text, m.text)
      /\ w.geoloc = GeolocMerge(m.geoloc, new.geoloc)
  BY DEF MetaMerge
<1> HIDE DEF w
<1>2. /\ w.geoloc = NULL <=> m.geoloc = NULL /\ new.geoloc = NULL
      /\ \A f \in {"accuracy", "alt", "region"} :
            Member(w.geoloc, f) = Given(Member(new.geoloc, f), Member(m.geoloc, f))
  <2>1. m.geoloc \in Geolocs /\ new.geoloc \in Geolocs
    BY MetaFields
  <2> QED
    BY <1>1, <2>1, GeolocMergeMembers
<1>3. DeviceMerged(new, w)
  BY <1>1, <1>2 DEF DeviceMerged, Given, Member
<1>4. ASSUME DeviceMerged(new, m) PROVE DeviceAgain(m, w)
  <2>1. w.type = m.type /\ w.text = m.text
    BY <1>1, <1>4 DEF DeviceMerged, Given
  <2>2. new.geoloc # NULL => m.geoloc # NULL
    BY <1>4 DEF DeviceMerged
  <2>3. w.geoloc = NULL <=> m.geoloc = NULL
    BY <1>2, <2>2
  <2>4. Member(w.geoloc, "alt") = NULL <=> Member(m.geoloc, "alt") = NULL
    BY <1>2, <1>4 DEF DeviceMerged, Given, Member
  <2>5. \A f \in {"accuracy", "region"} : Member(w.geoloc, f) = Member(m.geoloc, f)
    BY <1>2, <1>4 DEF DeviceMerged, Given, Member
  <2> QED
    BY <2>1, <2>3, <2>4, <2>5, ShapeOfMembers DEF DeviceAgain, Member
<1> QED
  BY <1>1, <1>2, <1>3, <1>4 DEF w

LEMMA MetaMergeProperties ==
    ASSUME NEW r, r.properties \in Seq(Property), NEW m \in Meta, r.meta \in Meta
    PROVE  LET w == MetaMerge(m, r.meta)
           IN  /\ PropertiesMerged(r, w.properties, 1)
               /\ PropertiesMerged(r, m.properties, Len(r.properties) + 1) =>
                     PropertiesAgain(r.properties, m.properties, w.properties, 1)
<1> DEFINE ps == r.properties
           was == m.properties
           new == r.meta.properties
           list == MetaMerge(m, r.meta).properties
<1>0. /\ Len(ps) \in Nat /\ was \in Seq(Property) /\ new \in Seq(Property)
      /\ \A i \in 1..Len(ps) : ~(i < 1)
  <2>1. was \in Seq(Property) /\ new \in Seq(Property)
    BY MetaFields
  <2> QED
    BY <2>1
<1>1. list = IF new = <<>> THEN was ELSE IF was = <<>> THEN <<new[1]>>
             ELSE [was EXCEPT ![1] = new[1]]
  BY DEF MetaMerge
<1> HIDE DEF list, was
<1>2. r.meta # NULL
  BY MetaConstants
<1>3. new # <<>> => list # <<>> /\ list[1] = new[1]
  <2>1. CASE was = <<>>
    BY <1>1, <2>1
  <2>2. CASE was # <<>> /\ new # <<>>
    <3>1. list = [was EXCEPT ![1] = new[1]]
      BY <1>1, <2>2
    <3>2. 1 \in 1..Len(was) /\ Len(list) = Len(was) /\ list[1] = new[1]
      BY <1>0, <2>2, <3>1
    <3> QED
      BY <3>2
  <2> QED
    BY <2>1, <2>2
<1>4. PropertiesMerged(r, list, 1)
  BY <1>0, <1>2, <1>3 DEF PropertiesMerged
<1>5. ASSUME PropertiesMerged(r, was, Len(ps) + 1)
      PROVE  PropertiesAgain(ps, was, list, 1)
  <2>1. CASE new = <<>>
    <3>1. list = was
      BY <1>1, <2>1
    <3> QED
      BY <3>1 DEF PropertiesAgain
  <2>2. CASE new # <<>>
    <3>1. /\ was # <<>> /\ was[1].name = new[1].name
          /\ \/ was[1] = new[1]
             \/ \E i \in 1..Len(ps) : ps[i].name = new[1].name
      BY <1>2, <1>5, <2>2 DEF PropertiesMerged
    <3>2. /\ 1 \in 1..Len(was) /\ Len(list) = Len(was) /\ list[1] = new[1]
          /\ \A x \in 1..Len(was) : x # 1 => list[x] = was[x]
      BY <1>0, <1>1, <2>2, <3>1
    <3>3. First(Named(was, was[1].name)) = 1
      <4>1. 1 \in Named(was, was[1].name) /\ Named(was, was[1].name) \in SUBSET (Nat \ {0})
        BY <1>0, <3>2 DEF Named
      <4>2. \A i \in Named(was, was[1].name) : 1 <= i
        BY <4>1
      <4>3. First(Named(was, was[1].name)) \in Named(was, was[1].name)
        BY <4>1, FirstFound
      <4>4. \E i \in Named(was, was[1].name) : \A j \in Named(was, was[1].name) : i <= j
        BY <4>1, <4>2
      <4>5. First(Named(was, was[1].name)) <= 1
        BY <4>1, <4>4 DEF First
      <4>6. First(Named(was, was[1].name)) \in Nat \ {0}
        BY <4>1, <4>3
      <4> QED
        BY <4>5, <4>6
    <3>4. ASSUME NEW x \in 1..Len(was)
          PROVE  /\ list[x].name = was[x].name
                 /\ \/ list[x] = was[x]
                    \/ /\ x = First(Named(was, was[x].name))
                       /\ \E i \in 1..Len(ps) : ~(i < 1) /\ ps[i].name = was[x].name
      <4>1. CASE x # 1
        BY <3>2, <4>1
      <4>2. CASE x = 1
        BY <1>0, <3>1, <3>2, <3>3, <4>2
      <4> QED
        BY <4>1, <4>2
    <3> QED
      BY <3>2, <3>4 DEF PropertiesAgain
  <2> QED
    BY <2>1, <2>2
<1> QED
  BY <1>4, <1>5 DEF list, was

LEMMA MetaReadMembers ==
    ASSUME NEW m \in Meta
    PROVE  /\ MetaRead(m).type = m.type /\ MetaRead(m).text = m.text
           /\ MetaRead(m).geoloc = m.geoloc
           /\ (\A i \in 1..Len(m.transducers) : ~Misread(m.transducers[i])) =>
                  MetaRead(m).transducers = m.transducers
<1>1. /\ MetaRead(m).type = m.type /\ MetaRead(m).text = m.text
      /\ MetaRead(m).geoloc = m.geoloc
  BY DEF MetaRead, Meta
<1>2. ASSUME \A i \in 1..Len(m.transducers) : ~Misread(m.transducers[i])
      PROVE  MetaRead(m).transducers = m.transducers
  <2> DEFINE list == m.transducers
             read == MetaRead(m).transducers
  <2>1. /\ MetaRead(m) \in Meta /\ Len(read) = Len(list)
        /\ \A i \in 1..Len(list) : read[i] = TransducerRead(list[i])
    BY MetaReadEffect
  <2>2. read \in Seq(Transducer) /\ list \in Seq(Transducer)
    BY <2>1, MetaFields
  <2>3. \A i \in 1..Len(list) : TransducerRead(list[i]) = list[i]
    BY <1>2 DEF TransducerRead
  <2> HIDE DEF read, list
  <2>4. read = list
    BY <2>1, <2>2, <2>3
  <2> QED
    BY <2>4 DEF read, list
<1> QED
  BY <1>1, <1>2

LEMMA MergeStarts ==
    ASSUME NEW r \in Calls, r.op = "merge", NEW was \in Meta
    PROVE  LET m == MetaRead(was)
           IN  MergeReached(r, was, IF r.meta = NULL THEN m ELSE MetaMerge(m, r.meta), 1, 1, 1, 1)
<1> DEFINE m == MetaRead(was)
           w == IF r.meta = NULL THEN m ELSE MetaMerge(m, r.meta)
           ts == r.transducers
           ps == r.properties
<1>0. r.meta \in Meta \cup {NULL} /\ ts \in Seq(Transducer) /\ ps \in Seq(Property)
  BY CallFields
<1>1. /\ m \in Meta /\ m.properties = was.properties
      /\ m.type = was.type /\ m.text = was.text /\ m.geoloc = was.geoloc
      /\ (\A i \in 1..Len(was.transducers) : ~Misread(was.transducers[i])) =>
             m.transducers = was.transducers
  BY MetaReadEffect, MetaReadMembers
<1> HIDE DEF m
<1>2. w.transducers = m.transducers
  BY <1>0, <1>1, MetaMergeEffect
<1>3. r.meta # NULL => DeviceMerged(r.meta, w)
  BY <1>0, <1>1, MetaMergeDevice
<1>a. DeviceReached(r, was, w)
  <2>1. CASE r.meta = NULL
    BY <1>1, <2>1 DEF DeviceReached, MetaOf, NoMeta, Given, Member
  <2>2. CASE r.meta # NULL
    BY <1>0, <1>1, <2>2, MetaMergeDevice DEF DeviceReached, MetaOf
  <2> QED
    BY <2>1, <2>2
<1>4. PropertiesMerged(r, w.properties, 1)
  <2>1. CASE r.meta = NULL
    <3>1. \A i \in 1..Len(ps) : ~(i < 1)
      BY <1>0
    <3> QED
      BY <2>1, <3>1 DEF PropertiesMerged
  <2>2. CASE r.meta # NULL
    BY <1>0, <1>1, <2>2, MetaMergeProperties
  <2> QED
    BY <2>1, <2>2
<1>5. /\ TransducersMerged(ts, m.transducers, 1, 1, 1)
      /\ TransducersUntouched(ts, m.transducers, m.transducers, 1, 1, 1)
  BY <1>0, NothingMerged
<1>6. ASSUME Repeats(r, was)
      PROVE  /\ DeviceAgain(was, w)
             /\ TransducersAgain(ts, was.transducers, w.transducers, 1, 1, 1)
             /\ PropertiesAgain(ps, was.properties, w.properties, 1)
  <2>1. m.transducers = was.transducers
    BY <1>1, <1>6 DEF Repeats, NothingMisread
  <2>2. TransducersAgain(ts, was.transducers, w.transducers, 1, 1, 1)
    BY <1>2, <2>1 DEF TransducersAgain, TransducerAgain, SameShape
  <2>3. CASE r.meta = NULL
    BY <1>1, <2>2, <2>3 DEF DeviceAgain, SameShape, PropertiesAgain
  <2>4. CASE r.meta # NULL
    <3>1. DeviceMerged(r.meta, was) /\ PropertiesMerged(r, was.properties, Len(ps) + 1)
      BY <1>6, <2>4 DEF Repeats, Merged
    <3>2. DeviceMerged(r.meta, m)
      BY <1>1, <3>1 DEF DeviceMerged
    <3>3. DeviceAgain(m, w)
      BY <1>0, <1>1, <2>4, <3>2, MetaMergeDevice
    <3>4. DeviceAgain(was, w)
      BY <1>1, <3>3 DEF DeviceAgain
    <3>5. PropertiesAgain(ps, was.properties, w.properties, 1)
      BY <1>0, <1>1, <2>4, <3>1, MetaMergeProperties
    <3> QED
      BY <2>2, <3>4, <3>5
  <2> QED
    BY <2>3, <2>4
<1> HIDE DEF w
<1>7. MergeReached(r, was, w, 1, 1, 1, 1)
  BY <1>2, <1>3, <1>a, <1>4, <1>5, <1>6 DEF MergeReached, m
<1> QED
  BY <1>7 DEF w, m

-----------------------------------------------------------------------------
(***************************************************************************)
(* What a merge publishes.                                                 *)
(***************************************************************************)

\* Transducer t and what is written of it, e: the same but for the info and the
\* number that is written as the altitude.
AltWritten(g, h) ==
    Member(h, "alt") = IF Member(g, "alt") = NULL THEN NULL ELSE Member(g, "accuracy")

SameMembers(t, e) ==
    /\ e.properties = t.properties
    /\ \A f \in Fields : Field(e, f) = Field(t, f)
    /\ e.geoloc = NULL <=> t.geoloc = NULL
    /\ Member(e.geoloc, "alt") = NULL <=> Member(t.geoloc, "alt") = NULL
    /\ AltWritten(t.geoloc, e.geoloc)
    /\ e.info = NULL

LEMMA GeolocToStanzaMembers ==
    ASSUME NEW g \in Geolocs
    PROVE  /\ GeolocToStanza(g) = NULL <=> g = NULL
           /\ \A f \in {"accuracy", "region"} : Member(GeolocToStanza(g), f) = Member(g, f)
           /\ ~AltOnly(g) => (Member(GeolocToStanza(g), "alt") = NULL <=> Member(g, "alt") = NULL)
           /\ AltWritten(g, GeolocToStanza(g))
<1>1. CASE g = NULL
  BY <1>1 DEF GeolocToStanza, Member, AltWritten
<1>2. CASE g # NULL
  <2> DEFINE h == GeolocToStanza(g)
  <2>1. g \in Geoloc
    BY <1>2 DEF Geolocs
  <2>2. h = [accuracy |-> g.accuracy, alt |-> IF g.alt = NULL THEN NULL ELSE g.accuracy,
             region |-> g.region]
    BY <1>2, <2>1 DEF GeolocToStanza, Geoloc
  <2> HIDE DEF h
  <2>3. h \in Geoloc
    BY <2>1, <2>2 DEF Geoloc, Texts
  <2>4. h # NULL
    BY <2>3, MetaConstants
  <2>5. /\ h.accuracy = g.accuracy /\ h.region = g.region
        /\ h.alt = IF g.alt = NULL THEN NULL ELSE g.accuracy
    BY <2>2
  <2> QED
    BY <1>2, <2>4, <2>5 DEF Member, AltOnly, AltWritten, h
<1> QED
  BY <1>1, <1>2

LEMMA TransducerToStanzaMembers ==
    ASSUME NEW t \in Transducer, ~AltOnly(t.geoloc)
    PROVE  SameMembers(t, TransducerToStanza(t))
<1> DEFINE e == TransducerToStanza(t)
<1>1. /\ e.unit = t.unit /\ e.interface = t.interface /\ e.manufacturer = t.manufacturer
      /\ e.geoloc = GeolocToStanza(t.geoloc) /\ e.properties = t.properties /\ e.info = NULL
  BY DEF TransducerToStanza, Transducer
<1>2. t.geoloc \in Geolocs
  BY DEF Transducer
<1> HIDE DEF e
<1>3. /\ e.geoloc = NULL <=> t.geoloc = NULL
      /\ \A f \in {"accuracy", "region"} : Member(e.geoloc, f) = Member(t.geoloc, f)
      /\ Member(e.geoloc, "alt") = NULL <=> Member(t.geoloc, "alt") = NULL
      /\ AltWritten(t.geoloc, e.geoloc)
  BY <1>1, <1>2, GeolocToStanzaMembers
<1>4. ASSUME NEW f \in Fields PROVE Field(e, f) = Field(t, f)
  <2>1. CASE f \in {"accuracy", "region"}
    BY <1>3, <2>1 DEF Field
  <2>2. CASE f \notin {"accuracy", "region"}
    BY <1>1, <2>2 DEF Field, Fields
  <2> QED
    BY <2>1, <2>2
<1> QED
  BY <1>1, <1>3, <1>4 DEF SameMembers, e

LEMMA ItemTransducers ==
    ASSUME NEW w \in Meta, ~Unwritable(w), w.type # "unknown", NEW n
    PROVE  LET is == MetaToItem(w)
           IN  /\ Named(is.transducers, n) = Named(w.transducers, n)
               /\ SameMembers(TransducerOf(w.transducers, n), TransducerOf(is.transducers, n))
<1> DEFINE is == MetaToItem(w)
           list == w.transducers
           new == is.transducers
<1>1. /\ Len(new) = Len(list)
      /\ \A i \in 1..Len(list) : new[i] = TransducerToStanza(list[i])
  BY MetaToItemEffect
<1>2. list \in Seq(Transducer)
  BY MetaFields
<1>3. \A i \in 1..Len(list) : ~AltOnly(list[i].geoloc)
  BY DEF Unwritable
<1> HIDE DEF new, list
<1>4. ASSUME NEW i \in 1..Len(list)
      PROVE  new[i].name = list[i].name /\ SameMembers(list[i], new[i])
  <2>1. list[i] \in Transducer
    BY <1>2
  <2> QED
    BY <1>1, <1>3, <2>1, TransducerToStanzaEffect, TransducerToStanzaMembers
<1>5. Named(new, n) = Named(list, n)
  BY <1>1, <1>4 DEF Named
<1>6. CASE Named(list, n) = {}
  <2>1. TransducerOf(new, n) = TransducerNew /\ TransducerOf(list, n) = TransducerNew
    BY <1>5, <1>6 DEF TransducerOf
  <2>2. SameMembers(TransducerNew, TransducerNew)
    BY DEF SameMembers, AltWritten, Member, TransducerNew
  <2> QED
    BY <1>5, <2>1, <2>2 DEF new, list
<1>7. CASE Named(list, n) # {}
  <2>1. /\ First(Named(list, n)) \in 1..Len(list)
        /\ TransducerOf(list, n) = list[First(Named(list, n))]
    BY <1>2, <1>7, TransducerOfType
  <2>2. TransducerOf(new, n) = new[First(Named(list, n))]
    BY <1>5, <1>7 DEF TransducerOf
  <2> QED
    BY <1>4, <1>5, <2>1, <2>2 DEF new, list
<1> QED
  BY <1>6, <1>7

LEMMA ItemMembers ==
    ASSUME NEW w \in Meta
    PROVE  LET is == MetaToItem(w)
           IN  /\ is.type = w.type /\ is.text = w.text /\ is.properties = w.properties
               /\ is.geoloc = GeolocToStanza(w.geoloc)
               /\ is.geoloc = NULL <=> w.geoloc = NULL
               /\ \A f \in {"accuracy", "region"} : Member(is.geoloc, f) = Member(w.geoloc, f)
               /\ ~AltOnly(w.geoloc) =>
                     (Member(is.geoloc, "alt") = NULL <=> Member(w.geoloc, "alt") = NULL)
               /\ AltWritten(w.geoloc, is.geoloc)
<1> DEFINE is == MetaToItem(w)
<1>1. /\ is.type = w.type /\ is.text = w.text /\ is.properties = w.properties
      /\ is.geoloc = GeolocToStanza(w.geoloc)
  BY DEF MetaToItem, Meta
<1>2. w.geoloc \in Geolocs
  BY MetaFields
<1> HIDE DEF is
<1>3. /\ is.geoloc = NULL <=> w.geoloc = NULL
      /\ \A f \in {"accuracy", "region"} : Member(is.geoloc, f) = Member(w.geoloc, f)
      /\ ~AltOnly(w.geoloc) =>
            (Member(is.geoloc, "alt") = NULL <=> Member(w.geoloc, "alt") = NULL)
      /\ AltWritten(w.geoloc, is.geoloc)
  BY <1>1, <1>2, GeolocToStanzaMembers
<1> QED
  BY <1>1, <1>3 DEF is

\* The published item has what the copy has.
LEMMA MergedIsPublished ==
    ASSUME NEW r, NEW w \in Meta, ~Unwritable(w), w.type # "unknown", Merged(r, w)
    PROVE  Merged(r, MetaToItem(w))
<1> DEFINE is == MetaToItem(w)
           ts == r.transducers
           all == Len(ts) + 1
<1>1. /\ is.type = w.type /\ is.text = w.text /\ is.properties = w.properties
      /\ is.geoloc = NULL <=> w.geoloc = NULL
      /\ \A f \in {"accuracy", "region"} : Member(is.geoloc, f) = Member(w.geoloc, f)
      /\ ~AltOnly(w.geoloc) =>
            (Member(is.geoloc, "alt") = NULL <=> Member(w.geoloc, "alt") = NULL)
  BY ItemMembers
<1>2. ~AltOnly(w.geoloc)
  BY DEF Unwritable
<1>3. \A n : /\ Named(is.transducers, n) = Named(w.transducers, n)
             /\ SameMembers(TransducerOf(w.transducers, n), TransducerOf(is.transducers, n))
  BY ItemTransducers
<1> HIDE DEF is
<1>4. r.meta # NULL => DeviceMerged(r.meta, is)
  <2> SUFFICES ASSUME r.meta # NULL PROVE DeviceMerged(r.meta, is)
    OBVIOUS
  <2>1. DeviceMerged(r.meta, w)
    BY DEF Merged
  <2> QED
    BY <1>1, <1>2, <2>1 DEF DeviceMerged, Member
<1>5. \A t, e, n : SameMembers(t, e) /\ TransducerMerged(ts, n, t, all, all, 1) =>
                   TransducerMerged(ts, n, e, all, all, 1)
  BY DEF TransducerMerged, SameMembers
<1>6. TransducersMerged(ts, is.transducers, all, all, 1)
  <2>1. TransducersMerged(ts, w.transducers, all, all, 1)
    BY DEF Merged
  <2> HIDE DEF all
  <2> QED
    BY <1>3, <1>5, <2>1 DEF TransducersMerged
<1>7. PropertiesMerged(r, is.properties, Len(r.properties) + 1)
  BY <1>1 DEF Merged
<1>8. Merged(r, is)
  BY <1>4, <1>6, <1>7 DEF Merged
<1> QED
  BY <1>8 DEF is

\* What is written of a location that has the members of a written one.
LEMMA GeolocWrittenAgain ==
    ASSUME NEW g \in Geolocs, NEW h \in Geolocs, SameShape(g, h), WrittenGeoloc(h),
           \A f \in {"accuracy", "region"} : Member(g, f) = Member(h, f)
    PROVE  GeolocToStanza(g) = h
<1>1. CASE g = NULL
  BY <1>1 DEF SameShape, GeolocToStanza
<1>2. CASE g # NULL
  <2>1. h # NULL /\ (g.alt = NULL <=> h.alt = NULL) /\ h.alt \in {NULL, h.accuracy}
    BY <1>2 DEF SameShape, WrittenGeoloc
  <2>2. g \in Geoloc /\ h \in Geoloc
    BY <1>2, <2>1 DEF Geolocs
  <2>3. g.accuracy = h.accuracy /\ g.region = h.region
    BY <1>2, <2>1 DEF Member
  <2>4. GeolocToStanza(g) =
            [accuracy |-> g.accuracy, alt |-> IF g.alt = NULL THEN NULL ELSE g.accuracy,
             region |-> g.region]
    BY <1>2, <2>2 DEF GeolocToStanza, Geoloc
  <2>5. h = [accuracy |-> h.accuracy, alt |-> h.alt, region |-> h.region]
    BY <2>2 DEF Geoloc
  <2> QED
    BY <2>1, <2>3, <2>4, <2>5
<1> QED
  BY <1>1, <1>2

\* Lists of properties with the same names in the same places and the same
\* value for each name.
LEMMA SameProperties ==
    ASSUME NEW a \in Seq(Property), NEW b \in Seq(Property), Len(a) = Len(b), Unique(b),
           \A y \in 1..Len(b) : a[y].name = b[y].name,
           \A q \in Names : ValuesOf(a, q) = ValuesOf(b, q)
    PROVE  a = b
<1>1. \A n : Named(a, n) = Named(b, n)
  BY DEF Named
<1>2. ASSUME NEW y \in 1..Len(b) PROVE a[y] = b[y]
  <2>1. a[y] \in Property /\ b[y] \in Property
    OBVIOUS
  <2>2. Named(b, b[y].name) = {y}
    BY NamesOfElements, UniquePosition
  <2>3. ValuesOf(a, b[y].name) = {a[y].value} /\ ValuesOf(b, b[y].name) = {b[y].value}
    BY <1>1, <2>2 DEF ValuesOf
  <2>4. a[y].value = b[y].value
    BY <2>1, <2>3, NamesOfElements
  <2> QED
    BY <2>1, <2>4 DEF Property
<1> QED
  BY <1>2

LEMMA SameStructure ==
    /\ \A a, b \in Transducer :
          /\ a.name = b.name /\ a.unit = b.unit /\ a.interface = b.interface
          /\ a.manufacturer = b.manufacturer /\ a.info = b.info /\ a.geoloc = b.geoloc
          /\ a.properties = b.properties
          => a = b
    /\ \A a, b \in Meta :
          /\ a.type = b.type /\ a.text = b.text /\ a.geoloc = b.geoloc
          /\ a.transducers = b.transducers /\ a.properties = b.properties
          => a = b
<1>1. \A a, b \in Transducer :
          /\ a.name = b.name /\ a.unit = b.unit /\ a.interface = b.interface
          /\ a.manufacturer = b.manufacturer /\ a.info = b.info /\ a.geoloc = b.geoloc
          /\ a.properties = b.properties
          => a = b
  BY DEF Transducer
<1>2. \A a, b \in Meta :
          /\ a.type = b.type /\ a.text = b.text /\ a.geoloc = b.geoloc
          /\ a.transducers = b.transducers /\ a.properties = b.properties
          => a = b
  BY DEF Meta
<1> QED
  BY <1>1, <1>2

LEMMA TransducerWrittenAgain ==
    ASSUME NEW ts \in Seq(Transducer), NEW was \in Transducer, NEW is \in Transducer,
           was.info = NULL, WrittenGeoloc(was.geoloc), Unique(was.properties),
           TransducerAgain(ts, was, is, Len(ts) + 1, Len(ts) + 1, 1)
    PROVE  TransducerToStanza(is) = was
<1>0. /\ \A i \in 1..Len(ts) : i < Len(ts) + 1
      /\ \A i \in 1..Len(ts) : \A v : Before(i, v, Len(ts) + 1, 1)
  BY DEF Before
<1>1. \A f \in Fields : Field(is, f) = Field(was, f)
  BY <1>0 DEF TransducerAgain
<1>2. is.unit = was.unit /\ is.interface = was.interface /\ is.manufacturer = was.manufacturer
  BY <1>1 DEF Field, Fields
<1>3. \A f \in {"accuracy", "region"} : Member(is.geoloc, f) = Member(was.geoloc, f)
  BY <1>1 DEF Field, Fields
<1>4. GeolocToStanza(is.geoloc) = was.geoloc
  <2>1. is.geoloc \in Geolocs /\ was.geoloc \in Geolocs /\ SameShape(is.geoloc, was.geoloc)
    BY TransducerMembersTypes DEF TransducerAgain
  <2> QED
    BY <1>3, <2>1, GeolocWrittenAgain
<1>5. is.properties = was.properties
  <2>1. is.properties \in Seq(Property) /\ was.properties \in Seq(Property)
    BY TransducerMembersTypes
  <2>2. /\ Len(is.properties) = Len(was.properties)
        /\ \A y \in 1..Len(was.properties) : is.properties[y].name = was.properties[y].name
    BY DEF TransducerAgain
  <2>3. \A q \in Names : ValuesOf(is.properties, q) = ValuesOf(was.properties, q)
    BY <1>0 DEF TransducerAgain, PropertyPending
  <2> QED
    BY <2>1, <2>2, <2>3, SameProperties
<1> DEFINE e == TransducerToStanza(is)
<1>6. /\ e \in Transducer /\ e.name = is.name /\ e.unit = is.unit /\ e.interface = is.interface
      /\ e.manufacturer = is.manufacturer /\ e.info = NULL
      /\ e.geoloc = GeolocToStanza(is.geoloc) /\ e.properties = is.properties
  BY TransducerToStanzaEffect DEF TransducerToStanza, Transducer
<1>7. is.name = was.name
  BY DEF TransducerAgain
<1> HIDE DEF e
<1>8. e = was
  BY <1>2, <1>4, <1>5, <1>6, <1>7, SameStructure
<1> QED
  BY <1>8 DEF e

LEMMA PublishedAgain ==
    ASSUME NEW ts \in Seq(Transducer), NEW ps \in Seq(Property),
           NEW was \in Meta, Written(was), UniqueNames(was), NEW w \in Meta,
           DeviceAgain(was, w),
           TransducersAgain(ts, was.transducers, w.transducers, Len(ts) + 1, Len(ts) + 1, 1),
           PropertiesAgain(ps, was.properties, w.properties, Len(ps) + 1)
    PROVE  MetaToItem(w) = was
<1> DEFINE is == MetaToItem(w)
<1>1. /\ is \in Meta /\ is.type = w.type /\ is.text = w.text /\ is.properties = w.properties
      /\ is.geoloc = GeolocToStanza(w.geoloc)
      /\ Len(is.transducers) = Len(w.transducers)
      /\ \A i \in 1..Len(w.transducers) :
            is.transducers[i] = TransducerToStanza(w.transducers[i])
  BY ItemMembers, MetaToItemEffect
<1> HIDE DEF is
<1>2. is.type = was.type /\ is.text = was.text
  BY <1>1 DEF DeviceAgain
<1>3. is.geoloc = was.geoloc
  <2>1. /\ SameShape(w.geoloc, was.geoloc)
        /\ \A f \in {"accuracy", "region"} : Member(w.geoloc, f) = Member(was.geoloc, f)
    BY DEF DeviceAgain, SameShape, Member
  <2>2. w.geoloc \in Geolocs /\ was.geoloc \in Geolocs /\ WrittenGeoloc(was.geoloc)
    BY MetaFields DEF Written
  <2> QED
    BY <1>1, <2>1, <2>2, GeolocWrittenAgain
<1>4. is.properties = was.properties
  <2> DEFINE a == w.properties
             b == was.properties
  <2>1. a \in Seq(Property) /\ b \in Seq(Property)
    BY MetaFields
  <2>2. \A i \in 1..Len(ps) : i < Len(ps) + 1
    OBVIOUS
  <2>3. Len(a) = Len(b) /\ \A x \in 1..Len(b) : a[x] = b[x]
    BY <2>2 DEF PropertiesAgain
  <2> HIDE DEF a, b
  <2>4. a = b
    BY <2>1, <2>3
  <2> QED
    BY <1>1, <2>4 DEF a, b
<1>5. is.transducers = was.transducers
  <2> DEFINE a == is.transducers
             b == was.transducers
             l == w.transducers
  <2>1. a \in Seq(Transducer) /\ b \in Seq(Transducer) /\ l \in Seq(Transducer)
    BY <1>1, MetaFields
  <2>2. Len(a) = Len(b) /\ Len(l) = Len(b)
    BY <1>1 DEF TransducersAgain
  <2>3. ASSUME NEW x \in 1..Len(b) PROVE a[x] = b[x]
    <3>1. l[x] \in Transducer /\ b[x] \in Transducer
      BY <2>1, <2>2
    <3>2. /\ b[x].info = NULL /\ WrittenGeoloc(b[x].geoloc) /\ Unique(b[x].properties)
          /\ TransducerAgain(ts, b[x], l[x], Len(ts) + 1, Len(ts) + 1, 1)
      BY DEF Written, UniqueNames, TransducersAgain
    <3>3. TransducerToStanza(l[x]) = b[x]
      BY <3>1, <3>2, TransducerWrittenAgain
    <3> QED
      BY <1>1, <2>2, <3>3
  <2> HIDE DEF a, b
  <2>4. a = b
    BY <2>1, <2>2, <2>3
  <2> QED
    BY <2>4 DEF a, b
<1>6. is = was
  BY <1>1, <1>2, <1>3, <1>4, <1>5, SameStructure
<1> QED
  BY <1>6 DEF is

\* What the parser leaves of a transducer.
ReadAs(was, is) ==
    /\ \A f \in Fields \cup {"alt"} :
          (Misread(was) /\ f = "region") \/ Field(is, f) = Field(was, f)
    /\ \A q : ValuesOf(is.properties, q) = IF Misread(was) THEN {} ELSE ValuesOf(was.properties, q)

LEMMA TransducerReadAs ==
    /\ \A t \in Transducer : ReadAs(t, TransducerRead(t))
    /\ ReadAs(TransducerNew, TransducerNew)
<1>1. ASSUME NEW t \in Transducer PROVE ReadAs(t, TransducerRead(t))
  <2>1. CASE ~Misread(t)
    BY <2>1 DEF TransducerRead, ReadAs
  <2>2. CASE Misread(t)
    <3> DEFINE g == [t.geoloc EXCEPT !.region = IF @ = NULL THEN Garbage ELSE @]
               e == TransducerRead(t)
    <3>1. t.geoloc \in Geoloc
      BY <2>2 DEF Misread, Transducer, Geolocs
    <3>2. g \in Geoloc /\ g.accuracy = t.geoloc.accuracy /\ g.alt = t.geoloc.alt
      BY <3>1 DEF Geoloc
    <3>3. e = [name |-> t.name, unit |-> t.unit, interface |-> t.interface,
               manufacturer |-> t.manufacturer, info |-> t.info, geoloc |-> g,
               properties |-> <<>>]
      BY <2>2, <3>1 DEF TransducerRead, Transducer, Geoloc
    <3>4. g # NULL /\ t.geoloc # NULL
      BY <3>1, <3>2, MetaConstants
    <3> HIDE DEF g
    <3>5. /\ e.unit = t.unit /\ e.interface = t.interface /\ e.manufacturer = t.manufacturer
          /\ e.geoloc = g /\ e.properties = <<>>
      BY <3>3
    <3> HIDE DEF e
    <3>6. \A f \in Fields \cup {"alt"} : f # "region" => Field(e, f) = Field(t, f)
      BY <3>2, <3>4, <3>5 DEF Field, Fields, Member
    <3>7. \A q : ValuesOf(e.properties, q) = {}
      BY <3>5 DEF ValuesOf, Named
    <3> QED
      BY <2>2, <3>6, <3>7 DEF ReadAs, e
  <2> QED
    BY <2>1, <2>2
<1>2. ReadAs(TransducerNew, TransducerNew)
  BY DEF ReadAs, Misread, TransducerNew
<1> QED
  BY <1>1, <1>2

LEMMA QueriedTransducer ==
    ASSUME NEW m \in Meta, NEW n
    PROVE  ReadAs(TransducerOf(m.transducers, n), TransducerOf(MetaRead(m).transducers, n))
<1> DEFINE list == m.transducers
           read == MetaRead(m).transducers
<1>1. Len(read) = Len(list) /\ \A i \in 1..Len(list) : read[i] = TransducerRead(list[i])
  BY MetaReadEffect
<1>2. list \in Seq(Transducer)
  BY MetaFields
<1> HIDE DEF list, read
<1>3. \A i \in 1..Len(list) : /\ list[i] \in Transducer /\ read[i].name = list[i].name
                              /\ ReadAs(list[i], read[i])
  BY <1>1, <1>2, TransducerReadEffect, TransducerReadAs
<1>4. Named(read, n) = Named(list, n)
  BY <1>1, <1>3 DEF Named
<1>5. CASE Named(list, n) = {}
  BY <1>4, <1>5, TransducerReadAs DEF TransducerOf, list, read
<1>6. CASE Named(list, n) # {}
  <2>1. First(Named(list, n)) \in 1..Len(list)
    BY <1>2, <1>6, TransducerOfType
  <2> QED
    BY <1>3, <1>4, <1>6, <2>1 DEF TransducerOf, list, read
<1> QED
  BY <1>5, <1>6

\* A transducer that is given once is updated by what is given: `mine' is the
\* client's copy of it and `is' what is written of that.
LEMMA TransducerIsUpdated ==
    ASSUME NEW ts \in Seq(Transducer), Unique(ts), NEW i \in 1..Len(ts), Unique(ts[i].properties),
           NEW was, NEW base, ReadAs(was, base), was.info = NULL, NEW mine,
           NEW is, SameMembers(mine, is),
           TransducerMerged(ts, ts[i].name, mine, Len(ts) + 1, Len(ts) + 1, 1),
           TransducerKept(ts, ts[i].name, base, mine, Len(ts) + 1, Len(ts) + 1, 1)
    PROVE  TransducerUpdated(was, ts[i], is)
<1> DEFINE t == ts[i]
           n == t.name
<1>0. /\ Len(ts) \in Nat /\ i < Len(ts) + 1
      /\ t \in Transducer /\ t.properties \in Seq(Property) /\ Len(t.properties) \in Nat
  BY PropertyPositions
<1>1. \A j \in 1..Len(ts) : ts[j].name = n => j = i
  BY NamesOfElements, UniqueMeansInjective
<1>2. ASSUME NEW f \in Fields \cup {"alt"}
      PROVE  Field(mine, f) = Given(Field(t, f), Field(base, f))
  <2>1. \A j \in 1..Len(ts) : Gives(ts[j], n, f) => j = i
    BY <1>1 DEF Gives
  <2>2. CASE Field(t, f) # NULL
    <3>1. Gives(ts[i], n, f) /\ \A j \in 1..Len(ts) : i < j => ~Gives(ts[j], n, f)
      BY <1>0, <2>1, <2>2 DEF Gives
    <3>2. FieldMerged(ts, n, f, Len(ts) + 1, Field(mine, f))
      BY DEF TransducerMerged, TransducerKept
    <3> QED
      BY <1>0, <2>2, <3>1, <3>2 DEF FieldMerged, Given
  <2>3. CASE Field(t, f) = NULL
    <3>1. \A j \in 1..Len(ts) : ~Gives(ts[j], n, f)
      BY <2>1, <2>3 DEF Gives
    <3>2. FieldKept(ts, n, f, Len(ts) + 1, Field(base, f), Field(mine, f))
      BY DEF TransducerKept
    <3> QED
      BY <2>3, <3>1, <3>2 DEF FieldKept, Given
  <2> QED
    BY <2>2, <2>3
<1>a. ASSUME NEW f \in Fields PROVE Field(is, f) = Field(mine, f)
  BY DEF SameMembers
<1>3. ASSUME NEW f \in {"unit", "interface", "manufacturer", "info"} \ LostIf(InfoLost(t), "info")
      PROVE  is[f] = Given(t[f], was[f])
  <2>1. CASE f = "info"
    <3>1. t.info = NULL
      BY <2>1 DEF LostIf, InfoLost
    <3>2. is.info = NULL
      BY DEF SameMembers
    <3> QED
      BY <2>1, <3>1, <3>2 DEF Given
  <2>2. CASE f # "info"
    <3>1. /\ f \in Fields /\ f # "region"
          /\ Field(is, f) = is[f] /\ Field(t, f) = t[f] /\ Field(was, f) = was[f]
      BY <2>2 DEF Field, Fields
    <3>2. Field(base, f) = Field(was, f)
      BY <3>1 DEF ReadAs
    <3> QED
      BY <1>2, <1>a, <3>1, <3>2
  <2> QED
    BY <2>1, <2>2
<1>b. \A e : /\ Field(e, "accuracy") = Member(e.geoloc, "accuracy")
             /\ Field(e, "alt") = Member(e.geoloc, "alt")
             /\ Field(e, "region") = Member(e.geoloc, "region")
  BY DEF Field
<1>c. Member(is.geoloc, "accuracy") =
          Given(Member(t.geoloc, "accuracy"), Member(was.geoloc, "accuracy"))
  <2>1. "accuracy" \in Fields /\ Field(base, "accuracy") = Field(was, "accuracy")
    BY DEF ReadAs, Fields
  <2> QED
    BY <1>2, <1>a, <1>b, <2>1
<1>d. ~AltLost(was.geoloc, t.geoloc) =>
          Member(is.geoloc, "alt") = Given(Member(t.geoloc, "alt"), Member(was.geoloc, "alt"))
  <2>1. Field(base, "alt") = Field(was, "alt")
    BY DEF ReadAs
  <2>2. Member(mine.geoloc, "alt") = Given(Member(t.geoloc, "alt"), Member(was.geoloc, "alt"))
    BY <1>2, <1>b, <2>1
  <2>3. Member(mine.geoloc, "accuracy") = Member(is.geoloc, "accuracy")
    BY <1>a, <1>b DEF Fields
  <2>4. AltWritten(mine.geoloc, is.geoloc)
    BY DEF SameMembers
  <2> QED
    BY <1>c, <2>2, <2>3, <2>4 DEF AltWritten, AltLost
<1>e. ~RegionLost(was, t) =>
          Member(is.geoloc, "region") =
              Given(Member(t.geoloc, "region"), Member(was.geoloc, "region"))
  <2>1. Member(is.geoloc, "region") = Given(Member(t.geoloc, "region"), Field(base, "region"))
    BY <1>2, <1>a, <1>b DEF Fields
  <2>2. Misread(was) \/ Field(base, "region") = Member(was.geoloc, "region")
    BY <1>b DEF ReadAs, Fields
  <2> QED
    BY <2>1, <2>2 DEF RegionLost, Given
<1>4. GeolocUpdated(was.geoloc, t.geoloc, is.geoloc,
                    LostIf(AltLost(was.geoloc, t.geoloc), "alt")
                    \cup LostIf(RegionLost(was, t), "region"))
  BY <1>c, <1>d, <1>e DEF GeolocUpdated, LostIf
<1>5. ASSUME NEW q \in Names
      PROVE  ValuesOf(is.properties, q) =
                 IF Named(t.properties, q) # {} THEN ValuesOf(t.properties, q)
                 ELSE IF Misread(was) THEN {} ELSE ValuesOf(was.properties, q)
  <2>0. is.properties = mine.properties
    BY DEF SameMembers
  <2>1. CASE Named(t.properties, q) # {}
    <3>1. PICK v \in 1..Len(t.properties) : t.properties[v].name = q
      BY <2>1 DEF Named
    <3>2. Named(t.properties, q) = {v}
      BY <1>0, <3>1, NamesOfElements, UniquePosition
    <3>3. ValuesOf(t.properties, q) = {t.properties[v].value}
      BY <3>2 DEF ValuesOf
    <3>4. \A j \in 1..Len(ts) : \A w \in 1..Len(ts[j].properties) :
              GivesProperty(ts[j], w, n, q) => j = i /\ w = v
      BY <1>1, <3>2 DEF GivesProperty, Named
    <3>5. ~Before(i, v, i, v) /\ Before(i, v, Len(ts) + 1, 1)
      BY <1>0 DEF Before
    <3>6. GivesProperty(ts[i], v, n, q)
      BY <3>1 DEF GivesProperty
    <3>7. PropertyMerged(ts, n, q, Len(ts) + 1, 1, ValuesOf(is.properties, q))
      BY <2>0 DEF TransducerMerged
    <3>8. ValuesOf(is.properties, q) = {ts[i].properties[v].value}
      <4>1. \A j \in 1..Len(ts) : \A w \in 1..Len(ts[j].properties) :
                Before(i, v, j, w) => ~GivesProperty(ts[j], w, n, q)
        BY <3>4, <3>5
      <4> QED
        BY <3>5, <3>6, <3>7, <4>1 DEF PropertyMerged
    <3> QED
      BY <2>1, <3>3, <3>8
  <2>2. CASE Named(t.properties, q) = {}
    <3>1. \A j \in 1..Len(ts) : \A w \in 1..Len(ts[j].properties) :
              ~GivesProperty(ts[j], w, n, q)
      BY <1>1, <2>2 DEF GivesProperty, Named
    <3>2. PropertyKept(ts, n, q, Len(ts) + 1, 1, ValuesOf(base.properties, q),
                       ValuesOf(is.properties, q))
      BY <2>0 DEF TransducerKept
    <3>3. ValuesOf(is.properties, q) = ValuesOf(base.properties, q)
      BY <3>1, <3>2 DEF PropertyKept
    <3> QED
      BY <2>2, <3>3 DEF ReadAs
  <2> QED
    BY <2>1, <2>2
<1> HIDE DEF t
<1> QED
  BY <1>3, <1>4, <1>5 DEF TransducerUpdated, t

\* A merge that has come to its end has done what it was called for.
LEMMA MergeIsDone ==
    ASSUME NEW r \in Calls, r.op = "merge", NEW was \in Meta, Written(was), NEW w \in Meta,
           ~Unwritable(w), w.type # "unknown",
           MergeReached(r, was, w, Len(r.transducers) + 1, Len(r.transducers) + 1, 1,
                        Len(r.properties) + 1)
    PROVE  MergeDone(r, was, MetaToItem(w))
<1> DEFINE is == MetaToItem(w)
           ts == r.transducers
           ps == r.properties
           all == Len(ts) + 1
<1>0. ts \in Seq(Transducer) /\ ps \in Seq(Property)
  BY CallFields
<1>1. /\ is.type = w.type /\ is.text = w.text /\ is.properties = w.properties
      /\ \A f \in {"accuracy", "region"} : Member(is.geoloc, f) = Member(w.geoloc, f)
      /\ AltWritten(w.geoloc, is.geoloc)
  BY ItemMembers
<1>2. \A n : /\ Named(is.transducers, n) = Named(w.transducers, n)
             /\ SameMembers(TransducerOf(w.transducers, n), TransducerOf(is.transducers, n))
  BY ItemTransducers
<1>3. \A n : ReadAs(TransducerOf(was.transducers, n), TransducerOf(MetaRead(was).transducers, n))
  BY QueriedTransducer
<1> HIDE DEF is
<1>4. DeviceUpdated(was, MetaOf(r), is)
  <2> DEFINE new == MetaOf(r)
  <2>1. DeviceReached(r, was, w)
    BY DEF MergeReached
  <2>2. /\ is.type = IF new.type = "unknown" THEN was.type ELSE new.type
        /\ is.text = Given(new.text, was.text)
        /\ \A f \in {"accuracy", "region"} :
              Member(is.geoloc, f) = Given(Member(new.geoloc, f), Member(was.geoloc, f))
    BY <1>1, <2>1 DEF DeviceReached
  <2>3. ~AltLost(was.geoloc, new.geoloc) =>
            Member(is.geoloc, "alt") = Given(Member(new.geoloc, "alt"), Member(was.geoloc, "alt"))
    BY <1>1, <2>1 DEF DeviceReached, AltWritten, AltLost
  <2> HIDE DEF new
  <2>4. GeolocUpdated(was.geoloc, new.geoloc, is.geoloc,
                      LostIf(AltLost(was.geoloc, new.geoloc), "alt"))
    BY <2>2, <2>3 DEF GeolocUpdated, LostIf
  <2> QED
    BY <2>2, <2>4 DEF DeviceUpdated, new
<1>a. ASSUME NEW i \in 1..Len(MetaOf(r).properties)
      PROVE  LET q == MetaOf(r).properties[i]
             IN  \/ q.value \in ValuesOf(is.properties, q.name)
                 \/ PropertyLost(i) \/ Mentions(r.properties, "merge", q.name)
  <2> DEFINE q == MetaOf(r).properties[i]
             list == is.properties
  <2> SUFFICES ASSUME ~PropertyLost(i), ~Mentions(ps, "merge", q.name)
               PROVE  q.value \in ValuesOf(list, q.name)
    OBVIOUS
  <2>1. r.meta # NULL
    <3> SUFFICES ASSUME r.meta = NULL PROVE FALSE
      OBVIOUS
    <3>1. MetaOf(r).properties = <<>>
      BY DEF MetaOf, NoMeta
    <3> QED
      BY <3>1
  <2>2. r.meta \in Meta /\ MetaOf(r) = r.meta
    BY <2>1, CallFields DEF MetaOf
  <2>3. r.meta.properties \in Seq(Property)
    BY <2>2, MetaFields
  <2>4. i = 1 /\ r.meta.properties # <<>> /\ q = r.meta.properties[1]
    BY <2>2, <2>3 DEF PropertyLost
  <2>5. PropertiesMerged(r, list, Len(ps) + 1)
    BY <1>1 DEF MergeReached
  <2>6. \A j \in 1..Len(ps) : ps[j].name # q.name
    BY DEF Mentions
  <2> HIDE DEF q
  <2>7. list # <<>> /\ list[1] = q
    BY <2>1, <2>4, <2>5, <2>6 DEF PropertiesMerged
  <2>8. list \in Seq(Property)
    BY <1>1, MetaFields
  <2>9. 1 \in 1..Len(list)
    BY <2>7, <2>8
  <2> QED
    BY <2>7, <2>9 DEF ValuesOf, Named
<1>5. ASSUME UniqueNames(r), NEW i \in 1..Len(ts)
      PROVE  LET t == ts[i]
                 o == Named(was.transducers, t.name)
                 j == Named(is.transducers, t.name)
             IN  /\ j # {}
                 /\ TransducerUpdated(IF o = {} THEN TransducerNew ELSE was.transducers[First(o)],
                                      t, is.transducers[First(j)])
  <2> DEFINE n == ts[i].name
             before == TransducerOf(was.transducers, n)
             base == TransducerOf(MetaRead(was).transducers, n)
             mine == TransducerOf(w.transducers, n)
             after == TransducerOf(is.transducers, n)
  <2>1. n \in Names /\ i < all /\ Len(ts) \in Nat
    BY <1>0, NamesOfElements
  <2>2. Unique(ts) /\ Unique(ts[i].properties)
    BY <1>5 DEF UniqueNames
  <2>3. TransducerMerged(ts, n, mine, all, all, 1) /\ Named(w.transducers, n) # {}
    BY <2>1 DEF MergeReached, TransducersMerged
  <2>4. TransducerKept(ts, n, base, mine, all, all, 1)
    BY <2>1 DEF MergeReached, TransducersUntouched
  <2>5. SameMembers(mine, after) /\ ReadAs(before, base) /\ Named(is.transducers, n) # {}
    BY <1>2, <1>3, <2>3
  <2> HIDE DEF before, base, mine, after
  <2>6. before.info = NULL
    <3>1. was.transducers \in Seq(Transducer)
      BY MetaFields
    <3>2. CASE Named(was.transducers, n) = {}
      BY <3>2 DEF before, TransducerOf, TransducerNew
    <3>3. CASE Named(was.transducers, n) # {}
      <4>1. /\ First(Named(was.transducers, n)) \in 1..Len(was.transducers)
            /\ before = was.transducers[First(Named(was.transducers, n))]
        BY <3>1, <3>3, TransducerOfType DEF before
      <4> QED
        BY <4>1 DEF Written
    <3> QED
      BY <3>2, <3>3
  <2>7. TransducerUpdated(before, ts[i], after)
    BY <1>0, <2>2, <2>3, <2>4, <2>5, <2>6, TransducerIsUpdated
  <2> QED
    BY <2>5, <2>7 DEF before, after, TransducerOf
<1>6. ASSUME Unique(ps), NEW i \in 1..Len(ps)
      PROVE  ps[i].value \in ValuesOf(is.properties, ps[i].name)
  <2> DEFINE list == is.properties
             f == First(Named(list, ps[i].name))
  <2>1. \A j \in 1..Len(ps) : i < j => ps[j].name # ps[i].name
    <3>1. \A j \in 1..Len(ps) : ps[j].name = ps[i].name => j = i
      BY <1>0, <1>6, NamesOfElements, UniqueMeansInjective
    <3> QED
      BY <1>0, <3>1
  <2>2. i < Len(ps) + 1
    BY <1>0
  <2>3. PropertiesMerged(r, list, Len(ps) + 1)
    BY <1>1 DEF MergeReached
  <2>4. Named(list, ps[i].name) # {} /\ list[f] = ps[i]
    BY <2>1, <2>2, <2>3 DEF PropertiesMerged
  <2>5. Named(list, ps[i].name) \in SUBSET Nat
    BY DEF Named
  <2>6. f \in Named(list, ps[i].name)
    BY <2>4, <2>5, FirstFound
  <2> QED
    BY <2>4, <2>6 DEF ValuesOf
<1>7. MergeDone(r, was, is)
  BY <1>4, <1>a, <1>5, <1>6 DEF MergeDone
<1> QED
  BY <1>7 DEF is

LEMMA MergePublished ==
    ASSUME NEW r \in Calls, r.op = "merge", NEW was \in Meta, Written(was), UniqueNames(was),
           NEW w \in Meta, ~Unwritable(w), w.type # "unknown",
           MergeReached(r, was, w, Len(r.transducers) + 1, Len(r.transducers) + 1, 1,
                        Len(r.properties) + 1)
    PROVE  /\ MergeDone(r, was, MetaToItem(w))
           /\ Merged(r, MetaToItem(w))
           /\ Repeats(r, was) => MetaToItem(w) = was
<1>1. MergeDone(r, was, MetaToItem(w))
  BY MergeIsDone
<1>2. Merged(r, w)
  BY DEF MergeReached, Merged
<1>3. Merged(r, MetaToItem(w))
  BY <1>2, MergedIsPublished
<1>4. r.transducers \in Seq(Transducer) /\ r.properties \in Seq(Property)
  BY CallFields
<1>5. ASSUME Repeats(r, was) PROVE MetaToItem(w) = was
  <2>1. /\ DeviceAgain(was, w)
        /\ TransducersAgain(r.transducers, was.transducers, w.transducers,
                            Len(r.transducers) + 1, Len(r.transducers) + 1, 1)
        /\ PropertiesAgain(r.properties, was.properties, w.properties, Len(r.properties) + 1)
    BY <1>5 DEF MergeReached
  <2> QED
    BY <1>4, <2>1, PublishedAgain
<1> QED
  BY <1>1, <1>3, <1>5

-----------------------------------------------------------------------------
(***************************************************************************)
(* Removals.                                                               *)
(***************************************************************************)

\* A name that is removed from a list where it is unique is gone, and none
\* comes in.
LEMMA RemovedIsGone ==
    ASSUME NEW T, \A x \in T : x.name \in Names, NEW list \in Seq(T), Unique(list), NEW n
    PROVE  /\ Named(RemoveNamed(list, n), n) = {}
           /\ \A m : Named(list, m) = {} => Named(RemoveNamed(list, n), m) = {}
<1> DEFINE new == RemoveNamed(list, n)
<1>1. \A j \in 1..Len(new) : \E i \in 1..Len(list) : new[j] = list[i]
  BY RemoveNamedEffect
<1>2. ASSUME NEW m, Named(list, m) = {} PROVE Named(new, m) = {}
  <2> HIDE DEF new
  <2> QED
    BY <1>1, <1>2 DEF Named
<1>3. CASE Named(list, n) = {}
  BY <1>2, <1>3
<1>4. CASE Named(list, n) # {}
  <2> DEFINE f == First(Named(list, n))
  <2>1. f \in Named(list, n)
    <3>1. Named(list, n) \in SUBSET Nat
      BY DEF Named
    <3> QED
      BY <1>4, <3>1, FirstFound
  <2>2. f \in 1..Len(list) /\ list[f].name = n /\ Len(list) \in Nat
    BY <2>1 DEF Named
  <2>3. new = Without(list, f)
    BY <1>4 DEF RemoveNamed
  <2> HIDE DEF f, new
  <2>4. /\ Len(new) = Len(list) - 1
        /\ \A j \in 1..(Len(list) - 1) : new[j] = list[IF j < f THEN j ELSE j + 1]
    BY <2>2, <2>3, WithoutEffect
  <2>5. \A i, j \in 1..Len(list) : list[i].name = list[j].name => i = j
    BY UniqueMeansInjective
  <2>6. ASSUME NEW j \in 1..Len(new) PROVE new[j].name # n
    <3>1. (IF j < f THEN j ELSE j + 1) \in 1..Len(list) /\ (IF j < f THEN j ELSE j + 1) # f
      BY <2>2, <2>4
    <3> QED
      BY <2>2, <2>4, <2>5, <3>1
  <2>7. Named(new, n) = {}
    BY <2>6 DEF Named
  <2> QED
    BY <1>2, <2>7 DEF new
<1> QED
  BY <1>3, <1>4

LEMMA GoneStep ==
    ASSUME NEW T, \A x \in T : x.name \in Names, NEW list \in Seq(T), Unique(list),
           NEW names \in Seq(Names), NEW k \in 1..Len(names), Gone(names, list, k)
    PROVE  /\ Gone(names, RemoveNamed(list, names[k]), k + 1)
           /\ Unique(RemoveNamed(list, names[k]))
<1> DEFINE new == RemoveNamed(list, names[k])
<1>1. /\ Named(new, names[k]) = {}
      /\ \A m : Named(list, m) = {} => Named(new, m) = {}
  BY RemovedIsGone
<1>2. Unique(new)
  BY RemoveNamedEffect
<1> HIDE DEF new
<1>3. ASSUME NEW i \in 1..Len(names), i < k + 1 PROVE Named(new, names[i]) = {}
  <2>1. CASE i = k
    BY <1>1, <2>1
  <2>2. CASE i # k
    <3>1. i < k
      BY <1>3, <2>2
    <3> QED
      BY <1>1, <3>1 DEF Gone
  <2> QED
    BY <2>1, <2>2
<1>4. Gone(names, new, k + 1)
  BY <1>3 DEF Gone
<1> QED
  BY <1>2, <1>4 DEF new

LEMMA RemovalIsDone ==
    ASSUME NEW r \in Calls, r.op = "remove", NEW was, NEW w \in Meta,
           RemovalReached(r, was, w, Len(r.transducers) + 1, Len(r.properties) + 1)
    PROVE  RemovalDone(r, was, MetaToItem(w))
<1> DEFINE is == MetaToItem(w)
<1>0. r.transducers \in Seq(Names) /\ r.properties \in Seq(Names)
  BY CallFields
<1>1. /\ is.properties = w.properties /\ Len(is.transducers) = Len(w.transducers)
      /\ \A i \in 1..Len(w.transducers) :
            is.transducers[i] = TransducerToStanza(w.transducers[i])
  BY MetaToItemEffect
<1>2. w.transducers \in Seq(Transducer)
  BY MetaFields
<1> HIDE DEF is
<1>3. \A i \in 1..Len(w.transducers) : is.transducers[i].name = w.transducers[i].name
  BY <1>1, <1>2, TransducerToStanzaEffect
<1>4. \A n : Named(is.transducers, n) = Named(w.transducers, n)
  BY <1>1, <1>3 DEF Named
<1>5. /\ \A i \in 1..Len(r.transducers) : i < Len(r.transducers) + 1
      /\ \A i \in 1..Len(r.properties) : i < Len(r.properties) + 1
  BY <1>0
<1>6. RemovalDone(r, was, is)
  BY <1>1, <1>4, <1>5 DEF RemovalReached, RemovalDone, Gone
<1> QED
  BY <1>6 DEF is

-----------------------------------------------------------------------------
(***************************************************************************)
(* The rounds of the loops on a client's copy.                             *)
(***************************************************************************)

LEMMA TransducersChanged ==
    ASSUME NEW r, NEW was, NEW w, NEW new, NEW k, NEW j, NEW u, NEW d,
           MergeReached(r, was, w, k, j, u, d),
           new.type = w.type, new.text = w.text, new.geoloc = w.geoloc,
           new.properties = w.properties, NEW k2, NEW j2, NEW u2,
           TransducersMerged(r.transducers, new.transducers, k2, j2, u2),
           TransducersUntouched(r.transducers, MetaRead(was).transducers, new.transducers,
                                k2, j2, u2),
           Repeats(r, was) =>
               TransducersAgain(r.transducers, was.transducers, new.transducers, k2, j2, u2)
    PROVE  MergeReached(r, was, new, k2, j2, u2, d)
<1>1. (r.meta # NULL => DeviceMerged(r.meta, new)) /\ DeviceReached(r, was, new)
  BY DEF MergeReached, DeviceMerged, DeviceReached
<1>2. Repeats(r, was) => DeviceAgain(was, new)
  BY DEF MergeReached, DeviceAgain
<1>3. PropertiesMerged(r, new.properties, d)
  BY DEF MergeReached
<1>4. Repeats(r, was) => PropertiesAgain(r.properties, was.properties, new.properties, d)
  BY DEF MergeReached
<1> QED
  BY <1>1, <1>2, <1>3, <1>4 DEF MergeReached

LEMMA MergeTransducerReaches ==
    ASSUME NEW r \in Calls, r.op = "merge", NEW was \in Meta, UniqueNames(was), NEW w \in Meta,
           NEW k \in 1..Len(r.transducers), NEW d, MergeReached(r, was, w, k, k, 1, d)
    PROVE  MergeReached(r, was,
               [w EXCEPT !.transducers = TransducerMerge(w.transducers, r.transducers[k])],
               k + 1, k, 1, d)
<1> DEFINE ts == r.transducers
           list == w.transducers
           new == TransducerMerge(list, ts[k])
           v == [w EXCEPT !.transducers = new]
           base == MetaRead(was).transducers
<1>0. /\ ts \in Seq(Transducer) /\ list \in Seq(Transducer)
      /\ was.transducers \in Seq(Transducer) /\ Unique(was.transducers)
  BY CallFields, MetaFields DEF UniqueNames
<1>1. /\ v.type = w.type /\ v.text = w.text /\ v.geoloc = w.geoloc
      /\ v.properties = w.properties /\ v.transducers = new
  <2> HIDE DEF new
  <2> QED
    BY DEF Meta
<1>2. TransducersMerged(ts, list, k, k, 1) /\ TransducersUntouched(ts, base, list, k, k, 1)
  BY DEF MergeReached
<1>3. TransducersMerged(ts, new, k + 1, k, 1) /\ TransducersUntouched(ts, base, new, k + 1, k, 1)
  BY <1>0, <1>2, TransducersStep
<1>4. ASSUME Repeats(r, was) PROVE TransducersAgain(ts, was.transducers, new, k + 1, k, 1)
  <2>1. /\ TransducersMerged(ts, was.transducers, Len(ts) + 1, Len(ts) + 1, 1)
        /\ TransducersAgain(ts, was.transducers, list, k, k, 1)
    BY <1>4 DEF MergeReached, Repeats, Merged
  <2> QED
    BY <1>0, <2>1, TransducersAgainStep
<1> HIDE DEF new, v, base
<1>5. MergeReached(r, was, v, k + 1, k, 1, d)
  BY <1>1, <1>3, <1>4, TransducersChanged DEF base
<1> QED
  BY <1>5 DEF v, new

LEMMA MergePropertyReaches ==
    ASSUME NEW r \in Calls, r.op = "merge", NEW was \in Meta, UniqueNames(was),
           NEW w \in Meta, UniqueNames(w), NEW k \in 1..Len(r.transducers),
           NEW u \in 1..Len(r.transducers[k].properties), NEW m, NEW d,
           NEW i \in 1..Len(w.transducers), w.transducers[i].name = r.transducers[k].name,
           MergeReached(r, was, w, m, k, u, d)
    PROVE  MergeReached(r, was,
               [w EXCEPT !.transducers =
                   WithProperty(w.transducers, i, r.transducers[k].properties[u])],
               m, k, u + 1, d)
<1> DEFINE ts == r.transducers
           list == w.transducers
           new == WithProperty(list, i, ts[k].properties[u])
           v == [w EXCEPT !.transducers = new]
           base == MetaRead(was).transducers
<1>0. /\ ts \in Seq(Transducer) /\ list \in Seq(Transducer) /\ Unique(list)
      /\ was.transducers \in Seq(Transducer) /\ Unique(was.transducers)
  BY CallFields, MetaFields DEF UniqueNames
<1>1. /\ v.type = w.type /\ v.text = w.text /\ v.geoloc = w.geoloc
      /\ v.properties = w.properties /\ v.transducers = new
  <2> HIDE DEF new
  <2> QED
    BY DEF Meta
<1>2. TransducersMerged(ts, list, m, k, u) /\ TransducersUntouched(ts, base, list, m, k, u)
  BY DEF MergeReached
<1>3. TransducersMerged(ts, new, m, k, u + 1) /\ TransducersUntouched(ts, base, new, m, k, u + 1)
  BY <1>0, <1>2, TransducersPropertyStep
<1>4. ASSUME Repeats(r, was) PROVE TransducersAgain(ts, was.transducers, new, m, k, u + 1)
  <2>1. /\ TransducersMerged(ts, was.transducers, Len(ts) + 1, Len(ts) + 1, 1)
        /\ TransducersAgain(ts, was.transducers, list, m, k, u)
    BY <1>4 DEF MergeReached, Repeats, Merged
  <2> QED
    BY <1>0, <2>1, TransducersAgainPropertyStep
<1> HIDE DEF new, v, base
<1>5. MergeReached(r, was, v, m, k, u + 1, d)
  BY <1>1, <1>3, <1>4, TransducersChanged DEF base
<1> QED
  BY <1>5 DEF v, new

LEMMA MergeNextReaches ==
    ASSUME NEW r \in Calls, r.op = "merge", NEW was, NEW w, NEW k \in 1..Len(r.transducers),
           NEW u \in Nat, u > Len(r.transducers[k].properties), NEW m, NEW d,
           MergeReached(r, was, w, m, k, u, d)
    PROVE  MergeReached(r, was, w, m, k + 1, 1, d)
<1> DEFINE ts == r.transducers
           base == MetaRead(was).transducers
<1>0. ts \in Seq(Transducer)
  BY CallFields
<1>1. /\ TransducersMerged(ts, w.transducers, m, k, u)
      /\ TransducersUntouched(ts, base, w.transducers, m, k, u)
  BY DEF MergeReached
<1>2. /\ TransducersMerged(ts, w.transducers, m, k + 1, 1)
      /\ TransducersUntouched(ts, base, w.transducers, m, k + 1, 1)
  BY <1>0, <1>1, TransducersNext
<1>3. ASSUME Repeats(r, was)
      PROVE  TransducersAgain(ts, was.transducers, w.transducers, m, k + 1, 1)
  <2>1. TransducersAgain(ts, was.transducers, w.transducers, m, k, u)
    BY <1>3 DEF MergeReached
  <2> QED
    BY <1>0, <2>1, TransducersAgainNext
<1> QED
  BY <1>2, <1>3, TransducersChanged

LEMMA MergeDevicePropertyReaches ==
    ASSUME NEW r \in Calls, r.op = "merge", NEW was \in Meta, NEW w \in Meta,
           NEW d \in 1..Len(r.properties), NEW k, NEW j, NEW u, MergeReached(r, was, w, k, j, u, d)
    PROVE  LET p == r.properties[d]
           IN  MergeReached(r, was,
                   [w EXCEPT !.properties = Put(w.properties, Slot(w.properties, p.name), p)],
                   k, j, u, d + 1)
<1> DEFINE ps == r.properties
           list == w.properties
           new == Put(list, Slot(list, ps[d].name), ps[d])
           v == [w EXCEPT !.properties = new]
<1>0. ps \in Seq(Property) /\ list \in Seq(Property) /\ was.properties \in Seq(Property)
  BY CallFields, MetaFields
<1>1. /\ v.type = w.type /\ v.text = w.text /\ v.geoloc = w.geoloc
      /\ v.properties = new /\ v.transducers = w.transducers
  <2> HIDE DEF new
  <2> QED
    BY DEF Meta
<1>2. PropertiesMerged(r, list, d)
  BY DEF MergeReached
<1>3. PropertiesMerged(r, new, d + 1)
  BY <1>0, <1>2, PropertiesStep
<1>4. ASSUME Repeats(r, was) PROVE PropertiesAgain(ps, was.properties, new, d + 1)
  <2>1. /\ PropertiesMerged(r, was.properties, Len(ps) + 1)
        /\ PropertiesAgain(ps, was.properties, list, d)
    BY <1>4 DEF MergeReached, Repeats, Merged
  <2> QED
    BY <1>0, <2>1, PropertiesAgainStep
<1> HIDE DEF new, v
<1>5. (r.meta # NULL => DeviceMerged(r.meta, v)) /\ DeviceReached(r, was, v)
  BY <1>1 DEF MergeReached, DeviceMerged, DeviceReached
<1>6. Repeats(r, was) => /\ DeviceAgain(was, v)
                         /\ TransducersAgain(r.transducers, was.transducers, v.transducers, k, j, u)
  BY <1>1 DEF MergeReached, DeviceAgain
<1>7. MergeReached(r, was, v, k, j, u, d + 1)
  BY <1>1, <1>3, <1>4, <1>5, <1>6 DEF MergeReached
<1> QED
  BY <1>7 DEF v, new

-----------------------------------------------------------------------------
(***************************************************************************)
(* The steps of the clients.                                               *)
(***************************************************************************)

LEMMA ReachedSteps ==
    ASSUME NEW r, NEW was, NEW w, NEW n, NEW u
    PROVE  LET all == Len(r.transducers) + 1
           IN  /\ Reached("idle", r, was, w, n, u) <=> n = 1
               /\ Reached("query", r, was, w, n, u) <=> n = 1
               /\ Reached("transducers", r, was, w, n, u) <=>
                     /\ n <= all
                     /\ r.op = "merge" => UniqueNames(was) /\ MergeReached(r, was, w, n, n, 1, 1)
                     /\ r.op = "remove" => RemovalReached(r, was, w, n, 1)
               /\ Reached("t_properties", r, was, w, n, u) <=>
                     /\ r.op = "merge" => UniqueNames(was) /\ MergeReached(r, was, w, n + 1, n, u, 1)
                     /\ r.op = "remove" => RemovalReached(r, was, w, n + 1, 1)
               /\ Reached("properties", r, was, w, n, u) <=>
                     /\ n <= Len(r.properties) + 1
                     /\ r.op = "merge" => UniqueNames(was) /\ MergeReached(r, was, w, all, all, 1, n)
                     /\ r.op = "remove" => RemovalReached(r, was, w, all, n)
               /\ Reached("publish", r, was, w, n, u) <=>
                     /\ r.op = "merge" =>
                           /\ UniqueNames(was)
                           /\ MergeReached(r, was, w, all, all, 1, Len(r.properties) + 1)
                     /\ r.op = "remove" => RemovalReached(r, was, w, all, Len(r.properties) + 1)
               /\ Reached("await", r, was, w, n, u)
               /\ Reached("crashed", r, was, w, n, u)
<1>1. Reached("idle", r, was, w, n, u) <=> n = 1
  BY DEF Reached
<1>2. Reached("query", r, was, w, n, u) <=> n = 1
  BY DEF Reached
<1>3. Reached("transducers", r, was, w, n, u) <=>
          /\ n <= Len(r.transducers) + 1
          /\ r.op = "merge" => UniqueNames(was) /\ MergeReached(r, was, w, n, n, 1, 1)
          /\ r.op = "remove" => RemovalReached(r, was, w, n, 1)
  BY DEF Reached
<1>4. Reached("t_properties", r, was, w, n, u) <=>
          /\ r.op = "merge" => UniqueNames(was) /\ MergeReached(r, was, w, n + 1, n, u, 1)
          /\ r.op = "remove" => RemovalReached(r, was, w, n + 1, 1)
  BY DEF Reached
<1>5. Reached("properties", r, was, w, n, u) <=>
          /\ n <= Len(r.properties) + 1
          /\ r.op = "merge" => /\ UniqueNames(was)
                               /\ MergeReached(r, was, w, Len(r.transducers) + 1,
                                               Len(r.transducers) + 1, 1, n)
          /\ r.op = "remove" => RemovalReached(r, was, w, Len(r.transducers) + 1, n)
  BY DEF Reached
<1>6. Reached("publish", r, was, w, n, u) <=>
          /\ r.op = "merge" => /\ UniqueNames(was)
                               /\ MergeReached(r, was, w, Len(r.transducers) + 1,
                                               Len(r.transducers) + 1, 1, Len(r.properties) + 1)
          /\ r.op = "remove" => RemovalReached(r, was, w, Len(r.transducers) + 1,
                                               Len(r.properties) + 1)
  BY DEF Reached
<1>7. Reached("await", r, was, w, n, u) /\ Reached("crashed", r, was, w, n, u)
  BY DEF Reached
<1> QED
  BY <1>1, <1>2, <1>3, <1>4, <1>5, <1>6, <1>7

\* A step of one client that sends nothing.
OtherClients(c) ==
    \A b \in Clients \ {c} :
        /\ pc'[b] = pc[b] /\ call'[b] = call[b] /\ old'[b] = old[b] /\ work'[b] = work[b]
        /\ next'[b] = next[b] /\ prop'[b] = prop[b]

LEMMA LocalUpdate ==
    ASSUME UpdateInv, NEW c \in Clients, UNCHANGED <<itemVars, stored>>, OtherClients(c),
           Reached(pc'[c], call'[c], old'[c], work'[c], next'[c], prop'[c])
    PROVE  UpdateInv'
<1>1. ASSUME NEW b \in Clients PROVE ClientReached(b)'
  <2>1. CASE b = c
    BY <2>1 DEF ClientReached
  <2>2. CASE b # c
    <3>1. ClientReached(b)
      BY DEF UpdateInv
    <3> QED
      BY <2>2, <3>1 DEF ClientReached, OtherClients
  <2> QED
    BY <2>1, <2>2
<1>2. sent' = sent /\ item' = item /\ stored' = stored
  BY DEF itemVars
<1>3. \A b \in Clients : \A i \in 1..Len(sent'[b]) : PublicationDone(sent'[b][i])
  BY <1>2 DEF UpdateInv
<1>4. \A n \in Nodes : stored'[n] # NULL /\ stored'[n].call.op = "merge" =>
                           Merged(stored'[n].call, item'[n])
  BY <1>2 DEF UpdateInv
<1> QED
  BY <1>1, <1>3, <1>4 DEF UpdateInv

LEMMA NewCallUpdate ==
    ASSUME MetaInv, UpdateInv, NEW c \in Clients, NEW r \in Calls, NewCall(c, r)
    PROVE  UpdateInv'
<1>1. ClientsTypeOK
  BY ClientTypes
<1>2. OtherClients(c) /\ pc'[c] = "query" /\ next'[c] = next[c] /\ UNCHANGED <<itemVars, stored>>
  BY <1>1 DEF NewCall, Goto, ClientsTypeOK, OtherClients
<1>3. pc[c] = "idle" /\ ClientReached(c)
  BY DEF NewCall, UpdateInv
<1>4. next[c] = 1
  BY <1>3, ReachedSteps DEF ClientReached
<1>5. Reached(pc'[c], call'[c], old'[c], work'[c], next'[c], prop'[c])
  BY <1>2, <1>4, ReachedSteps
<1> QED
  BY <1>2, <1>5, LocalUpdate

LEMMA ReturnUpdate ==
    ASSUME MetaInv, UpdateInv, NEW c \in Clients, NEW err, Return(c, err)
    PROVE  UpdateInv'
<1>1. ClientsTypeOK
  BY ClientTypes
<1>2. OtherClients(c) /\ pc'[c] = "idle" /\ next'[c] = 1 /\ UNCHANGED <<itemVars, stored>>
  BY <1>1 DEF Return, Goto, ClientsTypeOK, OtherClients
<1>3. Reached(pc'[c], call'[c], old'[c], work'[c], next'[c], prop'[c])
  BY <1>2, ReachedSteps
<1> QED
  BY <1>2, <1>3, LocalUpdate

LEMMA CrashUpdate ==
    ASSUME MetaInv, UpdateInv, NEW c \in Clients, Crash(c)
    PROVE  UpdateInv'
<1>1. ClientsTypeOK
  BY ClientTypes
<1>2. OtherClients(c) /\ pc'[c] = "crashed" /\ UNCHANGED <<itemVars, stored>>
  BY <1>1 DEF Crash, Goto, ClientsTypeOK, OtherClients
<1>3. Reached(pc'[c], call'[c], old'[c], work'[c], next'[c], prop'[c])
  BY <1>2, ReachedSteps
<1> QED
  BY <1>2, <1>3, LocalUpdate

\* A query is answered.
LEMMA QueriedUpdate ==
    ASSUME MetaInv, UpdateInv, NEW c \in Clients, NEW op, NEW w, NEW there,
           Queried(c, op, w, there),
           Reached(there, call[c], item[call[c].node], w, 1, prop[c])
    PROVE  UpdateInv'
<1>1. ClientsTypeOK
  BY ClientTypes
<1> DEFINE was == item[call[c].node]
<1> HIDE DEF was
<1>2. /\ pc[c] = "query"
      /\ old' = [old EXCEPT ![c] = was] /\ work' = [work EXCEPT ![c] = w]
      /\ pc' = [pc EXCEPT ![c] = there]
      /\ UNCHANGED <<itemVars, call, next, at, prop, ret, calls, stored>>
  BY DEF Queried, Goto, was
<1>3. /\ OtherClients(c) /\ pc'[c] = there /\ call'[c] = call[c] /\ old'[c] = was
      /\ work'[c] = w /\ next'[c] = next[c] /\ prop'[c] = prop[c]
  BY <1>1, <1>2 DEF ClientsTypeOK, OtherClients
<1>4. next[c] = 1
  <2>1. ClientReached(c)
    BY DEF UpdateInv
  <2> QED
    BY <1>2, <2>1, ReachedSteps DEF ClientReached
<1>5. Reached(pc'[c], call'[c], old'[c], work'[c], next'[c], prop'[c])
  BY <1>3, <1>4 DEF was
<1> QED
  BY <1>2, <1>3, <1>5, LocalUpdate

LEMMA MergeQueriedUpdate ==
    ASSUME MetaInv, UpdateInv, NEW c \in Clients, MergeQueried(c)
    PROVE  UpdateInv'
<1> DEFINE r == call[c]
           was == item[r.node]
           m == MetaRead(was)
           w == IF r.meta = NULL THEN m ELSE MetaMerge(m, r.meta)
<1>1. Queried(c, "merge", w, "transducers")
  BY DEF MergeQueried
<1>2. r \in Calls /\ r.op = "merge"
  BY <1>1, ClientTypes DEF Queried, ClientOK
<1>3. r.node \in Nodes /\ r.transducers \in Seq(Transducer)
  BY <1>2, CallFields
<1>4. was \in Meta /\ UniqueNames(was)
  BY <1>3 DEF MetaInv, MetaTypeOK, ItemsOK
<1> HIDE DEF was, r
<1>5. MergeReached(r, was, w, 1, 1, 1, 1)
  BY <1>2, <1>4, MergeStarts
<1> HIDE DEF w
<1>6. 1 <= Len(r.transducers) + 1
  BY <1>3
<1>7. Reached("transducers", r, was, w, 1, prop[c])
  BY <1>2, <1>4, <1>5, <1>6, ReachedSteps
<1> QED
  BY <1>1, <1>7, QueriedUpdate DEF was, r

LEMMA RemoveQueriedUpdate ==
    ASSUME MetaInv, UpdateInv, NEW c \in Clients, RemoveQueried(c)
    PROVE  UpdateInv'
<1> DEFINE r == call[c]
           was == item[r.node]
           w == MetaRead(was)
<1>1. Queried(c, "remove", w, "transducers")
  BY DEF RemoveQueried
<1>2. r \in Calls /\ r.op = "remove"
  BY <1>1, ClientTypes DEF Queried, ClientOK
<1>3. r.node \in Nodes /\ r.transducers \in Seq(Names) /\ r.properties \in Seq(Names)
  BY <1>2, CallFields
<1>4. was \in Meta
  BY <1>3 DEF MetaInv, MetaTypeOK
<1> HIDE DEF was, r
<1>5. w.properties = was.properties
  BY <1>4, MetaReadEffect
<1> HIDE DEF w
<1>6. /\ 1 <= Len(r.transducers) + 1
      /\ \A i \in 1..Len(r.transducers) : ~(i < 1)
      /\ \A i \in 1..Len(r.properties) : ~(i < 1)
  BY <1>3
<1>7. RemovalReached(r, was, w, 1, 1)
  BY <1>5, <1>6 DEF RemovalReached, Gone
<1>8. Reached("transducers", r, was, w, 1, prop[c])
  BY <1>2, <1>6, <1>7, ReachedSteps
<1> QED
  BY <1>1, <1>8, QueriedUpdate DEF was, r

\* Retractions and removals of a location go straight to the publication.
LEMMA OtherQueriedUpdate ==
    ASSUME MetaInv, UpdateInv, NEW c \in Clients, NEW op \in {"retract", "geoloc"}, NEW w,
           Queried(c, op, w, "publish")
    PROVE  UpdateInv'
<1>1. call[c].op = op
  BY DEF Queried
<1>2. Reached("publish", call[c], item[call[c].node], w, 1, prop[c])
  BY <1>1, ReachedSteps
<1> QED
  BY <1>2, QueriedUpdate

LEMMA GeolocQueriedUpdate ==
    ASSUME MetaInv, UpdateInv, NEW c \in Clients, GeolocQueried(c)
    PROVE  UpdateInv'
<1>1. (\E w : Queried(c, "geoloc", w, "publish")) \/ Crash(c)
  BY DEF GeolocQueried
<1> QED
  BY <1>1, OtherQueriedUpdate, CrashUpdate

\* Each round of a loop takes the client to the next position.
LEMMA MergeTransducerUpdate ==
    ASSUME MetaInv, UpdateInv, NEW c \in Clients, MergeTransducer(c)
    PROVE  UpdateInv'
<1> DEFINE r == call[c]
           was == old[c]
           k == next[c]
           w == [work[c] EXCEPT !.transducers =
                    TransducerMerge(work[c].transducers, r.transducers[k])]
<1>1. /\ pc[c] = "transducers" /\ r.op = "merge" /\ k <= Len(r.transducers)
      /\ work' = [work EXCEPT ![c] = w]
      /\ prop' = [prop EXCEPT ![c] = 1]
      /\ pc' = [pc EXCEPT ![c] = "t_properties"]
      /\ UNCHANGED <<itemVars, call, old, next, stored>>
  BY DEF MergeTransducer, Goto
<1>2. r \in Calls /\ was \in Meta /\ work[c] \in Meta /\ k \in Nat \ {0}
  BY <1>1, Editing
<1>3. r.transducers \in Seq(Transducer)
  BY <1>1, <1>2, CallFields
<1>4. k \in 1..Len(r.transducers)
  BY <1>1, <1>2, <1>3
<1>5. ClientReached(c)
  BY DEF UpdateInv
<1>6. UniqueNames(was) /\ MergeReached(r, was, work[c], k, k, 1, 1)
  BY <1>1, <1>5, ReachedSteps DEF ClientReached
<1> HIDE DEF r, was, k
<1>7. MergeReached(r, was, w, k + 1, k, 1, 1)
  BY <1>1, <1>2, <1>4, <1>6, MergeTransducerReaches
<1> HIDE DEF w
<1>8. ClientsTypeOK
  BY ClientTypes
<1>9. /\ OtherClients(c) /\ pc'[c] = "t_properties" /\ call'[c] = r /\ old'[c] = was
      /\ work'[c] = w /\ next'[c] = k /\ prop'[c] = 1
  BY <1>1, <1>8 DEF ClientsTypeOK, OtherClients, r, was, k
<1>10. Reached("t_properties", r, was, w, k, 1)
  BY <1>1, <1>6, <1>7, ReachedSteps
<1> QED
  BY <1>1, <1>9, <1>10, LocalUpdate

LEMMA MergeTransducerPropertyUpdate ==
    ASSUME MetaInv, UpdateInv, NEW c \in Clients, MergeTransducerProperty(c)
    PROVE  UpdateInv'
<1> DEFINE r == call[c]
           was == old[c]
           k == next[c]
           u == prop[c]
           i == at[c]
           new == WithProperty(work[c].transducers, i, r.transducers[k].properties[u])
           w == [work[c] EXCEPT !.transducers = new]
<1>1. /\ pc[c] = "t_properties" /\ u <= Len(r.transducers[k].properties)
      /\ UNCHANGED <<itemVars, pc, call, old, next, stored>>
  BY DEF MergeTransducerProperty
<1>2. work' = [work EXCEPT ![c] = w] /\ prop' = [prop EXCEPT ![c] = u + 1]
  BY DEF MergeTransducerProperty, WithProperty
<1>3. r \in Calls /\ was \in Meta /\ work[c] \in Meta /\ UniqueNames(work[c])
  BY <1>1, Editing
<1>4. /\ ClientsTypeOK /\ u \in Nat \ {0}
      /\ r.op = "merge" /\ k \in 1..Len(r.transducers)
      /\ i \in 1..Len(work[c].transducers)
      /\ work[c].transducers[i].name = r.transducers[k].name
  BY <1>1, ClientTypes DEF ClientOK
<1>5. r.transducers[k] \in Transducer
  BY <1>3, <1>4, CallFields
<1>6. r.transducers[k].properties \in Seq(Property)
  BY <1>5 DEF Transducer
<1>7. u \in 1..Len(r.transducers[k].properties)
  BY <1>1, <1>4, <1>6
<1>8. ClientReached(c)
  BY DEF UpdateInv
<1>9. UniqueNames(was) /\ MergeReached(r, was, work[c], k + 1, k, u, 1)
  BY <1>1, <1>4, <1>8, ReachedSteps DEF ClientReached
<1> HIDE DEF r, was, k, u, i
<1>10. MergeReached(r, was, w, k + 1, k, u + 1, 1)
  BY <1>3, <1>4, <1>7, <1>9, MergePropertyReaches
<1> HIDE DEF w
<1>11. /\ OtherClients(c) /\ pc'[c] = "t_properties" /\ call'[c] = r /\ old'[c] = was
       /\ work'[c] = w /\ next'[c] = k /\ prop'[c] = u + 1
  BY <1>1, <1>2, <1>4 DEF ClientsTypeOK, OtherClients, r, was, k
<1>12. Reached("t_properties", r, was, w, k, u + 1)
  BY <1>4, <1>9, <1>10, ReachedSteps
<1> QED
  BY <1>1, <1>11, <1>12, LocalUpdate

LEMMA MergeTransducerEndUpdate ==
    ASSUME MetaInv, UpdateInv, NEW c \in Clients, MergeTransducerEnd(c)
    PROVE  UpdateInv'
<1> DEFINE r == call[c]
           was == old[c]
           w == work[c]
           k == next[c]
           u == prop[c]
<1>1. /\ pc[c] = "t_properties" /\ u > Len(r.transducers[k].properties)
      /\ next' = [next EXCEPT ![c] = k + 1]
      /\ pc' = [pc EXCEPT ![c] = "transducers"]
      /\ UNCHANGED <<itemVars, call, old, work, prop, stored>>
  BY DEF MergeTransducerEnd, Goto
<1>2. /\ ClientsTypeOK /\ u \in Nat /\ r \in Calls
      /\ r.op = "merge" /\ k \in 1..Len(r.transducers)
  BY <1>1, ClientTypes DEF ClientOK
<1>3. Len(r.transducers) \in Nat
  BY <1>2, CallFields
<1>4. ClientReached(c)
  BY DEF UpdateInv
<1>5. UniqueNames(was) /\ MergeReached(r, was, w, k + 1, k, u, 1)
  BY <1>1, <1>2, <1>4, ReachedSteps DEF ClientReached
<1>6. /\ OtherClients(c) /\ pc'[c] = "transducers" /\ call'[c] = r /\ old'[c] = was
      /\ work'[c] = w /\ next'[c] = k + 1 /\ prop'[c] = u
  BY <1>1, <1>2 DEF ClientsTypeOK, OtherClients
<1> HIDE DEF r, was, w, k, u
<1>7. MergeReached(r, was, w, k + 1, k + 1, 1, 1)
  BY <1>1, <1>2, <1>5, MergeNextReaches
<1>8. k + 1 <= Len(r.transducers) + 1
  BY <1>2, <1>3
<1>9. Reached("transducers", r, was, w, k + 1, u)
  BY <1>2, <1>5, <1>7, <1>8, ReachedSteps
<1> QED
  BY <1>1, <1>6, <1>9, LocalUpdate

LEMMA RemoveTransducerUpdate ==
    ASSUME MetaInv, UpdateInv, NEW c \in Clients, RemoveTransducer(c)
    PROVE  UpdateInv'
<1> DEFINE r == call[c]
           was == old[c]
           k == next[c]
           u == prop[c]
           list == work[c].transducers
           new == RemoveNamed(list, r.transducers[k])
           w == [work[c] EXCEPT !.transducers = new]
<1>1. /\ pc[c] = "transducers" /\ r.op = "remove" /\ k <= Len(r.transducers)
      /\ UNCHANGED <<itemVars, pc, call, old, prop, stored>>
  BY DEF RemoveTransducer
<1>2. work' = [work EXCEPT ![c] = w] /\ next' = [next EXCEPT ![c] = k + 1]
  BY DEF RemoveTransducer
<1>3. /\ r \in Calls /\ work[c] \in Meta /\ k \in Nat \ {0}
      /\ list \in Seq(Transducer) /\ Unique(list)
  BY <1>1, Editing DEF UniqueNames
<1>4. r.transducers \in Seq(Names)
  BY <1>1, <1>3, CallFields
<1>5. k \in 1..Len(r.transducers) /\ k + 1 <= Len(r.transducers) + 1
  BY <1>1, <1>3, <1>4
<1>6. ClientReached(c)
  BY DEF UpdateInv
<1>7. RemovalReached(r, was, work[c], k, 1)
  BY <1>1, <1>6, ReachedSteps DEF ClientReached
<1>8. ClientsTypeOK
  BY ClientTypes
<1> HIDE DEF r, was, k, u, list
<1>9. Gone(r.transducers, list, k)
  BY <1>7 DEF RemovalReached, list
<1>10. Gone(r.transducers, new, k + 1)
  BY <1>3, <1>4, <1>5, <1>9, GoneStep, NamesOfElements
<1> HIDE DEF new
<1>11. w.transducers = new /\ w.properties = work[c].properties
  BY <1>3 DEF Meta
<1> HIDE DEF w
<1>12. RemovalReached(r, was, w, k + 1, 1)
  BY <1>7, <1>10, <1>11 DEF RemovalReached
<1>13. /\ OtherClients(c) /\ pc'[c] = "transducers" /\ call'[c] = r /\ old'[c] = was
       /\ work'[c] = w /\ next'[c] = k + 1 /\ prop'[c] = u
  BY <1>1, <1>2, <1>8 DEF ClientsTypeOK, OtherClients, r, was, k, u
<1>14. Reached("transducers", r, was, w, k + 1, u)
  BY <1>1, <1>5, <1>12, ReachedSteps
<1> QED
  BY <1>1, <1>13, <1>14, LocalUpdate

LEMMA TransducersEndUpdate ==
    ASSUME MetaInv, UpdateInv, NEW c \in Clients, TransducersEnd(c)
    PROVE  UpdateInv'
<1> DEFINE r == call[c]
           was == old[c]
           w == work[c]
           n == next[c]
           u == prop[c]
<1>1. /\ pc[c] = "transducers" /\ n > Len(r.transducers)
      /\ next' = [next EXCEPT ![c] = 1]
      /\ pc' = [pc EXCEPT ![c] = "properties"]
      /\ UNCHANGED <<itemVars, call, old, work, prop, stored>>
  BY DEF TransducersEnd, Goto
<1>2. ClientsTypeOK /\ r \in Calls /\ r.op \in {"merge", "remove"} /\ n \in Nat
  BY <1>1, ClientTypes, Editing
<1>3. Len(r.transducers) \in Nat /\ Len(r.properties) \in Nat
  BY <1>2, CallFields
<1>4. ClientReached(c)
  BY DEF UpdateInv
<1>5. Reached("transducers", r, was, w, n, u)
  BY <1>1, <1>4 DEF ClientReached
<1>6. /\ OtherClients(c) /\ pc'[c] = "properties" /\ call'[c] = r /\ old'[c] = was
      /\ work'[c] = w /\ next'[c] = 1 /\ prop'[c] = u
  BY <1>1, <1>2 DEF ClientsTypeOK, OtherClients
<1> HIDE DEF r, was, w, n, u
<1>7. n <= Len(r.transducers) + 1
  BY <1>5, ReachedSteps
<1>8. n = Len(r.transducers) + 1 /\ 1 <= Len(r.properties) + 1
  BY <1>1, <1>2, <1>3, <1>7
<1>9. Reached("properties", r, was, w, 1, u)
  BY <1>5, <1>8, ReachedSteps
<1> QED
  BY <1>1, <1>6, <1>9, LocalUpdate

LEMMA EditPropertyUpdate ==
    ASSUME MetaInv, UpdateInv, NEW c \in Clients, EditProperty(c)
    PROVE  UpdateInv'
<1> DEFINE r == call[c]
           was == old[c]
           k == next[c]
           u == prop[c]
           p == r.properties[k]
           list == work[c].properties
           new == IF r.op = "merge" THEN Put(list, Slot(list, p.name), p)
                  ELSE RemoveNamed(list, p)
           w == [work[c] EXCEPT !.properties = new]
           all == Len(r.transducers) + 1
<1>1. /\ pc[c] = "properties" /\ k <= Len(r.properties)
      /\ UNCHANGED <<itemVars, pc, call, old, prop, stored>>
  BY DEF EditProperty
<1>2. work' = [work EXCEPT ![c] = w] /\ next' = [next EXCEPT ![c] = k + 1]
  BY DEF EditProperty
<1>3. /\ r \in Calls /\ r.op \in {"merge", "remove"} /\ was \in Meta /\ work[c] \in Meta
      /\ k \in Nat \ {0} /\ list \in Seq(Property)
  BY <1>1, Editing
<1>4. Len(r.properties) \in Nat
  BY <1>3, CallFields
<1>5. k \in 1..Len(r.properties) /\ k + 1 <= Len(r.properties) + 1
  BY <1>1, <1>3, <1>4
<1>6. ClientReached(c)
  BY DEF UpdateInv
<1>7. Reached("properties", r, was, work[c], k, u)
  BY <1>1, <1>6 DEF ClientReached
<1>8. ClientsTypeOK
  BY ClientTypes
<1> HIDE DEF r, was, k, u
<1>9. ASSUME r.op = "merge" PROVE Reached("properties", r, was, w, k + 1, u)
  <2>1. UniqueNames(was) /\ MergeReached(r, was, work[c], all, all, 1, k)
    BY <1>7, <1>9, ReachedSteps
  <2>2. w = [work[c] EXCEPT !.properties = Put(list, Slot(list, p.name), p)]
    BY <1>9
  <2> HIDE DEF w, all
  <2>3. MergeReached(r, was, w, all, all, 1, k + 1)
    BY <1>3, <1>5, <1>9, <2>1, <2>2, MergeDevicePropertyReaches
  <2> QED
    BY <1>5, <1>9, <2>1, <2>3, ReachedSteps DEF all
<1>10. ASSUME r.op = "remove" PROVE Reached("properties", r, was, w, k + 1, u)
  <2>1. RemovalReached(r, was, work[c], all, k)
    BY <1>7, <1>10, ReachedSteps
  <2>2. new = RemoveNamed(list, r.properties[k])
    BY <1>10
  <2> HIDE DEF new, list
  <2>3. w.transducers = work[c].transducers /\ w.properties = new
    BY <1>3 DEF Meta
  <2> HIDE DEF w
  <2>4. r.properties \in Seq(Names)
    BY <1>3, <1>10, CallFields
  <2>5. ASSUME Unique(was.properties)
        PROVE  Unique(w.properties) /\ Gone(r.properties, w.properties, k + 1)
    <3>1. Unique(list) /\ Gone(r.properties, list, k)
      BY <2>1, <2>5 DEF RemovalReached, list
    <3> QED
      BY <1>3, <1>5, <2>2, <2>3, <2>4, <3>1, GoneStep, NamesOfElements
  <2>6. RemovalReached(r, was, w, all, k + 1)
    BY <2>1, <2>3, <2>5 DEF RemovalReached
  <2> QED
    BY <1>5, <1>10, <2>6, ReachedSteps
<1> HIDE DEF w, all
<1>11. Reached("properties", r, was, w, k + 1, u)
  BY <1>3, <1>9, <1>10
<1>12. /\ OtherClients(c) /\ pc'[c] = "properties" /\ call'[c] = r /\ old'[c] = was
       /\ work'[c] = w /\ next'[c] = k + 1 /\ prop'[c] = u
  BY <1>1, <1>2, <1>8 DEF ClientsTypeOK, OtherClients, r, was, k, u
<1> QED
  BY <1>1, <1>11, <1>12, LocalUpdate

LEMMA PropertiesEndUpdate ==
    ASSUME MetaInv, UpdateInv, NEW c \in Clients, PropertiesEnd(c)
    PROVE  UpdateInv'
<1> DEFINE r == call[c]
           was == old[c]
           w == work[c]
           n == next[c]
           u == prop[c]
<1>1. /\ pc[c] = "properties" /\ n > Len(r.properties)
      /\ pc' = [pc EXCEPT ![c] = "publish"]
      /\ UNCHANGED <<itemVars, call, old, work, next, prop, stored>>
  BY DEF PropertiesEnd, Goto
<1>2. ClientsTypeOK /\ r \in Calls /\ r.op \in {"merge", "remove"} /\ n \in Nat
  BY <1>1, ClientTypes, Editing
<1>3. Len(r.properties) \in Nat
  BY <1>2, CallFields
<1>4. ClientReached(c)
  BY DEF UpdateInv
<1>5. Reached("properties", r, was, w, n, u)
  BY <1>1, <1>4 DEF ClientReached
<1>6. /\ OtherClients(c) /\ pc'[c] = "publish" /\ call'[c] = r /\ old'[c] = was
      /\ work'[c] = w /\ next'[c] = n /\ prop'[c] = u
  BY <1>1, <1>2 DEF ClientsTypeOK, OtherClients
<1> HIDE DEF r, was, w, n, u
<1>7. n <= Len(r.properties) + 1
  BY <1>5, ReachedSteps
<1>8. n = Len(r.properties) + 1
  BY <1>1, <1>2, <1>3, <1>7
<1>9. Reached("publish", r, was, w, n, u)
  BY <1>5, <1>8, ReachedSteps
<1> QED
  BY <1>1, <1>6, <1>9, LocalUpdate

-----------------------------------------------------------------------------
(***************************************************************************)
(* Publications and items.                                                 *)
(***************************************************************************)

\* What a client publishes has what its call asks for.
LEMMA PublishUpdate ==
    ASSUME MetaInv, UpdateInv, NEW c \in Clients, Publish(c)
    PROVE  UpdateInv'
<1> DEFINE r == call[c]
           was == old[c]
           w == work[c]
           v == MetaToItem(w)
           p == [node |-> r.node, value |-> v, by |-> [call |-> r, old |-> was]]
<1>1. /\ pc[c] = "publish" /\ Convertible(c)
      /\ sent' = [sent EXCEPT ![c] = Append(sent[c], p)]
      /\ pc' = [pc EXCEPT ![c] = "await"]
      /\ UNCHANGED <<item, call, old, work, next, prop, stored>>
  BY DEF Publish, ItemPublish, Goto
<1>2. /\ ClientsTypeOK /\ r \in Calls /\ was \in Meta /\ w \in Meta /\ Written(was)
  BY <1>1, ClientTypes DEF ClientOK
<1>3. r.op # "retract" => ~Unwritable(w) /\ w.type # "unknown"
  BY <1>1 DEF Convertible
<1>4. ClientReached(c)
  BY DEF UpdateInv
<1>5. Reached("publish", r, was, w, next[c], prop[c])
  BY <1>1, <1>4 DEF ClientReached
<1>6. sent \in [Clients -> Seq(Publication)] /\ p \in Publication
  <2>1. sent \in [Clients -> Seq(Publication)]
    BY DEF MetaInv, MetaTypeOK
  <2>2. r.node \in Nodes /\ v \in Meta
    BY <1>2, CallFields, MetaToItemEffect, ClientTypes DEF ClientOK
  <2> HIDE DEF v, r, was
  <2>3. p \in Publication
    BY <1>2, <2>2 DEF Publication, Source
  <2> QED
    BY <2>1, <2>3
<1>7. p.by.call = r /\ p.by.old = was /\ p.value = v
  OBVIOUS
<1>8. /\ OtherClients(c) /\ pc'[c] = "await"
  BY <1>1, <1>2 DEF ClientsTypeOK, OtherClients
<1> HIDE DEF r, was, w, p
<1>9. PublicationDone(p)
  <2>1. ASSUME r.op = "merge"
        PROVE  MergeDone(r, was, v) /\ Merged(r, v) /\ (Repeats(r, was) => v = was)
    <3>1. /\ UniqueNames(was)
          /\ MergeReached(r, was, w, Len(r.transducers) + 1, Len(r.transducers) + 1, 1,
                          Len(r.properties) + 1)
      BY <1>5, <2>1, ReachedSteps
    <3> QED
      BY <1>2, <1>3, <2>1, <3>1, MergePublished
  <2>2. ASSUME r.op = "remove" PROVE RemovalDone(r, was, v)
    <3>1. RemovalReached(r, was, w, Len(r.transducers) + 1, Len(r.properties) + 1)
      BY <1>5, <2>2, ReachedSteps
    <3> QED
      BY <1>2, <2>2, <3>1, RemovalIsDone
  <2> HIDE DEF v
  <2> QED
    BY <1>7, <2>1, <2>2 DEF PublicationDone
<1>10. sent'[c] = Append(sent[c], p) /\ \A b \in Clients \ {c} : sent'[b] = sent[b]
  BY <1>1, <1>6
<1>11. ASSUME NEW b \in Clients, NEW i \in 1..Len(sent'[b])
       PROVE  PublicationDone(sent'[b][i])
  <2>1. CASE b # c
    BY <1>10, <2>1 DEF UpdateInv
  <2>2. CASE b = c
    <3>1. sent[c] \in Seq(Publication)
      BY <1>6
    <3>2. i \in 1..(Len(sent[c]) + 1)
      BY <1>6, <1>10, <2>2, <3>1
    <3>3. CASE i = Len(sent[c]) + 1
      BY <1>6, <1>9, <1>10, <2>2, <3>1, <3>3
    <3>4. CASE i # Len(sent[c]) + 1
      <4>1. i \in 1..Len(sent[c]) /\ sent'[c][i] = sent[c][i]
        BY <1>6, <1>10, <3>1, <3>2, <3>4
      <4> QED
        BY <2>2, <4>1 DEF UpdateInv
    <3> QED
      BY <3>3, <3>4
  <2> QED
    BY <2>1, <2>2
<1>12. ASSUME NEW b \in Clients PROVE ClientReached(b)'
  <2>1. CASE b = c
    <3>1. Reached("await", call'[c], old'[c], work'[c], next'[c], prop'[c])
      BY ReachedSteps
    <3> QED
      BY <1>8, <2>1, <3>1 DEF ClientReached
  <2>2. CASE b # c
    BY <1>8, <2>2 DEF UpdateInv, ClientReached, OtherClients
  <2> QED
    BY <2>1, <2>2
<1>13. \A n \in Nodes : stored'[n] # NULL /\ stored'[n].call.op = "merge" =>
                            Merged(stored'[n].call, item'[n])
  BY <1>1 DEF UpdateInv
<1> QED
  BY <1>11, <1>12, <1>13 DEF UpdateInv

\* What the server stores next.
LEMMA NextPublication ==
    ASSUME MetaInv, UpdateInv, NEW c \in Clients, sent[c] # <<>>
    PROVE  Head(sent[c]) \in Publication /\ PublicationDone(Head(sent[c]))
<1>1. sent[c] \in Seq(Publication)
  BY DEF MetaInv, MetaTypeOK
<1>2. 1 \in 1..Len(sent[c]) /\ Head(sent[c]) = sent[c][1]
  BY <1>1
<1> QED
  BY <1>1, <1>2 DEF UpdateInv

LEMMA TailPositions ==
    ASSUME NEW T, NEW list \in Seq(T), list # <<>>, NEW i \in 1..Len(Tail(list))
    PROVE  i + 1 \in 1..Len(list) /\ Tail(list)[i] = list[i + 1]
OBVIOUS

LEMMA ServerUpdate ==
    ASSUME MetaInv, UpdateInv, NEW c \in Clients, Store(c) \/ NetworkFails(c)
    PROVE  UpdateInv'
<1> DEFINE p == Head(sent[c])
<1>1. /\ sent[c] # <<>> /\ UNCHANGED clientVars
      /\ \/ sent' = [sent EXCEPT ![c] = Tail(sent[c])]
         \/ sent' = [sent EXCEPT ![c] = <<>>]
  BY DEF Store, NetworkFails, ServerStore, ServerRefuse, LinkLost
<1>2. \/ /\ item' = [item EXCEPT ![p.node] = p.value]
         /\ stored' = [stored EXCEPT ![p.node] = p.by]
      \/ UNCHANGED <<item, stored>>
  BY DEF Store, NetworkFails, ServerStore, ServerRefuse, LinkLost
<1>3. p \in Publication /\ PublicationDone(p)
  BY <1>1, NextPublication
<1>4. /\ sent \in [Clients -> Seq(Publication)] /\ item \in [Nodes -> Meta]
      /\ stored \in [Nodes -> Source \cup {NULL}]
  BY DEF MetaInv, MetaTypeOK
<1> HIDE DEF p
<1>5. p.node \in Nodes
  BY <1>3 DEF Publication
<1>6. ASSUME NEW n \in Nodes, stored'[n] # NULL, stored'[n].call.op = "merge"
      PROVE  Merged(stored'[n].call, item'[n])
  <2>1. CASE item'[n] = item[n] /\ stored'[n] = stored[n]
    BY <1>6, <2>1 DEF UpdateInv
  <2>2. CASE item'[n] = p.value /\ stored'[n] = p.by
    BY <1>3, <1>6, <2>2 DEF PublicationDone
  <2> QED
    BY <1>2, <1>4, <1>5, <2>1, <2>2
<1>7. ASSUME NEW b \in Clients, NEW i \in 1..Len(sent'[b])
      PROVE  PublicationDone(sent'[b][i])
  <2>1. CASE b # c
    <3>1. sent'[b] = sent[b]
      BY <1>1, <1>4, <2>1
    <3> QED
      BY <3>1 DEF UpdateInv
  <2>2. CASE b = c
    <3>1. /\ sent[c] \in Seq(Publication) /\ sent[c] # <<>>
          /\ i \in 1..Len(sent'[c]) /\ (sent'[c] = Tail(sent[c]) \/ sent'[c] = <<>>)
      BY <1>1, <1>4, <2>2
    <3>2. sent'[c] # <<>>
      BY <3>1
    <3>3. i \in 1..Len(Tail(sent[c])) /\ sent'[c] = Tail(sent[c])
      BY <3>1, <3>2
    <3>4. i + 1 \in 1..Len(sent[c]) /\ Tail(sent[c])[i] = sent[c][i + 1]
      BY <3>1, <3>3, TailPositions
    <3> QED
      BY <2>2, <3>3, <3>4 DEF UpdateInv
  <2> QED
    BY <2>1, <2>2
<1>8. \A b \in Clients : ClientReached(b)'
  BY <1>1 DEF UpdateInv, ClientReached, clientVars
<1> QED
  BY <1>6, <1>7, <1>8 DEF UpdateInv

-----------------------------------------------------------------------------
(***************************************************************************)
(* The theorems.                                                           *)
(***************************************************************************)

LEMMA UpdateInvInitially == MetaInit => UpdateInv
<1> SUFFICES ASSUME MetaInit PROVE UpdateInv
  OBVIOUS
<1>1. ASSUME NEW c \in Clients PROVE ClientReached(c)
  <2>1. pc[c] = "idle" /\ next[c] = 1
    BY DEF MetaInit
  <2> QED
    BY <2>1, ReachedSteps DEF ClientReached
<1>2. \A c \in Clients : \A i \in 1..Len(sent[c]) : PublicationDone(sent[c][i])
  BY DEF MetaInit
<1>3. \A n \in Nodes : stored[n] = NULL
  BY DEF MetaInit
<1> QED
  BY <1>1, <1>2, <1>3 DEF UpdateInv

LEMMA UpdateInvStep ==
    ASSUME MetaInv, UpdateInv, [MetaNext]_metaVars
    PROVE  UpdateInv'
<1>1. CASE UNCHANGED metaVars
  <2>1. UNCHANGED <<item, sent, stored, pc, call, old, work, next, prop>>
    BY <1>1 DEF metaVars, itemVars, clientVars
  <2>2. \A c \in Clients : ClientReached(c)'
    BY <2>1 DEF UpdateInv, ClientReached
  <2> QED
    BY <2>1, <2>2 DEF UpdateInv
<1>2. CASE MetaNext
  <2>1. PICK c \in Clients :
            (\E r \in Calls : NewCall(c, r)) \/ ClientStep(c) \/ Store(c) \/ NetworkFails(c)
    BY <1>2 DEF MetaNext
  <2>2. ASSUME NEW r \in Calls, NewCall(c, r) PROVE UpdateInv'
    BY <2>2, NewCallUpdate
  <2>3. CASE \/ Unanswered(c) \/ PublishDisconnected(c) \/ PublishAnswered(c)
             \/ PublishTimeout(c)
    BY <2>3, ReturnUpdate DEF Unanswered, PublishDisconnected, PublishAnswered, PublishTimeout
  <2>4. CASE ReadCrash(c) \/ PublishCrash(c)
    BY <2>4, CrashUpdate DEF ReadCrash, PublishCrash
  <2>5. CASE MergeQueried(c)
    BY <2>5, MergeQueriedUpdate
  <2>6. CASE RemoveQueried(c)
    BY <2>6, RemoveQueriedUpdate
  <2>7. CASE RetractQueried(c)
    BY <2>7, OtherQueriedUpdate DEF RetractQueried
  <2>8. CASE GeolocQueried(c)
    BY <2>8, GeolocQueriedUpdate
  <2>9. CASE MergeTransducer(c)
    BY <2>9, MergeTransducerUpdate
  <2>10. CASE MergeTransducerProperty(c)
    BY <2>10, MergeTransducerPropertyUpdate
  <2>11. CASE MergeTransducerEnd(c)
    BY <2>11, MergeTransducerEndUpdate
  <2>12. CASE RemoveTransducer(c)
    BY <2>12, RemoveTransducerUpdate
  <2>13. CASE TransducersEnd(c)
    BY <2>13, TransducersEndUpdate
  <2>14. CASE EditProperty(c)
    BY <2>14, EditPropertyUpdate
  <2>15. CASE PropertiesEnd(c)
    BY <2>15, PropertiesEndUpdate
  <2>16. CASE Publish(c)
    BY <2>16, PublishUpdate
  <2>17. CASE Store(c) \/ NetworkFails(c)
    BY <2>17, ServerUpdate
  <2> QED
    BY <2>1, <2>2, <2>3, <2>4, <2>5, <2>6, <2>7, <2>8, <2>9, <2>10, <2>11, <2>12, <2>13,
       <2>14, <2>15, <2>16, <2>17 DEF ClientStep
<1> QED
  BY <1>1, <1>2

\* At every step of mio_meta_merge_publish and mio_meta_remove_publish the copy
\* has what the elements of the call before the position of the loop ask for,
\* publications under way have all of it, and so has an item since a merge was
\* stored: the argument of the theorems below.
THEOREM UpdateInvariant == MetaSpec => []UpdateInv
<1>1. MetaInit => UpdateInv
  BY UpdateInvInitially
<1>2. MetaInv /\ UpdateInv /\ [MetaNext]_metaVars => UpdateInv'
  BY UpdateInvStep
<1> QED
  BY <1>1, <1>2, MetaInvariant, PTL DEF MetaSpec

\* What mio_meta_merge_publish and mio_meta_remove_publish publish does what
\* the call asks for, relative to the queried item: each given member of the
\* device and of a transducer and each given property is overwritten, the other
\* members are as they were, and what is to be removed is gone, for lists of any
\* length and with any number of clients in between.  Excepted are the losses
\* that MioMeta names: the info of a transducer, an altitude that is not the
\* accuracy, what the parser has misread, and the second and later properties of
\* the meta structure.
THEOREM MentionedUpdated == MetaSpec => MentionedAreUpdated
<1> DEFINE Updated == \A c \in Clients :
                         LET p == Head(sent[c])
                             r == p.by.call
                         IN  Store(c) => /\ r.op = "merge" => MergeDone(r, p.by.old, p.value)
                                         /\ r.op = "remove" => RemovalDone(r, p.by.old, p.value)
<1>1. ASSUME MetaInv, UpdateInv PROVE Updated
  <2> SUFFICES ASSUME NEW c \in Clients, Store(c)
               PROVE  LET p == Head(sent[c])
                          r == p.by.call
                      IN  /\ r.op = "merge" => MergeDone(r, p.by.old, p.value)
                          /\ r.op = "remove" => RemovalDone(r, p.by.old, p.value)
    OBVIOUS
  <2>1. sent[c] # <<>>
    BY DEF Store, ServerStore
  <2>2. PublicationDone(Head(sent[c]))
    BY <1>1, <2>1, NextPublication
  <2> QED
    BY <2>2 DEF PublicationDone
<1>2. MetaInv /\ UpdateInv => [Updated]_metaVars
  BY <1>1
<1> HIDE DEF Updated
<1>3. [][Updated]_metaVars <=> MentionedAreUpdated
  BY DEF Updated, MentionedAreUpdated
<1> QED
  BY <1>2, <1>3, MetaInvariant, UpdateInvariant, PTL

\* A client that repeats mio_meta_merge_publish because the answer was lost, on
\* an item that is what the same call of any client made of it, publishes the
\* item as it is: nothing is added a second time, whatever the call mentions,
\* and however often.  The item must have no transducer with both a location and
\* properties (NothingMisread), which the parser does not read as it was written.
THEOREM MergeAgainHarmless == MetaSpec => MergeAgainIsHarmless
<1> DEFINE Harmless == \A c \in Clients :
                          LET p == Head(sent[c])
                              n == p.node
                          IN  /\ Store(c)
                              /\ p.by.call.op = "merge"
                              /\ p.by.old = item[n]
                              /\ stored[n] # NULL
                              /\ stored[n].call = p.by.call
                              /\ NothingMisread(item[n])
                              => p.value = item[n]
<1>1. ASSUME MetaInv, UpdateInv PROVE Harmless
  <2> SUFFICES ASSUME NEW c \in Clients, Store(c), NEW p, p = Head(sent[c]),
                      p.by.call.op = "merge", p.by.old = item[p.node],
                      stored[p.node] # NULL, stored[p.node].call = p.by.call,
                      NothingMisread(item[p.node])
               PROVE  p.value = item[p.node]
    OBVIOUS
  <2>1. sent[c] # <<>>
    BY DEF Store, ServerStore
  <2>2. p \in Publication /\ PublicationDone(p)
    BY <1>1, <2>1, NextPublication
  <2>3. p.node \in Nodes
    BY <2>2 DEF Publication
  <2>4. Merged(p.by.call, item[p.node])
    BY <1>1, <2>3 DEF UpdateInv
  <2>5. Repeats(p.by.call, p.by.old)
    BY <2>4 DEF Repeats
  <2> QED
    BY <2>2, <2>5 DEF PublicationDone
<1>2. MetaInv /\ UpdateInv => [Harmless]_metaVars
  BY <1>1
<1> HIDE DEF Harmless
<1>3. [][Harmless]_metaVars <=> MergeAgainIsHarmless
  BY DEF Harmless, MergeAgainIsHarmless
<1> QED
  BY <1>2, <1>3, MetaInvariant, UpdateInvariant, PTL

=============================================================================

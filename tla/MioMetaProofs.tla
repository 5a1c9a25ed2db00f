--------------------------- MODULE MioMetaProofs ---------------------------
(***************************************************************************)
(* Proofs about MioMeta for any number of clients, nodes and calls, and    *)
(* for transducers and properties in lists of any length.                  *)
(***************************************************************************)
EXTENDS MioMeta, WellFoundedInduction, TLAPS

-----------------------------------------------------------------------------
(***************************************************************************)
(* Lists whose elements have names.                                        *)
(***************************************************************************)

\* A set of positions that is not empty has a smallest element.
LEMMA FirstFound ==
    ASSUME NEW S \in SUBSET Nat, S # {}
    PROVE  First(S) \in S
<1> DEFINE Less == OpToRel(<, Nat)
<1>1. \A x, y \in Nat : <<x, y>> \in Less <=> x < y
  BY DEF OpToRel
<1>2. IsWellFoundedOn(Less, Nat)
  BY NatLessThanWellFounded, Zenon
<1> HIDE DEF Less
<1>3. PICK least \in S : \A other \in S : <<other, least>> \notin Less
  BY <1>2, WFMin, Zenon
<1>4. \A other \in S : ~(other < least)
  <2>1. \A x \in S : x \in Nat
    OBVIOUS
  <2> QED
    BY <1>1, <1>3, <2>1, Zenon
<1>5. \A other \in S : least <= other
  BY <1>4
<1> QED
  BY <1>5 DEF First

\* Unique without the set of names.
LEMMA UniqueMeansInjective ==
    ASSUME NEW T, \A e \in T : e.name \in Names, NEW list \in Seq(T)
    PROVE  Unique(list) <=>
               \A i, j \in 1..Len(list) : list[i].name = list[j].name => i = j
<1>1. \A i \in 1..Len(list) : list[i].name \in Names
  OBVIOUS
<1>2. ASSUME Unique(list), NEW i \in 1..Len(list), NEW j \in 1..Len(list),
             list[i].name = list[j].name
      PROVE  i = j
  <2>1. i \in Named(list, list[i].name) /\ j \in Named(list, list[i].name)
    BY <1>2 DEF Named
  <2> QED
    BY <1>1, <1>2, <2>1 DEF Unique
<1>3. ASSUME \A i, j \in 1..Len(list) : list[i].name = list[j].name => i = j
      PROVE  Unique(list)
  BY <1>3 DEF Unique, Named
<1> QED
  BY <1>2, <1>3

\* Slot finds the name, or the place behind a list that has it nowhere.
LEMMA SlotFound ==
    ASSUME NEW T, NEW list \in Seq(T), NEW n
    PROVE  \/ /\ Slot(list, n) \in 1..Len(list)
              /\ list[Slot(list, n)].name = n
           \/ /\ Slot(list, n) = Len(list) + 1
              /\ \A i \in 1..Len(list) : list[i].name # n
<1>1. Named(list, n) \in SUBSET Nat
  BY DEF Named
<1>2. CASE Named(list, n) = {}
  BY <1>2 DEF Slot, Named
<1>3. CASE Named(list, n) # {}
  BY <1>1, <1>3, FirstFound DEF Slot, Named
<1> QED
  BY <1>2, <1>3

\* What Put does to a list.
LEMMA PutEffect ==
    ASSUME NEW T, NEW list \in Seq(T), NEW e \in T, NEW i \in 1..(Len(list) + 1)
    PROVE  /\ Put(list, i, e) \in Seq(T)
           /\ Len(Put(list, i, e)) = IF i > Len(list) THEN Len(list) + 1 ELSE Len(list)
           /\ Put(list, i, e)[i] = e
           /\ \A j \in 1..Len(list) : j # i => Put(list, i, e)[j] = list[j]
<1>1. CASE i > Len(list)
  <2>1. i = Len(list) + 1
    BY <1>1
  <2> QED
    BY <1>1, <2>1 DEF Put
<1>2. CASE ~(i > Len(list))
  BY <1>2 DEF Put
<1> QED
  BY <1>1, <1>2

\* Putting an element of a name where the name is keeps the names unique.
LEMMA PutUnique ==
    ASSUME NEW T, \A x \in T : x.name \in Names, NEW list \in Seq(T), Unique(list),
           NEW e \in T
    PROVE  Unique(Put(list, Slot(list, e.name), e))
<1> DEFINE i == Slot(list, e.name)
           new == Put(list, i, e)
<1>0. Len(list) \in Nat
  OBVIOUS
<1>1. \/ i \in 1..Len(list) /\ list[i].name = e.name
      \/ i = Len(list) + 1 /\ \A j \in 1..Len(list) : list[j].name # e.name
  BY SlotFound
<1>2. i \in 1..(Len(list) + 1)
  BY <1>0, <1>1
<1>3. /\ new \in Seq(T)
      /\ Len(new) = IF i > Len(list) THEN Len(list) + 1 ELSE Len(list)
      /\ new[i] = e
      /\ \A j \in 1..Len(list) : j # i => new[j] = list[j]
  BY <1>2, PutEffect
<1>4. \A j, k \in 1..Len(list) : list[j].name = list[k].name => j = k
  BY UniqueMeansInjective
<1> HIDE DEF i, new
<1>5. ASSUME NEW j \in 1..Len(new), j # i
      PROVE  j \in 1..Len(list) /\ new[j].name = list[j].name /\ list[j].name # e.name
  <2>1. j \in 1..Len(list)
    BY <1>0, <1>1, <1>3, <1>5
  <2> QED
    BY <1>1, <1>3, <1>4, <1>5, <2>1
<1>6. \A j, k \in 1..Len(new) : new[j].name = new[k].name => j = k
  <2> TAKE j, k \in 1..Len(new)
  <2>1. CASE j # i /\ k # i
    BY <1>4, <1>5, <2>1
  <2>2. CASE j = i \/ k = i
    BY <1>3, <1>5, <2>2
  <2> QED
    BY <2>1, <2>2
<1>7. Unique(new)
  BY <1>3, <1>6, UniqueMeansInjective
<1> QED
  BY <1>7 DEF new, i

\* Taking out an element leaves the others, in their order.
LEMMA WithoutEffect ==
    ASSUME NEW T, NEW list \in Seq(T), NEW f \in 1..Len(list)
    PROVE  /\ Without(list, f) \in Seq(T)
           /\ Len(Without(list, f)) = Len(list) - 1
           /\ \A j \in 1..(Len(list) - 1) :
                 Without(list, f)[j] = list[IF j < f THEN j ELSE j + 1]
<1> DEFINE front == SubSeq(list, 1, f - 1)
           rear == SubSeq(list, f + 1, Len(list))
<1>1. /\ front \in Seq(T) /\ Len(front) = f - 1
      /\ \A j \in 1..(f - 1) : front[j] = list[j]
  OBVIOUS
<1>2. /\ rear \in Seq(T) /\ Len(rear) = Len(list) - f
      /\ \A j \in 1..(Len(list) - f) : rear[j] = list[f + j]
  OBVIOUS
<1>3. Without(list, f) = front \o rear
  BY DEF Without
<1> HIDE DEF front, rear
<1>4. /\ front \o rear \in Seq(T)
      /\ Len(front \o rear) = Len(front) + Len(rear)
      /\ \A j \in 1..(Len(front) + Len(rear)) :
            (front \o rear)[j] = IF j <= Len(front) THEN front[j] ELSE rear[j - Len(front)]
  <2>1. front \in Seq(T) /\ rear \in Seq(T)
    BY <1>1, <1>2
  <2> QED
    BY <2>1
<1>5. ASSUME NEW j \in 1..(Len(list) - 1)
      PROVE  (front \o rear)[j] = list[IF j < f THEN j ELSE j + 1]
  <2>0. f \in Nat /\ Len(list) \in Nat /\ f <= Len(list) /\ j \in 1..(Len(front) + Len(rear))
    BY <1>1, <1>2
  <2>1. CASE j < f
    BY <1>1, <1>4, <2>0, <2>1
  <2>2. CASE ~(j < f)
    <3>1. j - Len(front) \in 1..(Len(list) - f) /\ f + (j - Len(front)) = j + 1
      BY <1>1, <2>0, <2>2
    <3>2. (front \o rear)[j] = rear[j - Len(front)]
      BY <1>1, <1>4, <2>0, <2>2
    <3> QED
      BY <1>2, <2>2, <3>1, <3>2
  <2> QED
    BY <2>1, <2>2
<1> QED
  BY <1>1, <1>2, <1>3, <1>4, <1>5

\* What RemoveNamed leaves is a part of the list, in its order, that has all
\* elements of other names.
LEMMA RemoveNamedEffect ==
    ASSUME NEW T, \A x \in T : x.name \in Names, NEW list \in Seq(T), NEW n
    PROVE  /\ RemoveNamed(list, n) \in Seq(T)
           /\ Unique(list) => Unique(RemoveNamed(list, n))
           /\ \A j \in 1..Len(RemoveNamed(list, n)) :
                 \E i \in 1..Len(list) : RemoveNamed(list, n)[j] = list[i]
           /\ \A i \in 1..Len(list) :
                 list[i].name # n =>
                     \E j \in 1..Len(RemoveNamed(list, n)) : RemoveNamed(list, n)[j] = list[i]
<1>1. CASE Named(list, n) = {}
  BY <1>1 DEF RemoveNamed
<1>2. CASE Named(list, n) # {}
  <2> DEFINE f == First(Named(list, n))
             new == Without(list, f)
             from(j) == IF j < f THEN j ELSE j + 1
  <2>1. f \in 1..Len(list) /\ list[f].name = n
    <3>1. Named(list, n) \in SUBSET Nat
      BY DEF Named
    <3>2. f \in Named(list, n)
      BY <1>2, <3>1, FirstFound
    <3> QED
      BY <3>2 DEF Named
  <2>2. RemoveNamed(list, n) = new
    BY <1>2 DEF RemoveNamed
  <2>3. /\ new \in Seq(T) /\ Len(new) = Len(list) - 1
        /\ \A j \in 1..(Len(list) - 1) : new[j] = list[from(j)]
    BY <2>1, WithoutEffect
  <2> HIDE DEF f, new
  <2>4. f \in Nat /\ Len(list) \in Nat
    BY <2>1
  <2>5. \A j \in 1..Len(new) : from(j) \in 1..Len(list)
    BY <2>3, <2>4
  <2>6. ASSUME Unique(list)
        PROVE  Unique(new)
    <3>1. \A i, j \in 1..Len(list) : list[i].name = list[j].name => i = j
      BY <2>6, UniqueMeansInjective
    <3>2. ASSUME NEW i \in 1..Len(new), NEW j \in 1..Len(new), new[i].name = new[j].name
          PROVE  i = j
      <4>1. from(i) = from(j)
        BY <2>3, <2>5, <3>1, <3>2
      <4> QED
        BY <2>3, <2>4, <4>1
    <3> QED
      BY <2>3, <3>2, UniqueMeansInjective
  <2>7. \A j \in 1..Len(new) : \E i \in 1..Len(list) : new[j] = list[i]
    BY <2>3, <2>5
  <2>8. ASSUME NEW i \in 1..Len(list), list[i].name # n
        PROVE  \E j \in 1..Len(new) : new[j] = list[i]
    <3> DEFINE j == IF i < f THEN i ELSE i - 1
    <3>1. i # f
      BY <2>1, <2>8
    <3>2. j \in 1..Len(new) /\ from(j) = i
      BY <2>1, <2>3, <2>4, <3>1
    <3> QED
      BY <2>3, <3>2
  <2> QED
    BY <2>2, <2>3, <2>6, <2>7, <2>8
<1> QED
  BY <1>1, <1>2

-----------------------------------------------------------------------------
(***************************************************************************)
(* The functions on the structures keep their types, and names unique.     *)
(***************************************************************************)

LEMMA NamesOfElements ==
    /\ \A p \in Property : p.name \in Names
    /\ \A t \in Transducer : t.name \in Names
BY DEF Property, Transducer

LEMMA TransducerPropertyMergeEffect ==
    ASSUME NEW list \in Seq(Property), NEW p \in Property
    PROVE  /\ TransducerPropertyMerge(list, p) \in Seq(Property)
           /\ Unique(list) => Unique(TransducerPropertyMerge(list, p))
<1> DEFINE new == TransducerPropertyMerge(list, p)
<1>1. CASE Named(list, p.name) = {}
  <2>1. \A i \in 1..Len(list) : list[i].name # p.name
    BY <1>1 DEF Named
  <2>2. /\ new = Append(list, p) /\ new \in Seq(Property) /\ Len(new) = Len(list) + 1
        /\ new[Len(list) + 1] = p /\ \A i \in 1..Len(list) : new[i] = list[i]
    BY <1>1 DEF TransducerPropertyMerge
  <2> HIDE DEF new
  <2>3. ASSUME Unique(list), NEW i \in 1..Len(new), NEW j \in 1..Len(new),
               new[i].name = new[j].name
        PROVE  i = j
    <3>1. \A k, l \in 1..Len(list) : list[k].name = list[l].name => k = l
      BY <2>3, NamesOfElements, UniqueMeansInjective
    <3>2. Len(list) \in Nat
      OBVIOUS
    <3> QED
      BY <2>1, <2>2, <2>3, <3>1, <3>2
  <2>4. Unique(list) => Unique(new)
    BY <2>2, <2>3, NamesOfElements, UniqueMeansInjective
  <2> QED
    BY <2>2, <2>4 DEF new
<1>2. CASE Named(list, p.name) # {}
  <2>1. new = [i \in 1..Len(list) |-> IF list[i].name = p.name THEN p ELSE list[i]]
    BY <1>2 DEF TransducerPropertyMerge
  <2>2. /\ new \in Seq(Property) /\ Len(new) = Len(list)
        /\ \A i \in 1..Len(list) : new[i].name = list[i].name
    BY <2>1
  <2> HIDE DEF new
  <2>3. ASSUME Unique(list), NEW i \in 1..Len(new), NEW j \in 1..Len(new),
               new[i].name = new[j].name
        PROVE  i = j
    <3>1. \A k, l \in 1..Len(list) : list[k].name = list[l].name => k = l
      BY <2>3, NamesOfElements, UniqueMeansInjective
    <3> QED
      BY <2>2, <2>3, <3>1
  <2>4. Unique(list) => Unique(new)
    BY <2>2, <2>3, NamesOfElements, UniqueMeansInjective
  <2> QED
    BY <2>2, <2>4 DEF new
<1> QED
  BY <1>1, <1>2

LEMMA GeolocMergeType ==
    ASSUME NEW was \in Geolocs, NEW new \in Geolocs
    PROVE  GeolocMerge(was, new) \in Geolocs
<1>1. \A x, y \in Texts \cup {Garbage} : Given(x, y) \in Texts \cup {Garbage}
  BY DEF Given
<1>2. \A x, y \in Texts : Given(x, y) \in Texts
  BY DEF Given
<1>3. CASE new = NULL
  BY <1>3 DEF GeolocMerge
<1>4. CASE new # NULL
  <2> DEFINE g == IF was = NULL THEN GeolocNew ELSE was
  <2>1. new \in Geoloc
    BY <1>4 DEF Geolocs
  <2>2. g \in Geoloc
    BY DEF Geolocs, GeolocNew, Geoloc, Texts
  <2>3. GeolocMerge(was, new) =
            [accuracy |-> Given(new.accuracy, g.accuracy), alt |-> Given(new.alt, g.alt),
             region |-> Given(new.region, g.region)]
    BY <1>4 DEF GeolocMerge
  <2> HIDE DEF g
  <2>4. /\ Given(new.accuracy, g.accuracy) \in Texts
        /\ Given(new.alt, g.alt) \in Texts
        /\ Given(new.region, g.region) \in Texts \cup {Garbage}
    BY <1>1, <1>2, <2>1, <2>2 DEF Geoloc
  <2> QED
    BY <2>3, <2>4 DEF Geolocs, Geoloc
<1> QED
  BY <1>3, <1>4

LEMMA TransducerOverwriteType ==
    ASSUME NEW was \in Transducer \cup {TransducerNew}, NEW t \in Transducer
    PROVE  /\ TransducerOverwrite(was, t) \in Transducer
           /\ TransducerOverwrite(was, t).name = t.name
           /\ TransducerOverwrite(was, t).properties = was.properties
<1>1. \A x, y \in Texts : Given(x, y) \in Texts
  BY DEF Given
<1>2. /\ was.geoloc \in Geolocs /\ was.properties \in Seq(Property)
      /\ was.unit \in Texts /\ was.interface \in Texts
      /\ was.manufacturer \in Texts /\ was.info \in Texts
  <2>1. CASE was \in Transducer
    BY <2>1 DEF Transducer
  <2>2. CASE was = TransducerNew
    <3>1. NULL \in Texts /\ NULL \in Geolocs /\ <<>> \in Seq(Property)
      BY DEF Texts, Geolocs
    <3> QED
      BY <2>2, <3>1 DEF TransducerNew
  <2> QED
    BY <2>1, <2>2
<1>3. /\ t.geoloc \in Geolocs /\ t.name \in Names
      /\ t.unit \in Texts /\ t.interface \in Texts
      /\ t.manufacturer \in Texts /\ t.info \in Texts
  BY DEF Transducer
<1>4. GeolocMerge(was.geoloc, t.geoloc) \in Geolocs
  BY <1>2, <1>3, GeolocMergeType
<1>5. /\ Given(t.unit, was.unit) \in Texts
      /\ Given(t.interface, was.interface) \in Texts
      /\ Given(t.manufacturer, was.manufacturer) \in Texts
      /\ Given(t.info, was.info) \in Texts
  BY <1>1, <1>2, <1>3
<1> QED
  BY <1>2, <1>3, <1>4, <1>5 DEF TransducerOverwrite, TransducerMembers, Transducer

\* A merge puts the transducer where its name is, with the properties that are
\* there, and leaves the others where they are.
LEMMA TransducerMergeEffect ==
    ASSUME NEW list \in Seq(Transducer), NEW t \in Transducer
    PROVE  LET new == TransducerMerge(list, t)
               i == Slot(list, t.name)
           IN  /\ new \in Seq(Transducer)
               /\ i \in 1..Len(new)
               /\ new[i].name = t.name
               /\ Len(new) = IF i > Len(list) THEN Len(list) + 1 ELSE Len(list)
               /\ \A j \in 1..Len(list) : j # i => new[j] = list[j]
               /\ Unique(list) => Unique(new)
               /\ i \in 1..Len(list) => /\ new[i].properties = list[i].properties
                                       /\ list[i].name = t.name
               /\ i \notin 1..Len(list) => new[i].properties = <<>>
<1> DEFINE i == Slot(list, t.name)
           was == IF i > Len(list) THEN TransducerNew ELSE list[i]
           e == TransducerOverwrite(was, t)
           new == TransducerMerge(list, t)
<1>0. Len(list) \in Nat
  OBVIOUS
<1>1. \/ i \in 1..Len(list) /\ list[i].name = t.name
      \/ i = Len(list) + 1
  BY SlotFound
<1>2. i \in 1..(Len(list) + 1)
  BY <1>0, <1>1
<1>3. was \in Transducer \cup {TransducerNew}
  <2> HIDE DEF i
  <2> QED
    BY <1>0, <1>1
<1>4. e \in Transducer /\ e.name = t.name /\ e.properties = was.properties
  BY <1>3, TransducerOverwriteType
<1>5. new = Put(list, i, e)
  BY DEF TransducerMerge
<1>6. Unique(list) => Unique(new)
  <2>1. ASSUME Unique(list)
        PROVE  Unique(Put(list, Slot(list, e.name), e))
    <3> HIDE DEF e
    <3> QED
      BY <1>4, <2>1, NamesOfElements, PutUnique
  <2> QED
    BY <1>4, <1>5, <2>1
<1>7. /\ Put(list, i, e) \in Seq(Transducer)
      /\ Len(Put(list, i, e)) = IF i > Len(list) THEN Len(list) + 1 ELSE Len(list)
      /\ Put(list, i, e)[i] = e
      /\ \A j \in 1..Len(list) : j # i => Put(list, i, e)[j] = list[j]
  <2> HIDE DEF i, e
  <2> QED
    BY <1>2, <1>4, PutEffect
<1>8. i > Len(list) => was.properties = <<>>
  BY DEF TransducerNew
<1>9. ~(i > Len(list)) => was.properties = list[i].properties
  OBVIOUS
<1> HIDE DEF i, was, e, new
<1>10. i \in 1..Len(new)
  BY <1>0, <1>2, <1>5, <1>7
<1>11. i \notin 1..Len(list) => i > Len(list)
  BY <1>0, <1>2
<1>12. i \in 1..Len(list) => ~(i > Len(list)) /\ list[i].name = t.name
  BY <1>0, <1>1
<1> QED
  BY <1>4, <1>5, <1>6, <1>7, <1>8, <1>9, <1>10, <1>11, <1>12 DEF i, new

LEMMA MetaFields ==
    ASSUME NEW m \in Meta
    PROVE  /\ m.transducers \in Seq(Transducer) /\ m.properties \in Seq(Property)
           /\ m.geoloc \in Geolocs /\ m.text \in Texts /\ m.type \in MetaTypes
           /\ \A list \in Seq(Transducer) : [m EXCEPT !.transducers = list] \in Meta
           /\ \A list \in Seq(Property) : [m EXCEPT !.properties = list] \in Meta
           /\ [m EXCEPT !.geoloc = NULL] \in Meta
BY DEF Meta, Geolocs

LEMMA NoMetaType == NoMeta \in Meta /\ UniqueNames(NoMeta) /\ Written(NoMeta)
<1>1. NoMeta \in Meta
  BY DEF NoMeta, Meta, MetaTypes, Texts, Geolocs
<1> QED
  BY <1>1 DEF NoMeta, UniqueNames, Unique, Named, Written, WrittenGeoloc

\* mio_meta_merge does not touch the transducers, and the properties only if
\* it is given some.
LEMMA MetaMergeEffect ==
    ASSUME NEW m \in Meta, NEW new \in Meta
    PROVE  /\ MetaMerge(m, new) \in Meta
           /\ MetaMerge(m, new).transducers = m.transducers
           /\ new.properties = <<>> => MetaMerge(m, new).properties = m.properties
<1> DEFINE ps == IF new.properties = <<>> THEN m.properties
                 ELSE IF m.properties = <<>> THEN <<new.properties[1]>>
                 ELSE [m.properties EXCEPT ![1] = new.properties[1]]
           ty == IF new.type # "unknown" THEN new.type ELSE m.type
           tx == Given(new.text, m.text)
           ge == GeolocMerge(m.geoloc, new.geoloc)
<1>1. ps \in Seq(Property)
  <2>1. m.properties \in Seq(Property) /\ new.properties \in Seq(Property)
    BY MetaFields
  <2>2. CASE new.properties = <<>>
    BY <2>1, <2>2
  <2>3. CASE new.properties # <<>>
    <3>1. new.properties[1] \in Property
      BY <2>1, <2>3
    <3>2. <<new.properties[1]>> \in Seq(Property)
      BY <3>1
    <3>3. m.properties # <<>> => [m.properties EXCEPT ![1] = new.properties[1]] \in Seq(Property)
      BY <2>1, <3>1
    <3> QED
      BY <2>3, <3>2, <3>3
  <2> QED
    BY <2>2, <2>3
<1>2. ty \in MetaTypes
  BY MetaFields
<1>3. tx \in Texts
  BY MetaFields DEF Given
<1>4. ge \in Geolocs
  BY MetaFields, GeolocMergeType
<1>5. m.transducers \in Seq(Transducer)
  BY MetaFields
<1>6. MetaMerge(m, new) = [type |-> ty, text |-> tx, geoloc |-> ge,
                           transducers |-> m.transducers, properties |-> ps]
  BY DEF MetaMerge
<1>7. new.properties = <<>> => ps = m.properties
  OBVIOUS
<1> HIDE DEF ps, ty, tx, ge
<1> QED
  BY <1>1, <1>2, <1>3, <1>4, <1>5, <1>6, <1>7 DEF Meta

\* The parser keeps names; a transducer loses its properties or none of them.
LEMMA TransducerReadEffect ==
    ASSUME NEW t \in Transducer
    PROVE  /\ TransducerRead(t) \in Transducer
           /\ TransducerRead(t).name = t.name
           /\ TransducerRead(t).info = t.info
           /\ TransducerRead(t).properties \in {t.properties, <<>>}
           /\ WrittenGeoloc(t.geoloc) => WrittenGeoloc(TransducerRead(t).geoloc)
<1>1. CASE ~Misread(t)
  BY <1>1 DEF TransducerRead
<1>2. CASE Misread(t)
  <2> DEFINE g == [t.geoloc EXCEPT !.region = IF @ = NULL THEN Garbage ELSE @]
  <2>1. t.geoloc \in Geoloc
    BY <1>2 DEF Misread, Transducer, Geolocs
  <2>2. g \in Geoloc /\ g.accuracy = t.geoloc.accuracy /\ g.alt = t.geoloc.alt
    BY <2>1 DEF Geoloc
  <2>3. TransducerRead(t) =
            [name |-> t.name, unit |-> t.unit, interface |-> t.interface,
             manufacturer |-> t.manufacturer, info |-> t.info, geoloc |-> g,
             properties |-> <<>>]
    BY <1>2, <2>1 DEF TransducerRead, Transducer, Geoloc
  <2>4. g # NULL /\ t.geoloc # NULL
    BY <2>1, <2>2, MetaConstants
  <2> HIDE DEF g
  <2>5. /\ TransducerRead(t) \in Transducer
        /\ TransducerRead(t).name = t.name /\ TransducerRead(t).info = t.info
        /\ TransducerRead(t).properties = <<>> /\ TransducerRead(t).geoloc = g
    BY <2>2, <2>3 DEF Transducer, Geolocs
  <2> QED
    BY <2>2, <2>4, <2>5 DEF WrittenGeoloc
<1> QED
  BY <1>1, <1>2

LEMMA MetaReadEffect ==
    ASSUME NEW m \in Meta
    PROVE  /\ MetaRead(m) \in Meta
           /\ MetaRead(m).properties = m.properties
           /\ Len(MetaRead(m).transducers) = Len(m.transducers)
           /\ \A i \in 1..Len(m.transducers) :
                 MetaRead(m).transducers[i] = TransducerRead(m.transducers[i])
           /\ UniqueNames(m) => UniqueNames(MetaRead(m))
<1> DEFINE list == m.transducers
           new == [i \in 1..Len(list) |-> TransducerRead(list[i])]
<1>1. list \in Seq(Transducer)
  BY MetaFields
<1>2. \A i \in 1..Len(list) : /\ TransducerRead(list[i]) \in Transducer
                            /\ TransducerRead(list[i]).name = list[i].name
                            /\ TransducerRead(list[i]).properties \in {list[i].properties, <<>>}
  BY <1>1, TransducerReadEffect
<1>3. /\ new \in Seq(Transducer) /\ Len(new) = Len(list)
      /\ \A i \in 1..Len(list) : new[i] = TransducerRead(list[i])
  BY <1>1, <1>2
<1>4. MetaRead(m) = [m EXCEPT !.transducers = new]
  BY DEF MetaRead
<1>5. MetaRead(m) \in Meta /\ MetaRead(m).transducers = new /\ MetaRead(m).properties = m.properties
  <2> HIDE DEF new
  <2> QED
    BY <1>3, <1>4 DEF Meta
<1> HIDE DEF new
<1>6. ASSUME UniqueNames(m)
      PROVE  UniqueNames(MetaRead(m))
  <2>1. \A i, j \in 1..Len(list) : list[i].name = list[j].name => i = j
    BY <1>1, <1>6, NamesOfElements, UniqueMeansInjective DEF UniqueNames
  <2>2. \A i, j \in 1..Len(new) : new[i].name = new[j].name => i = j
    BY <1>2, <1>3, <2>1
  <2>3. Unique(new)
    BY <1>3, <2>2, NamesOfElements, UniqueMeansInjective
  <2>4. Unique(<<>>)
    BY DEF Unique, Named
  <2>5. \A i \in 1..Len(new) : Unique(new[i].properties)
    BY <1>2, <1>3, <1>6, <2>4 DEF UniqueNames
  <2> QED
    BY <1>5, <2>3, <2>5 DEF UniqueNames
<1> QED
  BY <1>3, <1>5, <1>6

\* What is written is written in the same way again.
LEMMA GeolocToStanzaEffect ==
    ASSUME NEW g \in Geolocs
    PROVE  /\ GeolocToStanza(g) \in Geolocs
           /\ WrittenGeoloc(GeolocToStanza(g))
           /\ WrittenGeoloc(g) => GeolocToStanza(g) = g
<1>1. CASE g = NULL
  BY <1>1 DEF GeolocToStanza, WrittenGeoloc
<1>2. CASE g # NULL
  <2>1. g \in Geoloc
    BY <1>2 DEF Geolocs
  <2>2. GeolocToStanza(g) =
            [accuracy |-> g.accuracy, alt |-> IF g.alt = NULL THEN NULL ELSE g.accuracy,
             region |-> g.region]
    BY <1>2, <2>1 DEF GeolocToStanza, Geoloc
  <2>3. GeolocToStanza(g) \in Geoloc
    BY <2>1, <2>2 DEF Geoloc, Texts
  <2>4. GeolocToStanza(g) # NULL
    BY <2>3, MetaConstants
  <2>5. WrittenGeoloc(GeolocToStanza(g))
    BY <2>2, <2>4 DEF WrittenGeoloc
  <2>6. ASSUME WrittenGeoloc(g)
        PROVE  GeolocToStanza(g) = g
    BY <1>2, <2>1, <2>2, <2>6 DEF WrittenGeoloc, Geoloc
  <2> QED
    BY <2>3, <2>5, <2>6 DEF Geolocs
<1> QED
  BY <1>1, <1>2

LEMMA TransducerToStanzaEffect ==
    ASSUME NEW t \in Transducer
    PROVE  /\ TransducerToStanza(t) \in Transducer
           /\ TransducerToStanza(t).name = t.name
           /\ TransducerToStanza(t).properties = t.properties
           /\ TransducerToStanza(t).info = NULL
           /\ WrittenGeoloc(TransducerToStanza(t).geoloc)
           /\ t.info = NULL /\ WrittenGeoloc(t.geoloc) => TransducerToStanza(t) = t
<1>1. t.geoloc \in Geolocs
  BY DEF Transducer
<1>2. GeolocToStanza(t.geoloc) \in Geolocs /\ WrittenGeoloc(GeolocToStanza(t.geoloc))
  BY <1>1, GeolocToStanzaEffect
<1>3. /\ TransducerToStanza(t).name = t.name
      /\ TransducerToStanza(t).unit = t.unit
      /\ TransducerToStanza(t).interface = t.interface
      /\ TransducerToStanza(t).manufacturer = t.manufacturer
      /\ TransducerToStanza(t).info = NULL
      /\ TransducerToStanza(t).geoloc = GeolocToStanza(t.geoloc)
      /\ TransducerToStanza(t).properties = t.properties
  BY DEF TransducerToStanza, Transducer
<1>4. TransducerToStanza(t) \in Transducer
  BY <1>2 DEF TransducerToStanza, Transducer, Texts
<1>5. ASSUME t.info = NULL, WrittenGeoloc(t.geoloc)
      PROVE  TransducerToStanza(t) = t
  <2>1. GeolocToStanza(t.geoloc) = t.geoloc
    BY <1>1, <1>5, GeolocToStanzaEffect
  <2>2. \A a, b \in Transducer :
            /\ a.name = b.name /\ a.unit = b.unit /\ a.interface = b.interface
            /\ a.manufacturer = b.manufacturer /\ a.info = b.info /\ a.geoloc = b.geoloc
            /\ a.properties = b.properties
            => a = b
    BY DEF Transducer
  <2> QED
    BY <1>3, <1>4, <1>5, <2>1, <2>2
<1> QED
  BY <1>2, <1>3, <1>4, <1>5

LEMMA MetaToItemEffect ==
    ASSUME NEW m \in Meta
    PROVE  /\ MetaToItem(m) \in Meta
           /\ MetaToItem(m).properties = m.properties
           /\ Len(MetaToItem(m).transducers) = Len(m.transducers)
           /\ \A i \in 1..Len(m.transducers) :
                 MetaToItem(m).transducers[i] = TransducerToStanza(m.transducers[i])
           /\ UniqueNames(m) => UniqueNames(MetaToItem(m))
           /\ Written(MetaToItem(m))
<1> DEFINE list == m.transducers
           new == [i \in 1..Len(list) |-> TransducerToStanza(list[i])]
           g == GeolocToStanza(m.geoloc)
<1>1. list \in Seq(Transducer) /\ m.geoloc \in Geolocs
  BY MetaFields
<1>2. \A i \in 1..Len(list) : /\ TransducerToStanza(list[i]) \in Transducer
                            /\ TransducerToStanza(list[i]).name = list[i].name
                            /\ TransducerToStanza(list[i]).properties = list[i].properties
                            /\ TransducerToStanza(list[i]).info = NULL
                            /\ WrittenGeoloc(TransducerToStanza(list[i]).geoloc)
  BY <1>1, TransducerToStanzaEffect
<1>3. /\ new \in Seq(Transducer) /\ Len(new) = Len(list)
      /\ \A i \in 1..Len(list) : new[i] = TransducerToStanza(list[i])
  BY <1>1, <1>2
<1>4. g \in Geolocs /\ WrittenGeoloc(g)
  BY <1>1, GeolocToStanzaEffect
<1>5. MetaToItem(m) = [m EXCEPT !.geoloc = g, !.transducers = new]
  BY DEF MetaToItem
<1> HIDE DEF new, g
<1>6. /\ MetaToItem(m) \in Meta /\ MetaToItem(m).transducers = new
      /\ MetaToItem(m).properties = m.properties /\ MetaToItem(m).geoloc = g
  BY <1>3, <1>4, <1>5 DEF Meta
<1>7. ASSUME UniqueNames(m)
      PROVE  UniqueNames(MetaToItem(m))
  <2>1. \A i, j \in 1..Len(list) : list[i].name = list[j].name => i = j
    BY <1>1, <1>7, NamesOfElements, UniqueMeansInjective DEF UniqueNames
  <2>2. \A i, j \in 1..Len(new) : new[i].name = new[j].name => i = j
    BY <1>2, <1>3, <2>1
  <2>3. Unique(new)
    BY <1>3, <2>2, NamesOfElements, UniqueMeansInjective
  <2>4. \A i \in 1..Len(new) : Unique(new[i].properties)
    BY <1>2, <1>3, <1>7 DEF UniqueNames
  <2> QED
    BY <1>6, <2>3, <2>4 DEF UniqueNames
<1>8. Written(MetaToItem(m))
  BY <1>2, <1>3, <1>4, <1>6 DEF Written
<1> QED
  BY <1>3, <1>6, <1>7, <1>8

-----------------------------------------------------------------------------
(***************************************************************************)
(* What an edit under way has kept of the item `was' it began with.        *)
(***************************************************************************)

TransducersKept(r, was, list) ==
    \A i \in 1..Len(was) :
        ~Mentions(r.transducers, r.op, was[i].name) =>
            \E j \in 1..Len(list) : /\ r.op = "merge" => j = i
                                  /\ list[j] = TransducerRead(was[i])

TransducersKnown(r, was, list) ==
    \A j \in 1..Len(list) :
        \/ Named(was, list[j].name) # {}
        \/ r.op = "merge" /\ Mentions(r.transducers, r.op, list[j].name)

PropertiesKept(r, was, list) ==
    r.op = "remove" \/ r.meta = NULL \/ r.meta.properties = <<>> =>
        \A i \in 1..Len(was) :
            ~Mentions(r.properties, r.op, was[i].name) =>
                \E j \in 1..Len(list) : list[j] = was[i]

WorkKept(r, was, w) ==
    /\ TransducersKept(r, was.transducers, w.transducers)
    /\ TransducersKnown(r, was.transducers, w.transducers)
    /\ PropertiesKept(r, was.properties, w.properties)

LEMMA CallFields ==
    ASSUME NEW r \in Calls
    PROVE  /\ r.op \in {"merge", "remove", "retract", "geoloc"} /\ r.node \in Nodes
           /\ r.op = "merge" => /\ r.meta \in Meta \cup {NULL}
                                /\ r.transducers \in Seq(Transducer)
                                /\ r.properties \in Seq(Property)
           /\ r.op = "remove" => /\ r.transducers \in Seq(Names)
                                 /\ r.properties \in Seq(Names)
           /\ r.op = "geoloc" => r.transducer \in Names \cup {NULL}
<1>1. r \in Call
  BY MetaConstants
<1>2. CASE r \in [op : {"merge"}, node : Nodes, meta : Meta \cup {NULL},
                 transducers : Seq(Transducer), properties : Seq(Property)]
  BY <1>2
<1>3. CASE r \in [op : {"remove"}, node : Nodes, transducers : Seq(Names), properties : Seq(Names)]
  BY <1>3
<1>4. CASE r \in [op : {"retract"}, node : Nodes]
  BY <1>4
<1>5. CASE r \in [op : {"geoloc"}, node : Nodes, transducer : Names \cup {NULL}]
  BY <1>5
<1> QED
  BY <1>1, <1>2, <1>3, <1>4, <1>5 DEF Call

\* A change of the transducers that a merge mentions.
LEMMA MergeKeeps ==
    ASSUME NEW r \in Calls, r.op = "merge", NEW k \in 1..Len(r.transducers),
           NEW was \in Seq(Transducer), NEW list \in Seq(Transducer), NEW new \in Seq(Transducer),
           NEW i \in 1..Len(new), new[i].name = r.transducers[k].name,
           i \in 1..Len(list) => list[i].name = r.transducers[k].name,
           Len(new) = IF i > Len(list) THEN Len(list) + 1 ELSE Len(list),
           \A j \in 1..Len(list) : j # i => new[j] = list[j],
           TransducersKept(r, was, list), TransducersKnown(r, was, list)
    PROVE  TransducersKept(r, was, new) /\ TransducersKnown(r, was, new)
<1> DEFINE n == r.transducers[k].name
<1>0. Len(list) \in Nat /\ Len(new) \in Nat
  OBVIOUS
<1>1. Mentions(r.transducers, r.op, n)
  BY DEF Mentions
<1> HIDE DEF n
<1>2. ASSUME NEW o \in 1..Len(was), ~Mentions(r.transducers, r.op, was[o].name)
      PROVE  o \in 1..Len(new) /\ new[o] = TransducerRead(was[o])
  <2>1. o \in 1..Len(list) /\ list[o] = TransducerRead(was[o])
    BY <1>2 DEF TransducersKept
  <2>2. list[o].name = was[o].name
    BY <2>1, TransducerReadEffect
  <2>3. o # i
    BY <1>1, <1>2, <2>1, <2>2 DEF n
  <2> QED
    BY <1>0, <2>1, <2>3
<1>3. TransducersKept(r, was, new)
  BY <1>2 DEF TransducersKept
<1>4. ASSUME NEW j \in 1..Len(new)
      PROVE  Named(was, new[j].name) # {} \/ Mentions(r.transducers, r.op, new[j].name)
  <2>1. CASE j = i
    BY <1>1, <2>1 DEF n
  <2>2. CASE j # i
    <3>1. j \in 1..Len(list)
      BY <1>0, <2>2
    <3> QED
      BY <2>2, <3>1 DEF TransducersKnown
  <2> QED
    BY <2>1, <2>2
<1> QED
  BY <1>3, <1>4 DEF TransducersKnown

\* The removal of a transducer that the call mentions.
LEMMA RemoveKeeps ==
    ASSUME NEW r \in Calls, r.op = "remove", NEW k \in 1..Len(r.transducers),
           NEW was \in Seq(Transducer), NEW list \in Seq(Transducer),
           TransducersKept(r, was, list), TransducersKnown(r, was, list)
    PROVE  /\ TransducersKept(r, was, RemoveNamed(list, r.transducers[k]))
           /\ TransducersKnown(r, was, RemoveNamed(list, r.transducers[k]))
<1> DEFINE n == r.transducers[k]
           new == RemoveNamed(list, n)
<1>1. Mentions(r.transducers, r.op, n)
  BY DEF Mentions
<1> HIDE DEF n
<1>2. /\ \A j \in 1..Len(new) : \E i \in 1..Len(list) : new[j] = list[i]
      /\ \A i \in 1..Len(list) : list[i].name # n => \E j \in 1..Len(new) : new[j] = list[i]
  BY RemoveNamedEffect, NamesOfElements
<1> HIDE DEF new
<1>3. ASSUME NEW o \in 1..Len(was), ~Mentions(r.transducers, r.op, was[o].name)
      PROVE  \E j \in 1..Len(new) : new[j] = TransducerRead(was[o])
  <2>1. PICK i \in 1..Len(list) : list[i] = TransducerRead(was[o])
    BY <1>3 DEF TransducersKept
  <2>2. list[i].name = was[o].name
    BY <2>1, TransducerReadEffect
  <2>3. list[i].name # n
    BY <1>1, <1>3, <2>2
  <2> QED
    BY <1>2, <2>1, <2>3
<1>4. TransducersKept(r, was, new)
  BY <1>3 DEF TransducersKept
<1>5. TransducersKnown(r, was, new)
  BY <1>2 DEF TransducersKnown
<1> QED
  BY <1>4, <1>5 DEF new, n

\* One round of the loops over the properties of the device.
LEMMA EditPropertyKeeps ==
    ASSUME NEW r \in Calls, r.op \in {"merge", "remove"}, NEW k \in 1..Len(r.properties),
           NEW was \in Seq(Property), NEW list \in Seq(Property)
    PROVE  LET p == r.properties[k]
               new == IF r.op = "merge" THEN Put(list, Slot(list, p.name), p)
                      ELSE RemoveNamed(list, p)
           IN  /\ new \in Seq(Property)
               /\ PropertiesKept(r, was, list) => PropertiesKept(r, was, new)
<1> DEFINE p == r.properties[k]
           merged == Put(list, Slot(list, p.name), p)
           removed == RemoveNamed(list, p)
<1>1. CASE r.op = "merge"
  <2>1. p \in Property
    BY <1>1, CallFields
  <2>2. Mentions(r.properties, r.op, p.name)
    BY <1>1 DEF Mentions
  <2> DEFINE i == Slot(list, p.name)
  <2> HIDE DEF p
  <2>3. \/ i \in 1..Len(list) /\ list[i].name = p.name
        \/ i = Len(list) + 1
    BY SlotFound
  <2> HIDE DEF i
  <2>4. i \in 1..(Len(list) + 1) /\ Len(list) \in Nat
    BY <2>3
  <2>5. /\ Put(list, i, p) \in Seq(Property)
        /\ Len(Put(list, i, p)) = IF i > Len(list) THEN Len(list) + 1 ELSE Len(list)
        /\ \A j \in 1..Len(list) : j # i => Put(list, i, p)[j] = list[j]
    BY <2>1, <2>4, PutEffect
  <2> DEFINE new == Put(list, i, p)
  <2> HIDE DEF new
  <2>6. ASSUME NEW j \in 1..Len(list), ~Mentions(r.properties, r.op, list[j].name)
        PROVE  j \in 1..Len(new) /\ new[j] = list[j]
    <3>1. j # i
      BY <2>2, <2>3, <2>4, <2>6
    <3> QED
      BY <2>4, <2>5, <2>6, <3>1 DEF new
  <2>7. PropertiesKept(r, was, list) => PropertiesKept(r, was, new)
    <3> SUFFICES ASSUME PropertiesKept(r, was, list),
                        r.op = "remove" \/ r.meta = NULL \/ r.meta.properties = <<>>,
                        NEW o \in 1..Len(was), ~Mentions(r.properties, r.op, was[o].name)
                 PROVE  \E j \in 1..Len(new) : new[j] = was[o]
      BY DEF PropertiesKept
    <3>1. PICK j \in 1..Len(list) : list[j] = was[o]
      BY DEF PropertiesKept
    <3> QED
      BY <2>6, <3>1
  <2> QED
    BY <1>1, <2>5, <2>7 DEF new, i, p
<1>2. CASE r.op = "remove"
  <2>1. Mentions(r.properties, r.op, p)
    BY <1>2 DEF Mentions
  <2>2. /\ removed \in Seq(Property)
        /\ \A i \in 1..Len(list) : list[i].name # p =>
              \E j \in 1..Len(removed) : removed[j] = list[i]
    BY RemoveNamedEffect, NamesOfElements
  <2> HIDE DEF removed, p
  <2>3. PropertiesKept(r, was, list) => PropertiesKept(r, was, removed)
    <3> SUFFICES ASSUME PropertiesKept(r, was, list),
                        NEW o \in 1..Len(was), ~Mentions(r.properties, r.op, was[o].name)
                 PROVE  \E j \in 1..Len(removed) : removed[j] = was[o]
      BY <1>2 DEF PropertiesKept
    <3>1. PICK i \in 1..Len(list) : list[i] = was[o]
      BY <1>2 DEF PropertiesKept
    <3> QED
      BY <2>1, <2>2, <3>1
  <2> QED
    BY <1>2, <2>2, <2>3 DEF removed, p
<1> QED
  BY <1>1, <1>2

\* What a call starts with.
LEMMA QueryKeeps ==
    ASSUME NEW r \in Calls, r.op \in {"merge", "remove"}, NEW was \in Meta, NEW w \in Meta,
           w.transducers = MetaRead(was).transducers,
           \/ w.properties = was.properties
           \/ r.op = "merge" /\ r.meta # NULL /\ r.meta.properties # <<>>
    PROVE  WorkKept(r, was, w)
<1>1. /\ Len(w.transducers) = Len(was.transducers)
      /\ \A i \in 1..Len(was.transducers) :
            w.transducers[i] = TransducerRead(was.transducers[i])
  BY MetaReadEffect
<1>2. TransducersKept(r, was.transducers, w.transducers)
  BY <1>1 DEF TransducersKept
<1>3. TransducersKnown(r, was.transducers, w.transducers)
  <2> SUFFICES ASSUME NEW j \in 1..Len(was.transducers)
               PROVE  Named(was.transducers, w.transducers[j].name) # {}
    BY <1>1 DEF TransducersKnown
  <2>0. was.transducers \in Seq(Transducer)
    BY MetaFields
  <2>1. was.transducers[j] \in Transducer
    BY <2>0
  <2>2. w.transducers[j].name = was.transducers[j].name
    BY <1>1, <2>1, TransducerReadEffect
  <2> QED
    BY <2>2 DEF Named
<1>4. PropertiesKept(r, was.properties, w.properties)
  BY DEF PropertiesKept
<1> QED
  BY <1>2, <1>3, <1>4 DEF WorkKept

\* What a call publishes.
LEMMA PublicationKeeps ==
    ASSUME NEW r \in Calls, NEW was \in Meta, Written(was), NEW w \in Meta, WorkKept(r, was, w)
    PROVE  OthersKept(r, was, MetaToItem(w))
<1> DEFINE is == MetaToItem(w)
<1>1. /\ Len(is.transducers) = Len(w.transducers) /\ is.properties = w.properties
      /\ \A i \in 1..Len(w.transducers) :
            is.transducers[i] = TransducerToStanza(w.transducers[i])
  BY MetaToItemEffect
<1> HIDE DEF is
<1>2. ASSUME NEW t \in Transducer, t.info = NULL, WrittenGeoloc(t.geoloc)
      PROVE  SameTransducer(t, TransducerToStanza(TransducerRead(t)))
  <2>1. TransducerToStanza(TransducerRead(t)) = TransducerRead(t)
    BY <1>2, TransducerReadEffect, TransducerToStanzaEffect
  <2>2. CASE ~Misread(t)
    BY <2>1, <2>2 DEF TransducerRead, SameTransducer
  <2>3. CASE Misread(t)
    <3> DEFINE u == TransducerRead(t)
    <3>1. t.geoloc \in Geoloc
      BY <2>3 DEF Misread, Transducer, Geolocs
    <3>2. u = [t EXCEPT !.properties = <<>>, !.geoloc.region = u.geoloc.region]
      BY <2>3, <3>1 DEF TransducerRead, Transducer, Geoloc
    <3> QED
      BY <2>1, <2>3, <3>2 DEF SameTransducer
  <2> QED
    BY <2>2, <2>3
<1>3. ASSUME NEW i \in 1..Len(was.transducers),
             ~Mentions(r.transducers, r.op, was.transducers[i].name)
      PROVE  \E j \in 1..Len(is.transducers) :
                 /\ r.op = "merge" => j = i
                 /\ SameTransducer(was.transducers[i], is.transducers[j])
  <2>1. PICK j \in 1..Len(w.transducers) :
            (r.op = "merge" => j = i) /\ w.transducers[j] = TransducerRead(was.transducers[i])
    BY <1>3 DEF WorkKept, TransducersKept
  <2>0. was.transducers \in Seq(Transducer)
    BY MetaFields
  <2>2. was.transducers[i] \in Transducer
    BY <2>0
  <2>3. SameTransducer(was.transducers[i], is.transducers[j])
    BY <1>1, <1>2, <2>1, <2>2 DEF Written
  <2> QED
    BY <1>1, <2>1, <2>3
<1>4. ASSUME NEW j \in 1..Len(is.transducers)
      PROVE  \/ Named(was.transducers, is.transducers[j].name) # {}
             \/ r.op = "merge" /\ Mentions(r.transducers, r.op, is.transducers[j].name)
  <2>0. w.transducers \in Seq(Transducer)
    BY MetaFields
  <2>1. w.transducers[j] \in Transducer
    BY <1>1, <2>0
  <2>2. is.transducers[j].name = w.transducers[j].name
    BY <1>1, <2>1, TransducerToStanzaEffect
  <2> QED
    BY <1>1, <2>2 DEF WorkKept, TransducersKnown
<1>5. PropertiesKept(r, was.properties, is.properties)
  BY <1>1 DEF WorkKept
<1>6. OthersKept(r, was, is)
  BY <1>3, <1>4, <1>5 DEF OthersKept, PropertiesKept
<1> QED
  BY <1>6 DEF is

-----------------------------------------------------------------------------
(***************************************************************************)
(* The inductive invariant.                                                *)
(***************************************************************************)

\* What is known of a client at a step of its call.  While it edits, its copy
\* is the item it has queried, read, with what the call mentions changed; the
\* position it works at holds the transducer it was found for.
ClientOK(step, r, was, w, n, a) ==
    /\ step # "idle" => r \in Calls
    /\ UniqueNames(w)
    /\ Written(was)
    /\ step \in {"transducers", "t_properties", "properties"} => r.op \in {"merge", "remove"}
    /\ /\ step \in {"transducers", "t_properties", "properties", "publish"}
       /\ r.op \in {"merge", "remove"}
       => WorkKept(r, was, w)
    /\ step = "t_properties" => /\ r.op = "merge"
                                /\ n \in 1..Len(r.transducers)
                                /\ a \in 1..Len(w.transducers)
                                /\ w.transducers[a].name = r.transducers[n].name

ClientInv(c) == ClientOK(pc[c], call[c], old[c], work[c], next[c], at[c])

\* What is known of a publication under way.
PublicationOK(p) ==
    /\ UniqueNames(p.value)
    /\ Written(p.value)
    /\ p.by.call.op \in {"merge", "remove"} => OthersKept(p.by.call, p.by.old, p.value)

ItemsOK == \A n \in Nodes : UniqueNames(item[n]) /\ Written(item[n])

SentOK == \A c \in Clients : \A i \in 1..Len(sent[c]) : PublicationOK(sent[c][i])

MetaInv ==
    /\ MetaTypeOK
    /\ ItemsOK
    /\ SentOK
    /\ \A c \in Clients : ClientInv(c)

Returns == {"none", "ok", "error", "timeout", "disconnected", "unexpected_response"}

LEMMA MetaInvInitially == MetaInit => MetaInv
<1> SUFFICES ASSUME MetaInit PROVE MetaInv
  OBVIOUS
<1>1. item \in [Nodes -> Meta] /\ ItemsOK
  BY MetaConstants DEF MetaInit, ItemsOK
<1>2. MetaTypeOK
  BY <1>1, NoMetaType, MetaConstants DEF MetaInit, MetaTypeOK, Answers, Steps
<1>3. SentOK
  BY DEF MetaInit, SentOK
<1>4. ASSUME NEW c \in Clients PROVE ClientInv(c)
  BY NoMetaType DEF MetaInit, ClientInv, ClientOK
<1> QED
  BY <1>1, <1>2, <1>3, <1>4 DEF MetaInv

\* The variables of the clients have values of their types, and a step changes
\* those of client c only.
ClientsTypeOK ==
    /\ pc \in [Clients -> Steps]
    /\ call \in [Clients -> Calls \cup {NULL}]
    /\ old \in [Clients -> Meta]
    /\ work \in [Clients -> Meta]
    /\ next \in [Clients -> Nat \ {0}]
    /\ at \in [Clients -> Nat \ {0}]
    /\ prop \in [Clients -> Nat \ {0}]
    /\ ret \in [Clients -> Returns]
    /\ calls \in [Clients -> 0..MaxCalls]

OnlyClient(c) ==
    \A d \in Clients \ {c} :
        /\ pc'[d] = pc[d] /\ call'[d] = call[d] /\ old'[d] = old[d]
        /\ work'[d] = work[d] /\ next'[d] = next[d] /\ at'[d] = at[d]

LEMMA ClientTypes ==
    ASSUME MetaInv, NEW c \in Clients
    PROVE  /\ ClientsTypeOK
           /\ ClientOK(pc[c], call[c], old[c], work[c], next[c], at[c])
           /\ old[c] \in Meta /\ work[c] \in Meta
           /\ next[c] \in Nat \ {0} /\ at[c] \in Nat \ {0} /\ prop[c] \in Nat \ {0}
<1>1. ClientsTypeOK
  BY DEF MetaInv, MetaTypeOK, ClientsTypeOK, Returns
<1> QED
  BY <1>1 DEF MetaInv, ClientInv, ClientsTypeOK

\* A step of one client that sends nothing.
LEMMA LocalStep ==
    ASSUME MetaInv, NEW c \in Clients, UNCHANGED <<itemVars, stored>>,
           ClientsTypeOK', OnlyClient(c),
           ClientOK(pc'[c], call'[c], old'[c], work'[c], next'[c], at'[c])
    PROVE  MetaInv'
<1>1. MetaTypeOK'
  BY DEF MetaInv, MetaTypeOK, ClientsTypeOK, itemVars, Returns
<1>2. ItemsOK' /\ SentOK'
  BY DEF MetaInv, ItemsOK, SentOK, itemVars
<1>3. ASSUME NEW d \in Clients PROVE ClientInv(d)'
  <2>1. CASE d = c
    BY <2>1 DEF ClientInv
  <2>2. CASE d # c
    <3>1. ClientInv(d)
      BY DEF MetaInv
    <3> QED
      BY <2>2, <3>1 DEF ClientInv, OnlyClient
  <2> QED
    BY <2>1, <2>2
<1> QED
  BY <1>1, <1>2, <1>3 DEF MetaInv

\* Calls begin and end, and processes die.
LEMMA NewCallStep ==
    ASSUME MetaInv, NEW c \in Clients, NEW r \in Calls, NewCall(c, r)
    PROVE  MetaInv'
<1>1. /\ ClientsTypeOK
      /\ ClientOK(pc[c], call[c], old[c], work[c], next[c], at[c])
  BY ClientTypes
<1>2. ClientsTypeOK' /\ OnlyClient(c)
  BY <1>1, MetaConstants DEF NewCall, Goto, ClientsTypeOK, OnlyClient, Steps, Returns
<1>3. /\ pc'[c] = "query" /\ call'[c] = r /\ old'[c] = old[c] /\ work'[c] = work[c]
  BY <1>1 DEF NewCall, Goto, ClientsTypeOK
<1>4. ClientOK(pc'[c], call'[c], old'[c], work'[c], next'[c], at'[c])
  BY <1>1, <1>3 DEF ClientOK
<1> QED
  BY <1>2, <1>4, LocalStep DEF NewCall

LEMMA ReturnStep ==
    ASSUME MetaInv, NEW c \in Clients, NEW err \in Returns, Return(c, err)
    PROVE  MetaInv'
<1>1. ClientsTypeOK
  BY ClientTypes
<1>2. ClientsTypeOK' /\ OnlyClient(c)
  BY <1>1, NoMetaType DEF Return, Goto, ClientsTypeOK, OnlyClient, Steps
<1>3. pc'[c] = "idle" /\ old'[c] = NoMeta /\ work'[c] = NoMeta
  BY <1>1 DEF Return, Goto, ClientsTypeOK
<1>4. ClientOK(pc'[c], call'[c], old'[c], work'[c], next'[c], at'[c])
  BY <1>3, NoMetaType DEF ClientOK
<1> QED
  BY <1>2, <1>4, LocalStep DEF Return

LEMMA CrashStep ==
    ASSUME MetaInv, NEW c \in Clients, pc[c] # "idle", Crash(c)
    PROVE  MetaInv'
<1>1. /\ ClientsTypeOK
      /\ ClientOK(pc[c], call[c], old[c], work[c], next[c], at[c])
  BY ClientTypes
<1>2. ClientsTypeOK' /\ OnlyClient(c)
  BY <1>1 DEF Crash, Goto, ClientsTypeOK, OnlyClient, Steps
<1>3. pc'[c] = "crashed" /\ UNCHANGED <<call, old, work>>
  BY <1>1 DEF Crash, Goto, ClientsTypeOK
<1>4. ClientOK(pc'[c], call'[c], old'[c], work'[c], next'[c], at'[c])
  BY <1>1, <1>3 DEF ClientOK
<1> QED
  BY <1>2, <1>4, LocalStep DEF Crash

\* A query is answered.
LEMMA QueriedStep ==
    ASSUME MetaInv, NEW c \in Clients, NEW op, NEW w \in Meta, UniqueNames(w),
           NEW there \in {"transducers", "publish"},
           there = "transducers" => op \in {"merge", "remove"},
           op \in {"merge", "remove"} => WorkKept(call[c], item[call[c].node], w),
           Queried(c, op, w, there)
    PROVE  MetaInv'
<1>1. /\ ClientsTypeOK
      /\ ClientOK(pc[c], call[c], old[c], work[c], next[c], at[c])
  BY ClientTypes
<1>2. pc[c] = "query" /\ call[c].op = op
  BY DEF Queried
<1>3. call[c] \in Calls
  BY <1>1, <1>2 DEF ClientOK
<1>4. call[c].node \in Nodes
  BY <1>3, CallFields
<1> DEFINE was == item[call[c].node]
<1>5. was \in Meta /\ Written(was)
  BY <1>4 DEF MetaInv, MetaTypeOK, ItemsOK
<1> HIDE DEF was
<1>6. /\ old' = [old EXCEPT ![c] = was] /\ work' = [work EXCEPT ![c] = w]
      /\ pc' = [pc EXCEPT ![c] = there]
      /\ UNCHANGED <<itemVars, call, next, at, prop, ret, calls, stored>>
  BY DEF Queried, Goto, was
<1>7. ClientsTypeOK' /\ OnlyClient(c)
  BY <1>1, <1>5, <1>6 DEF ClientsTypeOK, OnlyClient, Steps
<1>8. pc'[c] = there /\ call'[c] = call[c] /\ old'[c] = was /\ work'[c] = w
  BY <1>1, <1>6 DEF ClientsTypeOK
<1>9. ClientOK(pc'[c], call'[c], old'[c], work'[c], next'[c], at'[c])
  BY <1>2, <1>3, <1>5, <1>8 DEF ClientOK, was
<1> QED
  BY <1>6, <1>7, <1>9, LocalStep

LEMMA MergeQueriedStep ==
    ASSUME MetaInv, NEW c \in Clients, MergeQueried(c)
    PROVE  MetaInv'
<1> DEFINE r == call[c]
           was == item[r.node]
           m == MetaRead(was)
           w == IF r.meta = NULL THEN m ELSE MetaMerge(m, r.meta)
<1>1. Queried(c, "merge", w, "transducers")
  BY DEF MergeQueried
<1>2. r \in Calls /\ r.op = "merge"
  BY <1>1, ClientTypes DEF Queried, ClientOK
<1>3. r.node \in Nodes /\ r.meta \in Meta \cup {NULL}
  BY <1>2, CallFields
<1>4. was \in Meta /\ UniqueNames(was)
  BY <1>3 DEF MetaInv, MetaTypeOK, ItemsOK
<1> HIDE DEF was, r
<1>5. m \in Meta /\ UniqueNames(m) /\ m.properties = was.properties
  BY <1>4, MetaReadEffect
<1> HIDE DEF m
<1>6. /\ w \in Meta /\ w.transducers = m.transducers
      /\ \/ w.properties = was.properties
         \/ r.meta # NULL /\ r.meta.properties # <<>>
  BY <1>3, <1>5, MetaMergeEffect
<1> HIDE DEF w
<1>7. UniqueNames(w)
  BY <1>5, <1>6 DEF UniqueNames
<1>8. WorkKept(r, was, w)
  BY <1>2, <1>4, <1>6, QueryKeeps DEF m
<1> QED
  BY <1>1, <1>6, <1>7, <1>8, QueriedStep DEF was, r

LEMMA RemoveQueriedStep ==
    ASSUME MetaInv, NEW c \in Clients, RemoveQueried(c)
    PROVE  MetaInv'
<1> DEFINE r == call[c]
           was == item[r.node]
           w == MetaRead(was)
<1>1. Queried(c, "remove", w, "transducers")
  BY DEF RemoveQueried
<1>2. r \in Calls /\ r.op = "remove"
  BY <1>1, ClientTypes DEF Queried, ClientOK
<1>3. r.node \in Nodes
  BY <1>2, CallFields
<1>4. was \in Meta /\ UniqueNames(was)
  BY <1>3 DEF MetaInv, MetaTypeOK, ItemsOK
<1> HIDE DEF was, r
<1>5. w \in Meta /\ UniqueNames(w) /\ w.properties = was.properties
  BY <1>4, MetaReadEffect
<1>6. WorkKept(r, was, w)
  BY <1>2, <1>4, <1>5, QueryKeeps
<1> HIDE DEF w
<1> QED
  BY <1>1, <1>5, <1>6, QueriedStep DEF was, r

LEMMA RetractQueriedStep ==
    ASSUME MetaInv, NEW c \in Clients, RetractQueried(c)
    PROVE  MetaInv'
BY NoMetaType, QueriedStep DEF RetractQueried

\* A transducer loses its location.
LEMMA GeolocRemoved ==
    ASSUME NEW m \in Meta, UniqueNames(m), NEW i \in 1..Len(m.transducers)
    PROVE  LET w == [m EXCEPT !.transducers = [@ EXCEPT ![i].geoloc = NULL]]
           IN  w \in Meta /\ UniqueNames(w)
<1> DEFINE list == m.transducers
           t == [list[i] EXCEPT !.geoloc = NULL]
           new == [list EXCEPT ![i] = t]
           w == [m EXCEPT !.transducers = new]
<1>1. list \in Seq(Transducer)
  BY MetaFields
<1>2. list[i] \in Transducer
  BY <1>1
<1>3. t \in Transducer /\ t.name = list[i].name /\ t.properties = list[i].properties
  BY <1>2 DEF Transducer, Geolocs
<1> HIDE DEF t
<1>4. /\ new \in Seq(Transducer) /\ Len(new) = Len(list)
      /\ \A j \in 1..Len(list) : new[j] = IF j = i THEN t ELSE list[j]
  BY <1>1, <1>3
<1>5. [m EXCEPT !.transducers = [@ EXCEPT ![i].geoloc = NULL]] = w
  BY DEF t, Meta
<1> HIDE DEF new
<1>6. w \in Meta /\ w.transducers = new
  BY <1>4, MetaFields DEF Meta
<1>7. \A j \in 1..Len(list) : new[j].name = list[j].name /\ new[j].properties = list[j].properties
  BY <1>3, <1>4
<1>8. Unique(new)
  <2>1. \A n \in Names : Named(new, n) = Named(list, n)
    BY <1>4, <1>7 DEF Named
  <2> QED
    BY <2>1 DEF Unique, UniqueNames
<1>9. \A j \in 1..Len(new) : Unique(new[j].properties)
  BY <1>4, <1>7 DEF UniqueNames
<1> HIDE DEF w
<1> QED
  BY <1>5, <1>6, <1>8, <1>9 DEF UniqueNames

LEMMA GeolocQueriedStep ==
    ASSUME MetaInv, NEW c \in Clients, GeolocQueried(c)
    PROVE  MetaInv'
<1> DEFINE r == call[c]
           m == MetaRead(item[r.node])
           where == Named(m.transducers, r.transducer)
<1>1. pc[c] = "query" /\ r.op = "geoloc"
  BY DEF GeolocQueried
<1>2. r \in Calls
  BY <1>1, ClientTypes DEF ClientOK
<1>3. item[r.node] \in Meta /\ UniqueNames(item[r.node])
  BY <1>2, CallFields DEF MetaInv, MetaTypeOK, ItemsOK
<1>4. m \in Meta /\ UniqueNames(m)
  BY <1>3, MetaReadEffect
<1>5. \/ Queried(c, "geoloc", [m EXCEPT !.geoloc = NULL], "publish")
      \/ Queried(c, "geoloc", m, "publish")
      \/ /\ where # {}
         /\ Queried(c, "geoloc",
                    [m EXCEPT !.transducers = [@ EXCEPT ![First(where)].geoloc = NULL]], "publish")
      \/ Crash(c)
  BY DEF GeolocQueried
<1> HIDE DEF m
<1>6. CASE Queried(c, "geoloc", [m EXCEPT !.geoloc = NULL], "publish")
  <2> DEFINE w == [m EXCEPT !.geoloc = NULL]
  <2>1. w \in Meta
    BY <1>4, MetaFields
  <2>2. w.transducers = m.transducers
    BY <1>4 DEF Meta
  <2>3. UniqueNames(w)
    BY <1>4, <2>2 DEF UniqueNames
  <2>4. Queried(c, "geoloc", w, "publish")
    BY <1>6
  <2> HIDE DEF w
  <2> QED
    BY <2>1, <2>3, <2>4, QueriedStep
<1>7. CASE Queried(c, "geoloc", m, "publish")
  BY <1>4, <1>7, QueriedStep
<1>8. CASE where # {} /\ Queried(c, "geoloc",
               [m EXCEPT !.transducers = [@ EXCEPT ![First(where)].geoloc = NULL]], "publish")
  <2>1. First(where) \in 1..Len(m.transducers)
    <3>1. where \in SUBSET Nat /\ where \subseteq 1..Len(m.transducers)
      BY DEF Named
    <3> HIDE DEF where
    <3> QED
      BY <1>8, <3>1, FirstFound
  <2> DEFINE i == First(where)
             w == [m EXCEPT !.transducers = [@ EXCEPT ![i].geoloc = NULL]]
  <2>2. Queried(c, "geoloc", w, "publish")
    BY <1>8
  <2> HIDE DEF i, where
  <2>3. w \in Meta /\ UniqueNames(w)
    BY <1>4, <2>1, GeolocRemoved DEF i
  <2> HIDE DEF w
  <2> QED
    BY <2>2, <2>3, QueriedStep
<1>9. CASE Crash(c)
  BY <1>1, <1>9, CrashStep
<1> QED
  BY <1>5, <1>6, <1>7, <1>8, <1>9

\* A client that edits: the facts every such step starts from.
LEMMA Editing ==
    ASSUME MetaInv, NEW c \in Clients, pc[c] \in {"transducers", "t_properties", "properties"}
    PROVE  /\ call[c] \in Calls /\ call[c].op \in {"merge", "remove"}
           /\ UniqueNames(work[c]) /\ Written(old[c]) /\ WorkKept(call[c], old[c], work[c])
           /\ old[c] \in Meta /\ work[c] \in Meta /\ next[c] \in Nat \ {0}
           /\ work[c].transducers \in Seq(Transducer) /\ work[c].properties \in Seq(Property)
           /\ old[c].transducers \in Seq(Transducer) /\ old[c].properties \in Seq(Property)
<1>1. /\ ClientOK(pc[c], call[c], old[c], work[c], next[c], at[c])
      /\ old[c] \in Meta /\ work[c] \in Meta /\ next[c] \in Nat \ {0}
  BY ClientTypes
<1>2. /\ work[c].transducers \in Seq(Transducer) /\ work[c].properties \in Seq(Property)
      /\ old[c].transducers \in Seq(Transducer) /\ old[c].properties \in Seq(Property)
  BY <1>1, MetaFields
<1> QED
  BY <1>1, <1>2 DEF ClientOK

\* The rounds and the ends of the loops change the copy, the position and the
\* step of one client.
LEMMA EditStep ==
    ASSUME MetaInv, NEW c \in Clients, pc[c] \in {"transducers", "t_properties", "properties"},
           UNCHANGED <<itemVars, call, old, ret, calls, stored>>,
           ClientsTypeOK', OnlyClient(c),
           pc'[c] \in {"transducers", "t_properties", "properties", "publish"},
           UniqueNames(work'[c]), WorkKept(call[c], old[c], work'[c]),
           pc'[c] = "t_properties" =>
               /\ call[c].op = "merge"
               /\ next'[c] \in 1..Len(call[c].transducers)
               /\ at'[c] \in 1..Len(work'[c].transducers)
               /\ work'[c].transducers[at'[c]].name = call[c].transducers[next'[c]].name
    PROVE  MetaInv'
<1>1. call[c] \in Calls /\ call[c].op \in {"merge", "remove"} /\ Written(old[c])
  BY Editing
<1>2. call'[c] = call[c] /\ old'[c] = old[c]
  OBVIOUS
<1>3. ClientOK(pc'[c], call'[c], old'[c], work'[c], next'[c], at'[c])
  BY <1>1, <1>2 DEF ClientOK
<1> QED
  BY <1>3, LocalStep

\* Replacing the transducers of a copy.
LEMMA TransducersReplaced ==
    ASSUME NEW r, NEW was, NEW w \in Meta, WorkKept(r, was, w), NEW list \in Seq(Transducer),
           TransducersKept(r, was.transducers, list), TransducersKnown(r, was.transducers, list),
           Unique(list), \A i \in 1..Len(list) : Unique(list[i].properties)
    PROVE  LET new == [w EXCEPT !.transducers = list]
           IN  new \in Meta /\ new.transducers = list /\ UniqueNames(new) /\ WorkKept(r, was, new)
<1> DEFINE new == [w EXCEPT !.transducers = list]
<1>1. new \in Meta /\ new.transducers = list /\ new.properties = w.properties
  BY DEF Meta
<1> HIDE DEF new
<1>2. UniqueNames(new) /\ WorkKept(r, was, new)
  BY <1>1 DEF UniqueNames, WorkKept
<1> QED
  BY <1>1, <1>2 DEF new

LEMMA MergeTransducerStep ==
    ASSUME MetaInv, NEW c \in Clients, MergeTransducer(c)
    PROVE  MetaInv'
<1> DEFINE r == call[c]
           k == next[c]
           t == r.transducers[k]
           list == work[c].transducers
           new == TransducerMerge(list, t)
           i == Slot(list, t.name)
           w == [work[c] EXCEPT !.transducers = new]
<1>1. /\ pc[c] = "transducers" /\ r.op = "merge" /\ k <= Len(r.transducers)
      /\ work' = [work EXCEPT ![c].transducers = new]
      /\ at' = [at EXCEPT ![c] = i]
      /\ prop' = [prop EXCEPT ![c] = 1]
      /\ pc' = [pc EXCEPT ![c] = "t_properties"]
      /\ UNCHANGED <<itemVars, call, old, next, ret, calls, stored>>
  BY DEF MergeTransducer, Goto
<1>2. /\ r \in Calls /\ UniqueNames(work[c]) /\ WorkKept(r, old[c], work[c])
      /\ work[c] \in Meta /\ k \in Nat \ {0} /\ list \in Seq(Transducer)
      /\ old[c].transducers \in Seq(Transducer)
  BY <1>1, Editing
<1>3. r.transducers \in Seq(Transducer)
  BY <1>1, <1>2, CallFields
<1>4. k \in 1..Len(r.transducers) /\ t \in Transducer
  BY <1>1, <1>2, <1>3
<1>5. /\ work' = [work EXCEPT ![c] = w]
      /\ at' = [at EXCEPT ![c] = i]
      /\ prop' = [prop EXCEPT ![c] = 1]
      /\ pc' = [pc EXCEPT ![c] = "t_properties"]
      /\ UNCHANGED <<call, old, next, ret, calls>>
  BY <1>1
<1> HIDE DEF r, k
<1>6. /\ new \in Seq(Transducer)
      /\ i \in 1..Len(new)
      /\ new[i].name = t.name
      /\ Len(new) = IF i > Len(list) THEN Len(list) + 1 ELSE Len(list)
      /\ \A j \in 1..Len(list) : j # i => new[j] = list[j]
      /\ Unique(list) => Unique(new)
      /\ i \in 1..Len(list) => /\ new[i].properties = list[i].properties
                               /\ list[i].name = t.name
      /\ i \notin 1..Len(list) => new[i].properties = <<>>
  BY <1>2, <1>4, TransducerMergeEffect
<1>7. Len(list) \in Nat
  BY <1>2
<1> HIDE DEF new, i, list
<1>8. TransducersKept(r, old[c].transducers, list) /\ TransducersKnown(r, old[c].transducers, list)
  BY <1>2 DEF WorkKept, list
<1>9. TransducersKept(r, old[c].transducers, new) /\ TransducersKnown(r, old[c].transducers, new)
  <2>1. /\ r \in Calls /\ r.op = "merge" /\ k \in 1..Len(r.transducers)
        /\ old[c].transducers \in Seq(Transducer)
        /\ list \in Seq(Transducer) /\ new \in Seq(Transducer)
    BY <1>1, <1>2, <1>4, <1>6 DEF list
  <2>2. /\ i \in 1..Len(new) /\ new[i].name = r.transducers[k].name
        /\ Len(new) = IF i > Len(list) THEN Len(list) + 1 ELSE Len(list)
        /\ \A j \in 1..Len(list) : j # i => new[j] = list[j]
        /\ i \in 1..Len(list) => list[i].name = r.transducers[k].name
    BY <1>6
  <2> QED
    BY <1>8, <2>1, <2>2, MergeKeeps
<1>10. Unique(new) /\ \A j \in 1..Len(new) : Unique(new[j].properties)
  <2>1. Unique(list) /\ \A j \in 1..Len(list) : Unique(list[j].properties)
    BY <1>2 DEF UniqueNames, list
  <2>2. ASSUME NEW j \in 1..Len(new) PROVE Unique(new[j].properties)
    <3>1. Unique(<<>>)
      BY DEF Unique, Named
    <3>2. CASE j \in 1..Len(list)
      BY <1>6, <2>1, <3>2
    <3>3. CASE j \notin 1..Len(list)
      <4>1. j = i
        BY <1>6, <1>7, <3>3
      <4> QED
        BY <1>6, <3>1, <3>3, <4>1
    <3> QED
      BY <3>2, <3>3
  <2> QED
    BY <1>6, <2>1, <2>2
<1>11. /\ w \in Meta /\ w.transducers = new /\ UniqueNames(w) /\ WorkKept(r, old[c], w)
  BY <1>2, <1>6, <1>9, <1>10, TransducersReplaced
<1> HIDE DEF w
<1>12. i \in Nat \ {0}
  BY <1>6
<1>13. ClientsTypeOK
  BY ClientTypes
<1>14. /\ ClientsTypeOK' /\ OnlyClient(c)
       /\ pc'[c] = "t_properties" /\ work'[c] = w /\ next'[c] = k /\ at'[c] = i
  BY <1>5, <1>11, <1>12, <1>13 DEF ClientsTypeOK, OnlyClient, Steps, k
<1>15. /\ UniqueNames(work'[c]) /\ WorkKept(r, old[c], work'[c])
       /\ next'[c] \in 1..Len(r.transducers)
       /\ at'[c] \in 1..Len(work'[c].transducers)
       /\ work'[c].transducers[at'[c]].name = r.transducers[next'[c]].name
  BY <1>4, <1>6, <1>11, <1>14
<1> QED
  BY <1>1, <1>14, <1>15, EditStep DEF r

LEMMA MergeTransducerEndStep ==
    ASSUME MetaInv, NEW c \in Clients, MergeTransducerEnd(c)
    PROVE  MetaInv'
<1>1. /\ pc[c] = "t_properties"
      /\ next' = [next EXCEPT ![c] = next[c] + 1]
      /\ pc' = [pc EXCEPT ![c] = "transducers"]
      /\ UNCHANGED <<itemVars, call, old, work, at, prop, ret, calls, stored>>
  BY DEF MergeTransducerEnd, Goto
<1>2. UniqueNames(work[c]) /\ WorkKept(call[c], old[c], work[c])
  BY <1>1, Editing
<1>3. ClientsTypeOK' /\ OnlyClient(c)
  BY <1>1, ClientTypes DEF ClientsTypeOK, OnlyClient, Steps
<1>4. pc'[c] = "transducers" /\ work'[c] = work[c]
  BY <1>1, ClientTypes DEF ClientsTypeOK
<1> QED
  BY <1>1, <1>2, <1>3, <1>4, EditStep

LEMMA TransducersEndStep ==
    ASSUME MetaInv, NEW c \in Clients, TransducersEnd(c)
    PROVE  MetaInv'
<1>1. /\ pc[c] = "transducers"
      /\ next' = [next EXCEPT ![c] = 1]
      /\ pc' = [pc EXCEPT ![c] = "properties"]
      /\ UNCHANGED <<itemVars, call, old, work, at, prop, ret, calls, stored>>
  BY DEF TransducersEnd, Goto
<1>2. UniqueNames(work[c]) /\ WorkKept(call[c], old[c], work[c])
  BY <1>1, Editing
<1>3. ClientsTypeOK' /\ OnlyClient(c)
  BY <1>1, ClientTypes DEF ClientsTypeOK, OnlyClient, Steps
<1>4. pc'[c] = "properties" /\ work'[c] = work[c]
  BY <1>1, ClientTypes DEF ClientsTypeOK
<1> QED
  BY <1>1, <1>2, <1>3, <1>4, EditStep

LEMMA PropertiesEndStep ==
    ASSUME MetaInv, NEW c \in Clients, PropertiesEnd(c)
    PROVE  MetaInv'
<1>1. /\ pc[c] = "properties"
      /\ pc' = [pc EXCEPT ![c] = "publish"]
      /\ UNCHANGED <<itemVars, call, old, work, next, at, prop, ret, calls, stored>>
  BY DEF PropertiesEnd, Goto
<1>2. UniqueNames(work[c]) /\ WorkKept(call[c], old[c], work[c])
  BY <1>1, Editing
<1>3. ClientsTypeOK' /\ OnlyClient(c)
  BY <1>1, ClientTypes DEF ClientsTypeOK, OnlyClient, Steps
<1>4. pc'[c] = "publish" /\ work'[c] = work[c]
  BY <1>1, ClientTypes DEF ClientsTypeOK
<1> QED
  BY <1>1, <1>2, <1>3, <1>4, EditStep

LEMMA RemoveTransducerStep ==
    ASSUME MetaInv, NEW c \in Clients, RemoveTransducer(c)
    PROVE  MetaInv'
<1> DEFINE r == call[c]
           k == next[c]
           list == work[c].transducers
           new == RemoveNamed(list, r.transducers[k])
           w == [work[c] EXCEPT !.transducers = new]
<1>1. /\ pc[c] = "transducers" /\ r.op = "remove" /\ k <= Len(r.transducers)
      /\ UNCHANGED <<itemVars, call, old, ret, calls, stored>>
  BY DEF RemoveTransducer
<1>2. /\ work' = [work EXCEPT ![c] = w]
      /\ next' = [next EXCEPT ![c] = k + 1]
      /\ UNCHANGED <<pc, call, old, at, prop, ret, calls>>
  BY DEF RemoveTransducer
<1>3. /\ r \in Calls /\ UniqueNames(work[c]) /\ WorkKept(r, old[c], work[c])
      /\ work[c] \in Meta /\ k \in Nat \ {0} /\ list \in Seq(Transducer)
      /\ old[c].transducers \in Seq(Transducer)
  BY <1>1, Editing
<1>4. r.transducers \in Seq(Names)
  BY <1>1, <1>3, CallFields
<1>5. k \in 1..Len(r.transducers) /\ k + 1 \in Nat \ {0}
  BY <1>1, <1>3, <1>4
<1>6. /\ Unique(list) /\ \A i \in 1..Len(list) : Unique(list[i].properties)
      /\ TransducersKept(r, old[c].transducers, list)
      /\ TransducersKnown(r, old[c].transducers, list)
  BY <1>3 DEF UniqueNames, WorkKept
<1> HIDE DEF r, k, list
<1>7. /\ new \in Seq(Transducer) /\ Unique(new)
      /\ \A j \in 1..Len(new) : \E i \in 1..Len(list) : new[j] = list[i]
  BY <1>3, <1>6, RemoveNamedEffect, NamesOfElements
<1>8. TransducersKept(r, old[c].transducers, new) /\ TransducersKnown(r, old[c].transducers, new)
  BY <1>1, <1>3, <1>5, <1>6, RemoveKeeps
<1> HIDE DEF new
<1>9. \A j \in 1..Len(new) : Unique(new[j].properties)
  BY <1>6, <1>7
<1>10. w \in Meta /\ UniqueNames(w) /\ WorkKept(r, old[c], w)
  BY <1>3, <1>7, <1>8, <1>9, TransducersReplaced
<1> HIDE DEF w
<1>11. ClientsTypeOK
  BY ClientTypes
<1>12. /\ ClientsTypeOK' /\ OnlyClient(c)
       /\ pc'[c] = "transducers" /\ work'[c] = w
  BY <1>1, <1>2, <1>5, <1>10, <1>11 DEF ClientsTypeOK, OnlyClient, Steps
<1> QED
  BY <1>1, <1>10, <1>12, EditStep DEF r

LEMMA EditPropertyStep ==
    ASSUME MetaInv, NEW c \in Clients, EditProperty(c)
    PROVE  MetaInv'
<1> DEFINE r == call[c]
           k == next[c]
           p == r.properties[k]
           list == work[c].properties
           new == IF r.op = "merge" THEN Put(list, Slot(list, p.name), p)
                  ELSE RemoveNamed(list, p)
           w == [work[c] EXCEPT !.properties = new]
<1>1. /\ pc[c] = "properties" /\ k <= Len(r.properties)
      /\ UNCHANGED <<itemVars, call, old, ret, calls, stored>>
  BY DEF EditProperty
<1>2. /\ work' = [work EXCEPT ![c] = w]
      /\ next' = [next EXCEPT ![c] = k + 1]
      /\ UNCHANGED <<pc, call, old, at, prop, ret, calls>>
  BY DEF EditProperty
<1>3. /\ r \in Calls /\ r.op \in {"merge", "remove"}
      /\ UniqueNames(work[c]) /\ WorkKept(r, old[c], work[c])
      /\ work[c] \in Meta /\ k \in Nat \ {0} /\ list \in Seq(Property)
      /\ old[c].properties \in Seq(Property)
  BY <1>1, Editing
<1>4. Len(r.properties) \in Nat
  BY <1>3, CallFields
<1>5. k \in 1..Len(r.properties) /\ k + 1 \in Nat \ {0}
  BY <1>1, <1>3, <1>4
<1>6. PropertiesKept(r, old[c].properties, list)
  BY <1>3 DEF WorkKept
<1> HIDE DEF r, k, list
<1>7. new \in Seq(Property) /\ PropertiesKept(r, old[c].properties, new)
  BY <1>3, <1>5, <1>6, EditPropertyKeeps
<1> HIDE DEF new
<1>8. w \in Meta /\ w.properties = new /\ w.transducers = work[c].transducers
  BY <1>3, <1>7 DEF Meta
<1> HIDE DEF w
<1>9. UniqueNames(w) /\ WorkKept(r, old[c], w)
  BY <1>3, <1>7, <1>8 DEF UniqueNames, WorkKept
<1>10. ClientsTypeOK
  BY ClientTypes
<1>11. /\ ClientsTypeOK' /\ OnlyClient(c)
       /\ pc'[c] = "properties" /\ work'[c] = w
  BY <1>1, <1>2, <1>5, <1>8, <1>10 DEF ClientsTypeOK, OnlyClient, Steps
<1> QED
  BY <1>1, <1>9, <1>11, EditStep DEF r

LEMMA MergeTransducerPropertyStep ==
    ASSUME MetaInv, NEW c \in Clients, MergeTransducerProperty(c)
    PROVE  MetaInv'
<1> DEFINE r == call[c]
           k == next[c]
           t == r.transducers[k]
           list == work[c].transducers
           i == at[c]
           props == TransducerPropertyMerge(list[i].properties, t.properties[prop[c]])
           u == [list[i] EXCEPT !.properties = props]
           new == [list EXCEPT ![i] = u]
           w == [work[c] EXCEPT !.transducers = new]
<1>1. /\ pc[c] = "t_properties" /\ prop[c] <= Len(t.properties)
      /\ UNCHANGED <<itemVars, call, old, ret, calls, stored>>
  BY DEF MergeTransducerProperty
<1>2. /\ work' = [work EXCEPT ![c] = w]
      /\ prop' = [prop EXCEPT ![c] = prop[c] + 1]
      /\ UNCHANGED <<pc, call, old, next, at, ret, calls>>
  BY DEF MergeTransducerProperty
<1>3. /\ r \in Calls /\ UniqueNames(work[c]) /\ WorkKept(r, old[c], work[c])
      /\ work[c] \in Meta /\ list \in Seq(Transducer)
      /\ old[c].transducers \in Seq(Transducer)
  BY <1>1, Editing
<1>4. /\ ClientsTypeOK /\ prop[c] \in Nat \ {0}
      /\ r.op = "merge" /\ k \in 1..Len(r.transducers) /\ i \in 1..Len(list)
      /\ list[i].name = t.name
  BY <1>1, ClientTypes DEF ClientOK
<1>5. r.transducers \in Seq(Transducer)
  BY <1>3, <1>4, CallFields
<1>6. t.properties \in Seq(Property)
  <2>1. t \in Transducer
    BY <1>4, <1>5
  <2> QED
    BY <2>1 DEF Transducer
<1>7. t.properties[prop[c]] \in Property
  <2>1. \A ps \in Seq(Property) : \A x \in Nat \ {0} : x <= Len(ps) => ps[x] \in Property
    OBVIOUS
  <2>2. prop[c] \in Nat \ {0} /\ prop[c] <= Len(t.properties)
    BY <1>1, <1>4
  <2> HIDE DEF t
  <2> QED
    BY <1>6, <2>1, <2>2
<1>8. /\ Unique(list) /\ \A j \in 1..Len(list) : Unique(list[j].properties)
      /\ TransducersKept(r, old[c].transducers, list)
      /\ TransducersKnown(r, old[c].transducers, list)
  BY <1>3 DEF UniqueNames, WorkKept
<1> HIDE DEF r, k, list, i
<1>9. list[i] \in Transducer
  BY <1>3, <1>4
<1>10. list[i].properties \in Seq(Property)
  BY <1>9 DEF Transducer
<1>11. props \in Seq(Property) /\ Unique(props)
  BY <1>4, <1>7, <1>8, <1>10, TransducerPropertyMergeEffect
<1> HIDE DEF props
<1>12. u \in Transducer /\ u.name = list[i].name /\ u.properties = props
  BY <1>9, <1>11 DEF Transducer
<1> HIDE DEF u
<1>13. /\ new \in Seq(Transducer) /\ Len(new) = Len(list) /\ Len(list) \in Nat
       /\ new[i] = u /\ \A j \in 1..Len(list) : j # i => new[j] = list[j]
  BY <1>3, <1>4, <1>12
<1> HIDE DEF new
<1>14. TransducersKept(r, old[c].transducers, new) /\ TransducersKnown(r, old[c].transducers, new)
  <2>1. new[i].name = r.transducers[k].name /\ i \in 1..Len(new) /\ ~(i > Len(list))
    BY <1>4, <1>12, <1>13
  <2> QED
    BY <1>3, <1>4, <1>8, <1>13, <2>1, MergeKeeps
<1>15. Unique(new)
  <2>1. \A j \in 1..Len(list) : new[j].name = list[j].name
    BY <1>12, <1>13
  <2>2. \A n \in Names : Named(new, n) = Named(list, n)
    BY <1>13, <2>1 DEF Named
  <2> QED
    BY <1>8, <2>2 DEF Unique
<1>16. \A j \in 1..Len(new) : Unique(new[j].properties)
  BY <1>8, <1>11, <1>12, <1>13
<1>17. w \in Meta /\ w.transducers = new /\ UniqueNames(w) /\ WorkKept(r, old[c], w)
  BY <1>3, <1>13, <1>14, <1>15, <1>16, TransducersReplaced
<1> HIDE DEF w
<1>18. /\ ClientsTypeOK' /\ OnlyClient(c)
       /\ pc'[c] = "t_properties" /\ work'[c] = w /\ next'[c] = k /\ at'[c] = i
  <2>1. ClientsTypeOK /\ prop[c] + 1 \in Nat \ {0} /\ w \in Meta
    BY <1>4, <1>17
  <2>2. UNCHANGED <<pc, call, old, next, at, ret, calls>> /\ pc[c] = "t_properties"
    BY <1>1, <1>2
  <2>3. ClientsTypeOK'
    BY <1>2, <2>1, <2>2 DEF ClientsTypeOK
  <2>4. OnlyClient(c) /\ work'[c] = w
    BY <1>2, <2>1, <2>2 DEF ClientsTypeOK, OnlyClient
  <2> QED
    BY <2>2, <2>3, <2>4 DEF k, i
<1>19. /\ UniqueNames(work'[c]) /\ WorkKept(r, old[c], work'[c])
       /\ next'[c] \in 1..Len(r.transducers)
       /\ at'[c] \in 1..Len(work'[c].transducers)
       /\ work'[c].transducers[at'[c]].name = r.transducers[next'[c]].name
  BY <1>4, <1>12, <1>13, <1>17, <1>18
<1> QED
  BY <1>1, <1>4, <1>18, <1>19, EditStep DEF r

\* What a client publishes keeps what its call does not mention.
LEMMA PublishStep ==
    ASSUME MetaInv, NEW c \in Clients, Publish(c)
    PROVE  MetaInv'
<1> DEFINE r == call[c]
           v == MetaToItem(work[c])
           p == [node |-> r.node, value |-> v, by |-> [call |-> r, old |-> old[c]]]
<1>1. /\ pc[c] = "publish"
      /\ sent' = [sent EXCEPT ![c] = Append(sent[c], p)]
      /\ answer' = [answer EXCEPT ![c] = "none"]
      /\ pc' = [pc EXCEPT ![c] = "await"]
      /\ UNCHANGED <<item, call, old, work, next, at, prop, ret, calls, stored>>
  BY DEF Publish, ItemPublish, Goto
<1>2. /\ ClientsTypeOK /\ ClientOK(pc[c], r, old[c], work[c], next[c], at[c])
      /\ old[c] \in Meta /\ work[c] \in Meta
  BY ClientTypes
<1>3. r \in Calls /\ r.node \in Nodes
  BY <1>1, <1>2, CallFields DEF ClientOK
<1>4. v \in Meta /\ UniqueNames(v) /\ Written(v)
  BY <1>2, MetaToItemEffect DEF ClientOK
<1>5. r.op \in {"merge", "remove"} => OthersKept(r, old[c], v)
  BY <1>1, <1>2, <1>3, PublicationKeeps DEF ClientOK
<1> HIDE DEF v, r
<1>6. p \in Publication /\ PublicationOK(p)
  BY <1>2, <1>3, <1>4, <1>5 DEF Publication, Source, PublicationOK
<1> HIDE DEF p
<1>7. sent \in [Clients -> Seq(Publication)]
  BY DEF MetaInv, MetaTypeOK
<1>8. /\ sent' \in [Clients -> Seq(Publication)]
      /\ sent'[c] = Append(sent[c], p) /\ \A d \in Clients \ {c} : sent'[d] = sent[d]
  BY <1>1, <1>6, <1>7
<1>9. ClientsTypeOK' /\ OnlyClient(c) /\ pc'[c] = "await"
  BY <1>1, <1>2 DEF ClientsTypeOK, OnlyClient, Steps
<1>10. MetaTypeOK'
  BY <1>1, <1>8, <1>9 DEF MetaInv, MetaTypeOK, ClientsTypeOK, Returns, Answers
<1>11. ItemsOK'
  BY <1>1 DEF MetaInv, ItemsOK
<1>12. SentOK'
  <2> SUFFICES ASSUME NEW d \in Clients, NEW i \in 1..Len(sent'[d])
               PROVE  PublicationOK(sent'[d][i])
    BY DEF SentOK
  <2>1. CASE d # c
    BY <1>8, <2>1 DEF MetaInv, SentOK
  <2>2. CASE d = c
    <3>1. sent[c] \in Seq(Publication)
      BY <1>7
    <3>2. i \in 1..(Len(sent[c]) + 1)
      BY <1>8, <2>2, <3>1
    <3>3. CASE i = Len(sent[c]) + 1
      BY <1>6, <1>8, <2>2, <3>1, <3>3
    <3>4. CASE i # Len(sent[c]) + 1
      <4>1. i \in 1..Len(sent[c]) /\ sent'[c][i] = sent[c][i]
        BY <1>8, <3>1, <3>2, <3>4
      <4> QED
        BY <2>2, <4>1 DEF MetaInv, SentOK
    <3> QED
      BY <3>3, <3>4
  <2> QED
    BY <2>1, <2>2
<1>13. ASSUME NEW d \in Clients PROVE ClientInv(d)'
  <2>1. CASE d # c
    BY <1>9, <2>1 DEF MetaInv, ClientInv, OnlyClient
  <2>2. CASE d = c
    <3>1. ClientOK("await", call[c], old[c], work[c], next[c], at[c])
      BY <1>1, <1>2 DEF ClientOK, r
    <3> QED
      BY <1>1, <1>9, <2>2, <3>1 DEF ClientInv
  <2> QED
    BY <2>1, <2>2
<1> QED
  BY <1>10, <1>11, <1>12, <1>13 DEF MetaInv

\* The server and the network take the publications as they are.
LEMMA ServerStep ==
    ASSUME MetaInv, NEW c \in Clients, Store(c) \/ NetworkFails(c)
    PROVE  MetaInv'
<1>1. /\ sent[c] # <<>> /\ UNCHANGED clientVars
      /\ \/ sent' = [sent EXCEPT ![c] = Tail(sent[c])]
         \/ sent' = [sent EXCEPT ![c] = <<>>]
  BY DEF Store, NetworkFails, ServerStore, ServerRefuse, LinkLost
<1>2. sent \in [Clients -> Seq(Publication)] /\ answer \in [Clients -> Answers]
  BY DEF MetaInv, MetaTypeOK
<1>3. answer' \in [Clients -> Answers]
  BY <1>2 DEF Store, NetworkFails, ServerStore, ServerRefuse, LinkLost, AnswerLast, Answers
<1> DEFINE p == Head(sent[c])
<1>4. p \in Publication /\ PublicationOK(p)
  <2>1. sent[c] \in Seq(Publication)
    BY <1>2
  <2>2. 1 \in 1..Len(sent[c]) /\ p = sent[c][1]
    BY <1>1, <2>1
  <2> QED
    BY <2>1, <2>2 DEF MetaInv, SentOK
<1>5. \/ /\ item' = [item EXCEPT ![p.node] = p.value]
         /\ stored' = [stored EXCEPT ![p.node] = p.by]
      \/ UNCHANGED <<item, stored>>
  BY DEF Store, NetworkFails, ServerStore, ServerRefuse, LinkLost
<1> HIDE DEF p
<1>6. p.node \in Nodes /\ p.value \in Meta /\ p.by \in Source
  BY <1>4 DEF Publication
<1>7. /\ item' \in [Nodes -> Meta] /\ stored' \in [Nodes -> Source \cup {NULL}]
      /\ \A n \in Nodes : item'[n] \in {item[n], p.value}
  BY <1>5, <1>6 DEF MetaInv, MetaTypeOK
<1>8. ItemsOK'
  BY <1>4, <1>7 DEF MetaInv, ItemsOK, PublicationOK
<1>9. sent' \in [Clients -> Seq(Publication)]
  <2>1. sent[c] \in Seq(Publication)
    BY <1>2
  <2>2. Tail(sent[c]) \in Seq(Publication)
    BY <1>1, <2>1
  <2>3. CASE sent' = [sent EXCEPT ![c] = Tail(sent[c])]
    BY <1>2, <2>2, <2>3
  <2>4. CASE sent' = [sent EXCEPT ![c] = <<>>]
    <3>1. <<>> \in Seq(Publication)
      OBVIOUS
    <3> QED
      BY <1>2, <2>4, <3>1
  <2> QED
    BY <1>1, <2>3, <2>4
<1>10. SentOK'
  <2> SUFFICES ASSUME NEW d \in Clients, NEW i \in 1..Len(sent'[d])
               PROVE  PublicationOK(sent'[d][i])
    BY DEF SentOK
  <2>1. CASE d # c
    <3>1. sent'[d] = sent[d]
      BY <1>1, <1>2, <2>1
    <3> QED
      BY <3>1 DEF MetaInv, SentOK
  <2>2. CASE d = c
    <3>1. sent[c] \in Seq(Publication) /\ sent'[c] \in {Tail(sent[c]), <<>>}
      BY <1>1, <1>2
    <3>2. i + 1 \in 1..Len(sent[c]) /\ sent'[c][i] = sent[c][i + 1]
      BY <1>1, <2>2, <3>1
    <3> QED
      BY <2>2, <3>2 DEF MetaInv, SentOK
  <2> QED
    BY <2>1, <2>2
<1>11. MetaTypeOK'
  BY <1>1, <1>3, <1>7, <1>9 DEF MetaInv, MetaTypeOK, clientVars
<1>12. \A d \in Clients : ClientInv(d)'
  BY <1>1 DEF MetaInv, ClientInv, clientVars
<1> QED
  BY <1>8, <1>10, <1>11, <1>12 DEF MetaInv

LEMMA MetaInvStep ==
    ASSUME MetaInv, [MetaNext]_metaVars
    PROVE  MetaInv'
<1>1. CASE UNCHANGED metaVars
  BY <1>1 DEF MetaInv, MetaTypeOK, ItemsOK, SentOK, ClientInv, metaVars, itemVars, clientVars
<1>2. CASE MetaNext
  <2>1. PICK c \in Clients :
            (\E r \in Calls : NewCall(c, r)) \/ ClientStep(c) \/ Store(c) \/ NetworkFails(c)
    BY <1>2 DEF MetaNext
  <2>2. ASSUME NEW r \in Calls, NewCall(c, r) PROVE MetaInv'
    BY <2>2, NewCallStep
  <2>3. CASE Unanswered(c)
    BY <2>3, ReturnStep DEF Unanswered, Returns
  <2>4. CASE ReadCrash(c) \/ PublishCrash(c)
    <3>1. pc[c] # "idle" /\ Crash(c)
      BY <2>4 DEF ReadCrash, PublishCrash
    <3> QED
      BY <3>1, CrashStep
  <2>5. CASE MergeQueried(c)
    BY <2>5, MergeQueriedStep
  <2>6. CASE RemoveQueried(c)
    BY <2>6, RemoveQueriedStep
  <2>7. CASE RetractQueried(c)
    BY <2>7, RetractQueriedStep
  <2>8. CASE GeolocQueried(c)
    BY <2>8, GeolocQueriedStep
  <2>9. CASE MergeTransducer(c)
    BY <2>9, MergeTransducerStep
  <2>10. CASE MergeTransducerProperty(c)
    BY <2>10, MergeTransducerPropertyStep
  <2>11. CASE MergeTransducerEnd(c)
    BY <2>11, MergeTransducerEndStep
  <2>12. CASE RemoveTransducer(c)
    BY <2>12, RemoveTransducerStep
  <2>13. CASE TransducersEnd(c)
    BY <2>13, TransducersEndStep
  <2>14. CASE EditProperty(c)
    BY <2>14, EditPropertyStep
  <2>15. CASE PropertiesEnd(c)
    BY <2>15, PropertiesEndStep
  <2>16. CASE Publish(c)
    BY <2>16, PublishStep
  <2>17. CASE PublishDisconnected(c) \/ PublishTimeout(c)
    BY <2>17, ReturnStep DEF PublishDisconnected, PublishTimeout, Returns
  <2>18. CASE PublishAnswered(c)
    <3>1. answer[c] \in Returns /\ Return(c, answer[c])
      BY <2>18 DEF PublishAnswered, MetaInv, MetaTypeOK, Answers, Returns
    <3> QED
      BY <3>1, ReturnStep
  <2>19. CASE Store(c) \/ NetworkFails(c)
    BY <2>19, ServerStep
  <2> QED
    BY <2>1, <2>2, <2>3, <2>4, <2>5, <2>6, <2>7, <2>8, <2>9, <2>10, <2>11, <2>12, <2>13,
       <2>14, <2>15, <2>16, <2>17, <2>18, <2>19 DEF ClientStep
<1> QED
  BY <1>1, <1>2

\* MetaInv holds in every reachable state: the argument of the theorems below.
THEOREM MetaInvariant == MetaSpec => []MetaInv
BY MetaInvInitially, MetaInvStep, PTL DEF MetaSpec

\* Items, publications and the clients' copies are always mio_meta_t structures
\* with elements of the right kind in their lists, and positions in lists are
\* positive, whatever mio_meta_merge_publish and mio_meta_remove_publish are
\* called with.
THEOREM MetaTypeCorrect == MetaSpec => []MetaTypeOK
<1>1. MetaInv => MetaTypeOK
  BY DEF MetaInv
<1> QED
  BY <1>1, MetaInvariant, PTL

\* The lists that mio_meta_merge_publish and mio_meta_transducer_merge search by
\* name never get two elements of one name, for any number of clients that
\* overwrite, retry and lose each other's updates.
THEOREM NamesUnique == MetaSpec => []NamesAreUnique
<1>1. MetaInv => NamesAreUnique
  BY DEF MetaInv, ItemsOK, NamesAreUnique
<1> QED
  BY <1>1, MetaInvariant, PTL

\* What mio_meta_merge_publish and mio_meta_remove_publish publish keeps the
\* transducers and properties of the queried item that the call does not mention.
THEOREM OthersKeptCorrect == MetaSpec => OthersAreKept
<1> DEFINE Kept == \A c \in Clients :
                      LET p == Head(sent[c])
                      IN  Store(c) /\ p.by.call.op \in {"merge", "remove"}
                          => OthersKept(p.by.call, p.by.old, p.value)
<1>1. ASSUME MetaInv PROVE Kept
  <2> SUFFICES ASSUME NEW c \in Clients, Store(c),
                      Head(sent[c]).by.call.op \in {"merge", "remove"}
               PROVE  OthersKept(Head(sent[c]).by.call, Head(sent[c]).by.old,
                                 Head(sent[c]).value)
    OBVIOUS
  <2>1. sent[c] \in Seq(Publication) /\ sent[c] # <<>>
    BY <1>1 DEF MetaInv, MetaTypeOK, Store, ServerStore
  <2>2. 1 \in 1..Len(sent[c]) /\ Head(sent[c]) = sent[c][1]
    BY <2>1
  <2> QED
    BY <1>1, <2>2 DEF MetaInv, SentOK, PublicationOK
<1>2. MetaInv => [Kept]_metaVars
  BY <1>1
<1> HIDE DEF Kept
<1>3. [][Kept]_metaVars <=> OthersAreKept
  BY DEF Kept, OthersAreKept
<1> QED
  BY <1>2, <1>3, MetaInvariant, PTL

=============================================================================

------------------------------ MODULE MioMeta ------------------------------
(***************************************************************************)
(* The contents of the "meta" item of an event node: texts of the device,  *)
(* a geographic location, a list of transducers and a list of properties.  *)
(* Clients merge into it and remove from it by name; they query the item,  *)
(* edit what the parser made of it and publish the result whole.           *)
(*                                                                         *)
(* What these operations do to the references of other nodes is the        *)
(* subject of MioReferences and left out here.                             *)
(***************************************************************************)
EXTENDS MioItems

CONSTANTS
    Names,      \* names of transducers and properties
    Values,     \* texts and numbers
    NULL,       \* a pointer that is NULL
    Garbage,    \* a text that is the memory of some other structure
    Calls,      \* calls the clients make
    Starts,     \* items in the beginning
    MaxCalls    \* bound: calls per client

MetaTypes == {"unknown", "device", "location"}
Texts == Values \cup {NULL}

\* mio_geoloc_t; `region' stands for all fields that are treated alike.
Geoloc == [accuracy : Texts, alt : Texts, region : Texts \cup {Garbage}]
Geolocs == Geoloc \cup {NULL}

\* mio_property_meta_t
Property == [name : Names, value : Values]

\* mio_transducer_meta_t; `unit' stands for the attributes that are treated
\* alike and for the enumeration, which is replaced as a whole like them.
Transducer == [name : Names, unit : Texts, interface : Texts, manufacturer : Texts,
               info : Texts, geoloc : Geolocs, properties : Seq(Property)]

\* mio_meta_t; `text' stands for name and info.  The timestamp, which every
\* caller gives and every merge replaces, is left out.
Meta == [type : MetaTypes, text : Texts, geoloc : Geolocs,
         transducers : Seq(Transducer), properties : Seq(Property)]

\* What a query makes of a node without a "meta" item.
NoMeta == [type |-> "unknown", text |-> NULL, geoloc |-> NULL,
           transducers |-> <<>>, properties |-> <<>>]

\* merge    mio_meta_merge_publish; the transducers of `meta' are not read
\* remove   mio_meta_remove_publish of transducers and properties
\* retract  mio_meta_remove_publish of the item
\* geoloc   mio_meta_geoloc_remove_publish, of the device or a transducer
Call ==
    [op : {"merge"}, node : Nodes, meta : Meta \cup {NULL},
     transducers : Seq(Transducer), properties : Seq(Property)]
    \cup [op : {"remove"}, node : Nodes, transducers : Seq(Names), properties : Seq(Names)]
    \cup [op : {"retract"}, node : Nodes]
    \cup [op : {"geoloc"}, node : Nodes, transducer : Names \cup {NULL}]

\* Elements of a list that have a name.
Named(list, n) == {i \in 1..Len(list) : list[i].name = n}
Unique(list) == \A n \in Names : \A i, j \in Named(list, n) : i = j

\* Transducers have different names, and so have the properties of each.
UniqueNames(m) ==
    /\ Unique(m.transducers)
    /\ \A i \in 1..Len(m.transducers) : Unique(m.transducers[i].properties)

\* What the library writes: no info of a transducer, and the accuracy as
\* altitude.
WrittenGeoloc(g) == g = NULL \/ (g # NULL /\ g.alt \in {NULL, g.accuracy})

Written(m) ==
    /\ WrittenGeoloc(m.geoloc)
    /\ \A i \in 1..Len(m.transducers) :
          m.transducers[i].info = NULL /\ WrittenGeoloc(m.transducers[i].geoloc)

ASSUME MetaConstants ==
    /\ NULL \notin Values \cup Names \cup Meta \cup Geoloc
    /\ Garbage \notin Texts
    /\ Calls \subseteq Call
    /\ \A s \in Starts : /\ s \in [Nodes -> Meta]
                         /\ \A n \in Nodes : UniqueNames(s[n]) /\ Written(s[n])
    /\ MaxCalls \in Nat

VARIABLES
    pc,         \* what each client does next
    call,       \* its call
    old,        \* the item it has queried (history)
    work,       \* query_meta
    next,       \* where it is in the list of the call
    at,         \* query_transducer: its position
    prop,       \* where it is in the properties of a transducer of the call
    ret,        \* what its last call returned
    calls,      \* calls made
    stored      \* [Nodes -> where the item's current value comes from] (history)

clientVars == <<pc, call, old, work, next, at, prop, ret, calls>>
metaVars == <<itemVars, clientVars, stored>>

Source == [call : Calls, old : Meta]
Publication == [node : Nodes, value : Meta, by : Source]

-----------------------------------------------------------------------------
(***************************************************************************)
(* The functions on the structures.                                        *)
(***************************************************************************)

\* How a merge treats a member: what is given replaces what is there.
Given(new, was) == IF new # NULL THEN new ELSE was

\* mio_geoloc_new and mio_geoloc_merge
GeolocNew == [accuracy |-> NULL, alt |-> NULL, region |-> NULL]

GeolocMerge(was, new) ==
    IF new = NULL THEN was
    ELSE LET g == IF was = NULL THEN GeolocNew ELSE was
         IN  [accuracy |-> Given(new.accuracy, g.accuracy),
              alt |-> Given(new.alt, g.alt),
              region |-> Given(new.region, g.region)]

\* mio_meta_merge.  Only the first property is merged, and into the first one,
\* whatever their names.
MetaMerge(m, new) ==
    [type |-> IF new.type # "unknown" THEN new.type ELSE m.type,
     text |-> Given(new.text, m.text),
     geoloc |-> GeolocMerge(m.geoloc, new.geoloc),
     transducers |-> m.transducers,
     properties |-> IF new.properties = <<>> THEN m.properties
                    ELSE IF m.properties = <<>> THEN <<new.properties[1]>>
                    ELSE [m.properties EXCEPT ![1] = new.properties[1]]]

\* Mutant: the search runs to the end of the list and finds nothing.
SlotAtEnd(list, n) == Len(list) + 1

\* Where mio_meta_merge_publish finds a transducer or property of a name: its
\* first element with that name, or a new one at the end.
Slot(list, n) == IF Named(list, n) = {} THEN Len(list) + 1 ELSE First(Named(list, n))

Put(list, i, e) == IF i > Len(list) THEN Append(list, e) ELSE [list EXCEPT ![i] = e]

\* mio_transducer_meta_new
TransducerNew ==
    [name |-> NULL, unit |-> NULL, interface |-> NULL, manufacturer |-> NULL,
     info |-> NULL, geoloc |-> NULL, properties |-> <<>>]

\* mio_meta_transducer_merge up to the properties
TransducerMembers(was, t) ==
    [name |-> t.name, unit |-> Given(t.unit, was.unit),
     interface |-> Given(t.interface, was.interface),
     manufacturer |-> Given(t.manufacturer, was.manufacturer),
     info |-> Given(t.info, was.info),
     geoloc |-> GeolocMerge(was.geoloc, t.geoloc), properties |-> was.properties]

\* Mutant: the name is not among the members that are copied.
TransducerOverwriteForgetsName(was, t) ==
    [TransducerMembers(was, t) EXCEPT !.name = was.name]

\* Mutant: members that are not given are cleared.
TransducerOverwriteClears(was, t) ==
    [t EXCEPT !.geoloc = GeolocMerge(was.geoloc, @), !.properties = was.properties]

TransducerOverwrite(was, t) == TransducerMembers(was, t)

TransducerMerge(list, t) ==
    LET i == Slot(list, t.name)
        was == IF i > Len(list) THEN TransducerNew ELSE list[i]
    IN  Put(list, i, TransducerOverwrite(was, t))

\* Mutant: updated_flag is not set.
TransducerPropertyMergeAppends(list, p) == Append(list, p)

\* One round of its loop over the properties, which does not stop at the first
\* of the name.
TransducerPropertyMerge(list, p) ==
    IF Named(list, p.name) = {} THEN Append(list, p)
    ELSE [i \in 1..Len(list) |-> IF list[i].name = p.name THEN p ELSE list[i]]

\* Mutant: the first element is unlinked before its successor is remembered.
RemoveNamedLosesRest(list, n) ==
    IF Named(list, n) = {} THEN list
    ELSE IF First(Named(list, n)) = 1 THEN <<>>
    ELSE Without(list, First(Named(list, n)))

\* mio_meta_transducer_remove and mio_meta_property_remove
RemoveNamed(list, n) ==
    IF Named(list, n) = {} THEN list ELSE Without(list, First(Named(list, n)))

\* mio_meta_to_item: the info of a transducer is not written, and the altitude
\* is written with the number of the accuracy.
GeolocToStanza(g) ==
    IF g = NULL THEN NULL
    ELSE [g EXCEPT !.alt = IF @ = NULL THEN NULL ELSE g.accuracy]

TransducerToStanza(t) ==
    [t EXCEPT !.info = NULL, !.geoloc = GeolocToStanza(t.geoloc)]

MetaToItem(m) ==
    [m EXCEPT !.geoloc = GeolocToStanza(@),
              !.transducers = [i \in 1..Len(m.transducers) |->
                                  TransducerToStanza(m.transducers[i])]]

\* The accuracy is read through NULL, or the attribute "manufacturer" is set,
\* for a moment, to an interface that is NULL.
AltOnly(g) == g # NULL /\ g.alt # NULL /\ g.accuracy = NULL

Unwritable(m) ==
    /\ m.type # "unknown"
    /\ \/ AltOnly(m.geoloc)
       \/ \E i \in 1..Len(m.transducers) :
             LET t == m.transducers[i]
             IN  AltOnly(t.geoloc) \/ (t.manufacturer # NULL /\ t.interface = NULL)

\* mio_XMLstart_pubsub_meta_receive takes the last structure it allocated for
\* the transducer.  If that is the transducer's location, the properties are
\* linked in at its member `region'.
Misread(t) == t.geoloc # NULL /\ t.properties # <<>>

TransducerRead(t) ==
    IF Misread(t)
    THEN [t EXCEPT !.properties = <<>>, !.geoloc.region = IF @ = NULL THEN Garbage ELSE @]
    ELSE t

MetaRead(m) ==
    [m EXCEPT !.transducers = [i \in 1..Len(m.transducers) |->
                                  TransducerRead(m.transducers[i])]]

\* A region that is there is followed as if it were a property.
Unreadable(m) ==
    \E i \in 1..Len(m.transducers) :
        Misread(m.transducers[i]) /\ m.transducers[i].geoloc.region # NULL

-----------------------------------------------------------------------------
MetaInit ==
    /\ item \in Starts
    /\ sent = [c \in Clients |-> <<>>]
    /\ answer = [c \in Clients |-> "none"]
    /\ pc = [c \in Clients |-> "idle"]
    /\ call = [c \in Clients |-> NULL]
    /\ old = [c \in Clients |-> NoMeta]
    /\ work = [c \in Clients |-> NoMeta]
    /\ next = [c \in Clients |-> 1]
    /\ at = [c \in Clients |-> 1]
    /\ prop = [c \in Clients |-> 1]
    /\ ret = [c \in Clients |-> "none"]
    /\ calls = [c \in Clients |-> 0]
    /\ stored = [n \in Nodes |-> NULL]

Goto(c, there) == pc' = [pc EXCEPT ![c] = there]

NewCall(c, r) ==
    /\ pc[c] = "idle"
    /\ calls[c] < MaxCalls
    /\ call' = [call EXCEPT ![c] = r]
    /\ Goto(c, "query")
    /\ calls' = [calls EXCEPT ![c] = @ + 1]
    /\ ret' = [ret EXCEPT ![c] = "none"]
    /\ UNCHANGED <<itemVars, old, work, next, at, prop, stored>>

\* The call returns; its local variables are gone.
Return(c, err) ==
    /\ ret' = [ret EXCEPT ![c] = err]
    /\ Goto(c, "idle")
    /\ call' = [call EXCEPT ![c] = NULL]
    /\ old' = [old EXCEPT ![c] = NoMeta]
    /\ work' = [work EXCEPT ![c] = NoMeta]
    /\ next' = [next EXCEPT ![c] = 1]
    /\ at' = [at EXCEPT ![c] = 1]
    /\ prop' = [prop EXCEPT ![c] = 1]
    /\ UNCHANGED <<itemVars, calls, stored>>

\* The process is gone.
Crash(c) ==
    /\ Goto(c, "crashed")
    /\ UNCHANGED <<itemVars, call, old, work, next, at, prop, ret, calls, stored>>

\* mio_meta_query ends in an error, a timeout or without connection.
Unanswered(c) ==
    /\ pc[c] = "query"
    /\ Return(c, "unexpected_response")

\* It is answered, and the parser stumbles over the answer.
ReadCrash(c) ==
    /\ pc[c] = "query"
    /\ QueryServed(c)
    /\ Unreadable(item[call[c].node])
    /\ Crash(c)

\* It is answered with the item; the call goes on at `there' with w.
Queried(c, op, w, there) ==
    /\ pc[c] = "query"
    /\ QueryServed(c)
    /\ call[c].op = op
    /\ old' = [old EXCEPT ![c] = item[call[c].node]]
    /\ work' = [work EXCEPT ![c] = w]
    /\ Goto(c, there)
    /\ UNCHANGED <<itemVars, call, next, at, prop, ret, calls, stored>>

MergeQueried(c) ==
    LET r == call[c]
        m == MetaRead(item[r.node])
    IN  Queried(c, "merge", IF r.meta = NULL THEN m ELSE MetaMerge(m, r.meta), "transducers")

RemoveQueried(c) ==
    Queried(c, "remove", MetaRead(item[call[c].node]), "transducers")

\* The item is retracted, whatever is in it.
RetractQueried(c) == Queried(c, "retract", NoMeta, "publish")

\* mio_meta_geoloc_remove of the device or of a transducer, if it is there;
\* mio_geoloc_free reads through the pointer to a location that is not there.
GeolocQueried(c) ==
    LET r == call[c]
        m == MetaRead(item[r.node])
        where == Named(m.transducers, r.transducer)
    IN  /\ pc[c] = "query"
        /\ call[c].op = "geoloc"
        /\ \/ /\ r.transducer = NULL
              /\ m.geoloc # NULL
              /\ Queried(c, "geoloc", [m EXCEPT !.geoloc = NULL], "publish")
           \/ /\ r.transducer # NULL
              /\ where = {}
              /\ Queried(c, "geoloc", m, "publish")
           \/ /\ r.transducer # NULL
              /\ where # {}
              /\ m.transducers[First(where)].geoloc # NULL
              /\ Queried(c, "geoloc",
                         [m EXCEPT !.transducers = [@ EXCEPT ![First(where)].geoloc = NULL]],
                         "publish")
           \/ /\ IF r.transducer = NULL THEN m.geoloc = NULL
                 ELSE where # {} /\ m.transducers[First(where)].geoloc = NULL
              /\ QueryServed(c)
              /\ Crash(c)

\* The loop of mio_meta_merge_publish over the transducers of the call ...
MergeTransducer(c) ==
    LET t == call[c].transducers[next[c]]
        list == work[c].transducers
    IN  /\ pc[c] = "transducers"
        /\ call[c].op = "merge"
        /\ next[c] <= Len(call[c].transducers)
        /\ work' = [work EXCEPT ![c].transducers = TransducerMerge(list, t)]
        /\ at' = [at EXCEPT ![c] = Slot(list, t.name)]
        /\ prop' = [prop EXCEPT ![c] = 1]
        /\ Goto(c, "t_properties")
        /\ UNCHANGED <<itemVars, call, old, next, ret, calls, stored>>

\* ... with the loop of mio_meta_transducer_merge over the properties of each ...
MergeTransducerProperty(c) ==
    LET t == call[c].transducers[next[c]]
    IN  /\ pc[c] = "t_properties"
        /\ prop[c] <= Len(t.properties)
        /\ work' = [work EXCEPT ![c].transducers[at[c]].properties =
                        TransducerPropertyMerge(@, t.properties[prop[c]])]
        /\ prop' = [prop EXCEPT ![c] = @ + 1]
        /\ UNCHANGED <<itemVars, pc, call, old, next, at, ret, calls, stored>>

MergeTransducerEnd(c) ==
    /\ pc[c] = "t_properties"
    /\ prop[c] > Len(call[c].transducers[next[c]].properties)
    /\ next' = [next EXCEPT ![c] = @ + 1]
    /\ Goto(c, "transducers")
    /\ UNCHANGED <<itemVars, call, old, work, at, prop, ret, calls, stored>>

\* ... or the loop of mio_meta_remove_publish over the names of transducers, ...
RemoveTransducer(c) ==
    /\ pc[c] = "transducers"
    /\ call[c].op = "remove"
    /\ next[c] <= Len(call[c].transducers)
    /\ work' = [work EXCEPT ![c].transducers = RemoveNamed(@, call[c].transducers[next[c]])]
    /\ next' = [next EXCEPT ![c] = @ + 1]
    /\ UNCHANGED <<itemVars, pc, call, old, at, prop, ret, calls, stored>>

TransducersEnd(c) ==
    /\ pc[c] = "transducers"
    /\ next[c] > Len(call[c].transducers)
    /\ next' = [next EXCEPT ![c] = 1]
    /\ Goto(c, "properties")
    /\ UNCHANGED <<itemVars, call, old, work, at, prop, ret, calls, stored>>

\* ... and the loops over the properties of the call.
EditProperty(c) ==
    LET p == call[c].properties[next[c]]
        list == work[c].properties
    IN  /\ pc[c] = "properties"
        /\ next[c] <= Len(call[c].properties)
        /\ work' = [work EXCEPT ![c].properties =
                        IF call[c].op = "merge" THEN Put(list, Slot(list, p.name), p)
                        ELSE RemoveNamed(list, p)]
        /\ next' = [next EXCEPT ![c] = @ + 1]
        /\ UNCHANGED <<itemVars, pc, call, old, at, prop, ret, calls, stored>>

PropertiesEnd(c) ==
    /\ pc[c] = "properties"
    /\ next[c] > Len(call[c].properties)
    /\ Goto(c, "publish")
    /\ UNCHANGED <<itemVars, call, old, work, next, at, prop, ret, calls, stored>>

\* mio_meta_to_item makes nothing of an unknown type, and mio_item_publish
\* reads through it; a retraction has nothing to convert.
Convertible(c) ==
    call[c].op = "retract" \/ (~Unwritable(work[c]) /\ work[c].type # "unknown")

Publish(c) ==
    /\ pc[c] = "publish"
    /\ Convertible(c)
    /\ ItemPublish(c, call[c].node, MetaToItem(work[c]), [call |-> call[c], old |-> old[c]])
    /\ Goto(c, "await")
    /\ UNCHANGED <<call, old, work, next, at, prop, ret, calls, stored>>

PublishCrash(c) ==
    /\ pc[c] = "publish"
    /\ ~Convertible(c)
    /\ Crash(c)

\* mio_item_publish: not connected, answered, or timed out.
PublishDisconnected(c) ==
    /\ pc[c] = "publish"
    /\ call[c].op = "retract" \/ ~Unwritable(work[c])
    /\ Return(c, "disconnected")

PublishAnswered(c) ==
    /\ pc[c] = "await"
    /\ answer[c] # "none"
    /\ Return(c, answer[c])

PublishTimeout(c) ==
    /\ pc[c] = "await"
    /\ Return(c, "timeout")

\* The server and the network.
Store(c) ==
    /\ ServerStore(c)
    /\ stored' = [stored EXCEPT ![Head(sent[c]).node] = Head(sent[c]).by]
    /\ UNCHANGED clientVars

NetworkFails(c) ==
    /\ ServerRefuse(c) \/ LinkLost(c)
    /\ UNCHANGED <<clientVars, stored>>

ClientStep(c) ==
    \/ Unanswered(c) \/ ReadCrash(c)
    \/ MergeQueried(c) \/ RemoveQueried(c) \/ RetractQueried(c) \/ GeolocQueried(c)
    \/ MergeTransducer(c) \/ MergeTransducerProperty(c) \/ MergeTransducerEnd(c)
    \/ RemoveTransducer(c) \/ TransducersEnd(c) \/ EditProperty(c) \/ PropertiesEnd(c)
    \/ Publish(c) \/ PublishCrash(c)
    \/ PublishDisconnected(c) \/ PublishAnswered(c) \/ PublishTimeout(c)

MetaNext ==
    \E c \in Clients :
        \/ \E r \in Calls : NewCall(c, r)
        \/ ClientStep(c)
        \/ Store(c)
        \/ NetworkFails(c)

MetaSpec == MetaInit /\ [][MetaNext]_metaVars

-----------------------------------------------------------------------------
(***************************************************************************)
(* Properties.                                                             *)
(***************************************************************************)

Steps == {"idle", "query", "transducers", "t_properties", "properties", "publish",
          "await", "crashed"}

\* Types of the items, of the publications on their way to them and of the
\* clients' variables: mio_meta_t structures with their lists, return codes
\* and positions in lists.
MetaTypeOK ==
    /\ item \in [Nodes -> Meta]
    /\ sent \in [Clients -> Seq(Publication)]
    /\ answer \in [Clients -> Answers]
    /\ pc \in [Clients -> Steps]
    /\ call \in [Clients -> Calls \cup {NULL}]
    /\ old \in [Clients -> Meta]
    /\ work \in [Clients -> Meta]
    /\ next \in [Clients -> Nat \ {0}]
    /\ at \in [Clients -> Nat \ {0}]
    /\ prop \in [Clients -> Nat \ {0}]
    /\ ret \in [Clients -> {"none", "ok", "error", "timeout", "disconnected",
                            "unexpected_response"}]
    /\ calls \in [Clients -> 0..MaxCalls]
    /\ stored \in [Nodes -> Source \cup {NULL}]

\* A name means one transducer of a node, and one property of a transducer,
\* whoever has merged what and in which order: removals take away the first
\* element of a name only (mio_meta_transducer_remove).
NamesAreUnique == \A n \in Nodes : UniqueNames(item[n])

\* Whether a call has something to say about a name of a transducer, and about
\* a property of the device.
Mentions(list, op, n) ==
    \E i \in 1..Len(list) : n = IF op = "merge" THEN list[i].name ELSE list[i]

\* A transducer that is published again is as it was, except that the parser
\* may have misread its properties and its region.
SameTransducer(was, is) ==
    \/ is = was
    \/ /\ Misread(was)
       /\ is = [was EXCEPT !.properties = <<>>, !.geoloc.region = is.geoloc.region]

\* An update keeps what it does not mention: the transducers and properties of
\* the item it was computed from are still there, merges keep their places,
\* and nothing comes in that nobody asked for (mio_meta_merge_publish and
\* mio_meta_remove_publish work on the whole item to change a part of it).
OthersKept(r, was, is) ==
    /\ \A i \in 1..Len(was.transducers) :
          ~Mentions(r.transducers, r.op, was.transducers[i].name) =>
              \E j \in 1..Len(is.transducers) :
                  /\ r.op = "merge" => j = i
                  /\ SameTransducer(was.transducers[i], is.transducers[j])
    /\ r.op = "remove" \/ r.meta = NULL \/ r.meta.properties = <<>> =>
          \A i \in 1..Len(was.properties) :
              ~Mentions(r.properties, r.op, was.properties[i].name) =>
                  \E j \in 1..Len(is.properties) : is.properties[j] = was.properties[i]
    /\ \A j \in 1..Len(is.transducers) :
          \/ Named(was.transducers, is.transducers[j].name) # {}
          \/ r.op = "merge" /\ Mentions(r.transducers, r.op, is.transducers[j].name)

OthersAreKept ==
    [][\A c \in Clients :
          LET p == Head(sent[c])
          IN  Store(c) /\ p.by.call.op \in {"merge", "remove"}
              => OthersKept(p.by.call, p.by.old, p.value)
      ]_metaVars

Member(e, f) == IF e = NULL THEN NULL ELSE e[f]

ValuesOf(list, n) == {list[i].value : i \in Named(list, n)}

\* "Any members contained in transducer will be used to overwrite the
\* corresponding members in transducer_to_update" (mio.c 3029, and 2994 for the
\* device).  Four things that are given or were there do not reach the item:
\*   - the info of a transducer: no line of mio_transducer_meta_to_stanza
\*     writes it (mio.c 6783-6858);
\*   - an altitude that differs from the accuracy, whose number is written in
\*     its place (mio.c 6675);
\*   - the properties of a transducer with a location that the call does not
\*     give again, and a region that it does not give: the parser has misread
\*     them (mio_handlers.c 695);
\*   - all properties of the meta structure but the first (mio.c 3017-3021).
InfoLost(t) == t.info # NULL

AltLost(was, new) ==
    LET alt == Given(Member(new, "alt"), Member(was, "alt"))
    IN  alt # NULL /\ alt # Given(Member(new, "accuracy"), Member(was, "accuracy"))

RegionLost(was, t) == Misread(was) /\ Member(t.geoloc, "region") = NULL

PropertyLost(i) == i > 1

\* Location `is' is location `was' with what `new' gives, but for members that
\* are lost.
GeolocUpdated(was, new, is, lost) ==
    \A f \in {"accuracy", "alt", "region"} \ lost :
        Member(is, f) = Given(Member(new, f), Member(was, f))

LostIf(lost, f) == IF lost THEN {f} ELSE {}

\* What a merge makes of a transducer `was' when it is given t with different
\* property names.
TransducerUpdated(was, t, is) ==
    /\ \A f \in {"unit", "interface", "manufacturer", "info"} \ LostIf(InfoLost(t), "info") :
          is[f] = Given(t[f], was[f])
    /\ GeolocUpdated(was.geoloc, t.geoloc, is.geoloc,
                     LostIf(AltLost(was.geoloc, t.geoloc), "alt")
                     \cup LostIf(RegionLost(was, t), "region"))
    /\ \A n \in Names :
          \/ Named(t.properties, n) # {} /\ ValuesOf(is.properties, n) = ValuesOf(t.properties, n)
          \/ Named(t.properties, n) = {} /\ (~Misread(was) => ValuesOf(is.properties, n) =
                                                              ValuesOf(was.properties, n))

\* What it makes of the members of the device.
DeviceUpdated(was, new, is) ==
    /\ is.type = IF new.type = "unknown" THEN was.type ELSE new.type
    /\ is.text = Given(new.text, was.text)
    /\ GeolocUpdated(was.geoloc, new.geoloc, is.geoloc,
                     LostIf(AltLost(was.geoloc, new.geoloc), "alt"))

\* The meta structure of a call; without one nothing is given.
MetaOf(r) == IF r.meta = NULL THEN NoMeta ELSE r.meta

MergeDone(r, was, is) ==
    /\ DeviceUpdated(was, MetaOf(r), is)
    /\ \A i \in 1..Len(MetaOf(r).properties) :
          LET q == MetaOf(r).properties[i]
          IN  \/ q.value \in ValuesOf(is.properties, q.name)
              \/ PropertyLost(i) \/ Mentions(r.properties, "merge", q.name)
    /\ UniqueNames(r) => \A i \in 1..Len(r.transducers) :
          LET t == r.transducers[i]
              o == Named(was.transducers, t.name)
              j == Named(is.transducers, t.name)
          IN  /\ j # {}
              /\ TransducerUpdated(IF o = {} THEN TransducerNew ELSE was.transducers[First(o)],
                                   t, is.transducers[First(j)])
    /\ Unique(r.properties) => \A i \in 1..Len(r.properties) :
          r.properties[i].value \in ValuesOf(is.properties, r.properties[i].name)

RemovalDone(r, was, is) ==
    /\ \A i \in 1..Len(r.transducers) : Named(is.transducers, r.transducers[i]) = {}
    /\ Unique(was.properties) =>
          \A i \in 1..Len(r.properties) : Named(is.properties, r.properties[i]) = {}

\* An update does what it is asked for, relative to the item it was computed
\* from: a merge overwrites the members that are given, of the device, of
\* transducers and of properties of the same name, and leaves the other members
\* alone, but for the four losses named above (InfoLost, AltLost, RegionLost and
\* Misread, PropertyLost); what is to be removed is gone
\* (mio_meta_merge, mio_meta_transducer_merge and the loops around them).
MentionedAreUpdated ==
    [][\A c \in Clients :
          LET p == Head(sent[c])
              r == p.by.call
          IN  Store(c) => /\ r.op = "merge" => MergeDone(r, p.by.old, p.value)
                          /\ r.op = "remove" => RemovalDone(r, p.by.old, p.value)
      ]_metaVars

\* The parser makes of the item what the library has written.
NothingMisread(m) == \A i \in 1..Len(m.transducers) : ~Misread(m.transducers[i])

\* Repeating a merge whose answer was lost is harmless unless the repetition
\* misreads the item (NothingMisread): if the item is what the same merge made
\* of it before, it stays as it is.  Without names in the place of positions
\* this would add what is there already.  It is not harmless for an item with a
\* transducer that has a location and properties (mio_handlers.c 695): these
\* lose the properties that the call does not give again, and their region is
\* garbled, whether the merge is the first or a repeated one.
MergeAgainIsHarmless ==
    [][\A c \in Clients :
          LET p == Head(sent[c])
              n == p.node
          IN  /\ Store(c)
              /\ p.by.call.op = "merge"
              /\ p.by.old = item[n]
              /\ stored[n] # NULL
              /\ stored[n].call = p.by.call
              /\ NothingMisread(item[n])
              => p.value = item[n]
      ]_metaVars

=============================================================================

--------------------------- MODULE MioReferences ---------------------------
(***************************************************************************)
(* References between event nodes and the meta data they repeat.           *)
(*                                                                         *)
(* The item "references" of a node lists its parents and children, each    *)
(* with the meta type of the other node; the item "meta" has the node's    *)
(* own type.  One operation of libMIO reads and writes several of these    *)
(* items, one blocking call after the other, on the node itself and on the *)
(* nodes it refers to.                                                     *)
(***************************************************************************)
EXTENDS MioItems

CONSTANTS
    EventNodes,
    Calls,      \* calls the clients make
    Starts,     \* contents of the items in the beginning
    NULL,       \* no call, nothing to publish
    MaxCalls    \* bound: calls per client

MetaTypes == {"unknown", "device", "location"}

\* mio_reference_t; the name is left out.
Reference == [type : {"child", "parent"}, node : EventNodes, meta : MetaTypes]

Refs(n) == <<n, "references">>
Meta(n) == <<n, "meta">>

\* add      mio_reference_child_add, at_child: with a reference at the child
\* remove   mio_reference_child_remove
\* merge    mio_meta_merge_publish of meta data of a type; type "none" stands
\*          for the updates that leave the type alone
\* retract  mio_meta_remove_publish of the whole item
Call ==
    [op : {"add"}, parent : EventNodes, child : EventNodes, at_child : BOOLEAN]
    \cup [op : {"remove"}, parent : EventNodes, child : EventNodes]
    \cup [op : {"merge"}, node : EventNodes, type : MetaTypes \cup {"none"}]
    \cup [op : {"retract"}, node : EventNodes]

NodeOf(refs, i) == refs[i].node
Distinct(refs) == \A i, j \in 1..Len(refs) : NodeOf(refs, i) = NodeOf(refs, j) => i = j

\* Values of the items of each kind.
ItemOK(n, v) ==
    \/ n[2] = "references" /\ v \in Seq(Reference)
    \/ n[2] = "meta" /\ v \in MetaTypes

ASSUME ReferenceConstants ==
    /\ Nodes = EventNodes \X {"references", "meta"}
    /\ Calls \subseteq Call
    /\ \A s \in Starts : /\ s = [n \in Nodes |-> s[n]]
                         /\ \A n \in Nodes : ItemOK(n, s[n])
                         /\ \A n \in EventNodes : Distinct(s[Refs(n)])
    /\ MaxCalls \in Nat

VARIABLES
    pc,         \* what each client does next
    call,       \* its call
    refs,       \* parent_refs of an addition
    type,       \* meta type it has queried (parent_type, query_meta)
    todo,       \* references whose nodes are still to be updated
    out,        \* the item it publishes next, and what it does then
    err,        \* the variable err; after the call, what it returned
    response,   \* the type of the caller's response
    calls,      \* calls made
    start       \* the items when the call began, NULL if something has failed
                \* or interfered since then (history)

localVars == <<refs, type, todo, out, err, response>>
refVars == <<itemVars, pc, call, localVars, calls, start>>

Codes == {"ok", "timeout", "disconnected", "unexpected_response", "duplicate", "loop",
          "undefined"}

-----------------------------------------------------------------------------
(***************************************************************************)
(* The list functions.                                                     *)
(***************************************************************************)

Opposite(t) == IF t = "child" THEN "parent" ELSE "child"

\* Mutant: the new element of the list keeps the type it is allocated with.
NewReferenceUntyped(t, m, n) == [type |-> "unknown", node |-> n, meta |-> m]

\* The element that mio_reference_add links in.
NewReference(t, m, n) == [type |-> t, node |-> n, meta |-> m]

\* References to node n.
Mentions(list, n) == {i \in 1..Len(list) : list[i].node = n}

Found(list, t, n) == {i \in Mentions(list, n) : list[i].type = t}

\* mio_reference_remove: NULL, the empty list, also if there is nothing to
\* remove.
ReferenceRemove(list, t, n) ==
    IF Found(list, t, n) = {} THEN <<>> ELSE Without(list, First(Found(list, t, n)))

\* The error of mio_reference_child_add when a node is mentioned already.
AlreadyThere(list, n, t) ==
    IF list[First(Mentions(list, n))].type = t THEN "duplicate" ELSE "loop"

-----------------------------------------------------------------------------
RefInit ==
    /\ item \in Starts
    /\ sent = [c \in Clients |-> <<>>]
    /\ answer = [c \in Clients |-> "none"]
    /\ pc = [c \in Clients |-> "idle"]
    /\ call = [c \in Clients |-> NULL]
    /\ refs = [c \in Clients |-> <<>>]
    /\ type = [c \in Clients |-> "unknown"]
    /\ todo = [c \in Clients |-> <<>>]
    /\ out = [c \in Clients |-> NULL]
    /\ err = [c \in Clients |-> "undefined"]
    /\ response = [c \in Clients |-> "unknown"]
    /\ calls = [c \in Clients |-> 0]
    /\ start = [c \in Clients |-> NULL]

FirstStep(r) ==
    CASE r.op = "add" -> "add_parent_refs"
      [] r.op = "remove" -> "remove_child_refs"
      [] r.op \in {"merge", "retract"} -> "meta"

NewCall(c, r) ==
    /\ pc[c] = "idle"
    /\ calls[c] < MaxCalls
    /\ call' = [call EXCEPT ![c] = r]
    /\ pc' = [pc EXCEPT ![c] = FirstStep(r)]
    /\ err' = [err EXCEPT ![c] = "undefined"]
    /\ response' = [response EXCEPT ![c] = "unknown"]
    /\ calls' = [calls EXCEPT ![c] = @ + 1]
    /\ start' = [start EXCEPT ![c] = IF sent[c] = <<>> THEN item ELSE NULL]
    /\ UNCHANGED <<itemVars, refs, type, todo, out>>

-----------------------------------------------------------------------------
(***************************************************************************)
(* Steps that the operations are made of.                                  *)
(***************************************************************************)

\* The query that client c makes at step `here' is answered, or ends in an
\* error, a timeout or without connection.
Answered(c, here) ==
    /\ pc[c] = here
    /\ QueryServed(c)
    /\ UNCHANGED <<itemVars, call, calls, start>>

Unanswered(c, here) ==
    /\ pc[c] = here
    /\ start' = [start EXCEPT ![c] = NULL]
    /\ UNCHANGED <<itemVars, call, calls>>

Goto(c, there) == pc' = [pc EXCEPT ![c] = there]

\* Go on to publish value v at n, and continue at step `then'.
GoPublish(c, n, v, then) ==
    /\ out' = [out EXCEPT ![c] = [node |-> n, value |-> v, then |-> then]]
    /\ Goto(c, "publish")

\* The call returns with an error code; its local variables are gone.
Return(c, code) ==
    /\ Goto(c, "idle")
    /\ err' = [err EXCEPT ![c] = code]
    /\ refs' = [refs EXCEPT ![c] = <<>>]
    /\ type' = [type EXCEPT ![c] = "unknown"]
    /\ todo' = [todo EXCEPT ![c] = <<>>]
    /\ out' = [out EXCEPT ![c] = NULL]

-----------------------------------------------------------------------------
(***************************************************************************)
(* mio_reference_child_add                                                 *)
(***************************************************************************)

AfterParentRefs(r) == IF r.at_child THEN "add_parent_type" ELSE "add_child_type"

AddParentRefs(c) ==
    LET r == call[c]
        list == item[Refs(r.parent)]
    IN  \/ /\ Answered(c, "add_parent_refs")
           /\ Mentions(list, r.child) # {}
           /\ Return(c, AlreadyThere(list, r.child, "child"))
           /\ UNCHANGED response
        \/ /\ Answered(c, "add_parent_refs")
           /\ Mentions(list, r.child) = {}
           /\ refs' = [refs EXCEPT ![c] = list]
           /\ Goto(c, AfterParentRefs(r))
           /\ UNCHANGED <<type, todo, out, err, response>>
        \/ /\ Unanswered(c, "add_parent_refs")
           /\ Goto(c, AfterParentRefs(r))
           /\ UNCHANGED localVars

AddParentType(c) ==
    /\ \/ /\ Answered(c, "add_parent_type")
          /\ type' = [type EXCEPT ![c] = item[Meta(call[c].parent)]]
       \/ /\ Unanswered(c, "add_parent_type")
          /\ UNCHANGED type
    /\ Goto(c, "add_child_refs")
    /\ UNCHANGED <<refs, todo, out, err, response>>

\* Mutant: only a parent that is there already is refused.
AddChildRefsMissesLoop(c) ==
    LET r == call[c]
        list == item[Refs(r.child)]
        new == NewReference("parent", type[c], r.parent)
    IN  \/ /\ Answered(c, "add_child_refs")
           /\ Found(list, "parent", r.parent) # {}
           /\ Return(c, "duplicate")
           /\ UNCHANGED response
        \/ /\ Answered(c, "add_child_refs")
           /\ Found(list, "parent", r.parent) = {}
           /\ GoPublish(c, Refs(r.child), Append(list, new), "add_child_type")
           /\ UNCHANGED <<refs, type, todo, err, response>>

AddChildRefs(c) ==
    LET r == call[c]
        list == item[Refs(r.child)]
        new == NewReference("parent", type[c], r.parent)
    IN  \/ /\ Answered(c, "add_child_refs")
           /\ Mentions(list, r.parent) # {}
           /\ Return(c, AlreadyThere(list, r.parent, "parent"))
           /\ UNCHANGED response
        \/ /\ Answered(c, "add_child_refs")
           /\ Mentions(list, r.parent) = {}
           /\ GoPublish(c, Refs(r.child), Append(list, new), "add_child_type")
           /\ UNCHANGED <<refs, type, todo, err, response>>
        \/ /\ Unanswered(c, "add_child_refs")
           /\ GoPublish(c, Refs(r.child), <<new>>, "add_child_type")
           /\ UNCHANGED <<refs, type, todo, err, response>>

\* Mutant: the child is published with the type of the parent.
AddChildTypeOfParent(c) ==
    /\ Answered(c, "add_child_type")
    /\ GoPublish(c, Refs(call[c].parent),
                 Append(refs[c], NewReference("child", type[c], call[c].child)), "return")
    /\ UNCHANGED <<refs, type, todo, err, response>>

AddChildType(c) ==
    LET r == call[c]
        publish(m) == GoPublish(c, Refs(r.parent),
                                Append(refs[c], NewReference("child", m, r.child)), "return")
    IN  /\ \/ Answered(c, "add_child_type") /\ publish(item[Meta(r.child)])
           \/ Unanswered(c, "add_child_type") /\ publish("unknown")
        /\ UNCHANGED <<refs, type, todo, err, response>>

-----------------------------------------------------------------------------
(***************************************************************************)
(* mio_reference_child_remove                                              *)
(***************************************************************************)

\* The list of one end is read and, unless it is empty, published without the
\* other end.
RemoveAt(c, here, n, t, other, then) ==
    LET list == item[Refs(n)]
    IN  \/ /\ Answered(c, here)
           /\ list # <<>>
           /\ GoPublish(c, Refs(n), ReferenceRemove(list, t, other), then)
           /\ response' = [response EXCEPT ![c] = "ok"]
           /\ UNCHANGED <<refs, type, todo, err>>
        \/ /\ \/ Answered(c, here) /\ list = <<>>
              \/ Unanswered(c, here)
           /\ IF then = "return"
              THEN /\ Return(c, err[c])
                   /\ response' = [response EXCEPT ![c] = IF @ = "ok" THEN "ok" ELSE "error"]
              ELSE /\ Goto(c, then)
                   /\ UNCHANGED localVars

RemoveChildRefs(c) ==
    RemoveAt(c, "remove_child_refs", call[c].child, "parent", call[c].parent,
             "remove_parent_refs")

RemoveParentRefs(c) ==
    RemoveAt(c, "remove_parent_refs", call[c].parent, "child", call[c].child, "return")

-----------------------------------------------------------------------------
(***************************************************************************)
(* mio_meta_merge_publish and mio_meta_remove_publish                      *)
(***************************************************************************)

\* The type that other nodes are told.
NewType(r) == IF r.op = "merge" THEN r.type ELSE "unknown"

MetaQuery(c) ==
    LET r == call[c]
        old == item[Meta(r.node)]
    IN  \/ /\ Answered(c, "meta")
           /\ r.op = "merge"
           /\ type' = [type EXCEPT ![c] = old]
           /\ Goto(c, IF r.type \in {"none", old} THEN "meta_publish" ELSE "meta_refs")
           /\ UNCHANGED <<refs, todo, out, err, response>>
        \/ /\ Answered(c, "meta")
           /\ r.op = "retract"
           /\ GoPublish(c, Meta(r.node), "unknown", "meta_refs")
           /\ UNCHANGED <<refs, type, todo, err, response>>
        \/ /\ Unanswered(c, "meta")
           /\ Return(c, "unexpected_response")
           /\ UNCHANGED response

MetaRefs(c) ==
    /\ \/ /\ Answered(c, "meta_refs")
          /\ todo' = [todo EXCEPT ![c] = item[Refs(call[c].node)]]
       \/ /\ Unanswered(c, "meta_refs")
          /\ UNCHANGED todo
    /\ Goto(c, "overwrite")
    /\ UNCHANGED <<refs, type, out, err, response>>

\* Mutant: a node whose references cannot be read is tried again.
OverwriteRetries(c) ==
    /\ todo[c] # <<>>
    /\ Unanswered(c, "overwrite")
    /\ UNCHANGED <<pc, localVars>>

\* _mio_reference_meta_type_overwrite_publish for the next reference.  When
\* the removal leaves nothing, nothing is published.
Overwrite(c) ==
    LET r == call[c]
        ref == Head(todo[c])
        t == Opposite(ref.type)
        rest == ReferenceRemove(item[Refs(ref.node)], t, r.node)
    IN  /\ todo[c] # <<>>
        /\ todo' = [todo EXCEPT ![c] = Tail(@)]
        /\ \/ /\ Answered(c, "overwrite")
              /\ rest # <<>>
              /\ GoPublish(c, Refs(ref.node), Append(rest, NewReference(t, NewType(r), r.node)),
                           "overwrite")
              /\ err' = [err EXCEPT ![c] = "ok"]
           \/ /\ Answered(c, "overwrite")
              /\ rest = <<>>
              /\ err' = [err EXCEPT ![c] = "ok"]
              /\ UNCHANGED <<pc, out>>
           \/ /\ Unanswered(c, "overwrite")
              /\ err' = [err EXCEPT ![c] = "unexpected_response"]
              /\ UNCHANGED <<pc, out>>
        /\ UNCHANGED <<refs, type, response>>

\* The loop is done.
OverwriteEnd(c) ==
    /\ pc[c] = "overwrite"
    /\ todo[c] = <<>>
    /\ \/ /\ call[c].op = "merge"
          /\ Goto(c, "meta_publish")
          /\ UNCHANGED localVars
       \/ /\ call[c].op = "retract"
          /\ Return(c, err[c])
          /\ UNCHANGED response
    /\ UNCHANGED <<itemVars, call, calls, start>>

\* mio_meta_merge keeps the old type if there is no new one, and
\* mio_meta_to_item makes nothing of an unknown type: mio_item_publish, if it
\* is connected, then reads through NULL.
MetaPublish(c) ==
    LET r == call[c]
        new == IF r.type \in {"none", "unknown"} THEN type[c] ELSE r.type
    IN  /\ pc[c] = "meta_publish"
        /\ \/ /\ new # "unknown"
              /\ GoPublish(c, Meta(r.node), new, "return")
              /\ UNCHANGED <<refs, type, todo, err, response, start>>
           \/ /\ new = "unknown"
              /\ Goto(c, "crashed")
              /\ UNCHANGED <<localVars, start>>
           \/ /\ new = "unknown"
              /\ Return(c, "disconnected")
              /\ start' = [start EXCEPT ![c] = NULL]
              /\ UNCHANGED response
        /\ UNCHANGED <<itemVars, call, calls>>

-----------------------------------------------------------------------------
(***************************************************************************)
(* mio_item_publish as part of these operations.                           *)
(***************************************************************************)

Publish(c) ==
    /\ pc[c] = "publish"
    /\ ItemPublish(c, out[c].node, out[c].value, call[c])
    /\ Goto(c, "await")
    /\ UNCHANGED <<call, localVars, calls, start>>

\* What the caller's response becomes: an error of the first publication of
\* an addition stays there; the responses of the first publication of a
\* removal and of the loop are not the caller's.
Heard(r, then, old, result) ==
    CASE r.op = "add" /\ then # "return" -> IF result = "error" THEN "error" ELSE old
      [] r.op = "remove" \/ then = "overwrite" -> old
      [] OTHER -> IF old = "error" \/ result \notin {"ok", "error"} THEN old ELSE result

\* The error code that mio_item_publish returns; mio_reference_child_remove
\* ignores that of its first publication, and the loop all of them.
ErrAfter(r, then, old, result) ==
    IF (r.op = "remove" /\ then # "return") \/ then = "overwrite" THEN old
    ELSE IF result = "error" THEN "ok" ELSE result

\* The publication ended with `result'.
Published(c, result) ==
    /\ response' = [response EXCEPT ![c] = Heard(call[c], out[c].then, @, result)]
    /\ start' = [start EXCEPT ![c] = IF result = "ok" THEN @ ELSE NULL]
    /\ IF out[c].then = "return"
       THEN Return(c, ErrAfter(call[c], "return", err[c], result))
       ELSE /\ Goto(c, out[c].then)
            /\ out' = [out EXCEPT ![c] = NULL]
            /\ err' = [err EXCEPT ![c] = ErrAfter(call[c], out[c].then, @, result)]
            /\ UNCHANGED <<refs, type, todo>>
    /\ UNCHANGED <<itemVars, call, calls>>

PublishDisconnected(c) ==
    /\ pc[c] = "publish"
    /\ Published(c, "disconnected")

PublishAnswered(c) ==
    /\ pc[c] = "await"
    /\ answer[c] # "none"
    /\ Published(c, answer[c])

PublishTimeout(c) ==
    /\ pc[c] = "await"
    /\ Published(c, "timeout")

\* The server and the network.
Store(c) ==
    /\ ServerStore(c)
    /\ start' = [d \in Clients |-> IF d = c THEN start[d] ELSE NULL]
    /\ UNCHANGED <<pc, call, localVars, calls>>

NetworkFails(c) ==
    /\ ServerRefuse(c) \/ LinkLost(c)
    /\ UNCHANGED <<pc, call, localVars, calls, start>>

ClientStep(c) ==
    \/ AddParentRefs(c) \/ AddParentType(c) \/ AddChildRefs(c) \/ AddChildType(c)
    \/ RemoveChildRefs(c) \/ RemoveParentRefs(c)
    \/ MetaQuery(c) \/ MetaRefs(c) \/ Overwrite(c) \/ OverwriteEnd(c) \/ MetaPublish(c)
    \/ Publish(c) \/ PublishDisconnected(c) \/ PublishAnswered(c) \/ PublishTimeout(c)

RefNext ==
    \E c \in Clients :
        \/ \E r \in Calls : NewCall(c, r)
        \/ ClientStep(c)
        \/ Store(c)
        \/ NetworkFails(c)

RefSpec == RefInit /\ [][RefNext]_refVars

-----------------------------------------------------------------------------
(***************************************************************************)
(* Properties.                                                             *)
(***************************************************************************)

PublicationOK(p) == p.node \in Nodes /\ ItemOK(p.node, p.value)

Steps == {"idle", "add_parent_refs", "add_parent_type", "add_child_refs", "add_child_type",
          "remove_child_refs", "remove_parent_refs", "meta", "meta_refs", "overwrite",
          "meta_publish", "publish", "await", "crashed"}

\* Types of the items, of what is on its way to them and of the clients'
\* variables: reference lists are published to "references" items and known
\* meta types to "meta" items, never the other way round.
RefTypeOK ==
    /\ DOMAIN item = Nodes /\ \A n \in Nodes : ItemOK(n, item[n])
    /\ \A c \in Clients :
          /\ \A i \in 1..Len(sent[c]) : PublicationOK(sent[c][i])
          /\ answer[c] \in Answers
          /\ pc[c] \in Steps
          /\ pc[c] # "idle" => call[c] \in Calls
          /\ refs[c] \in Seq(Reference) /\ todo[c] \in Seq(Reference)
          /\ type[c] \in MetaTypes
          /\ pc[c] \in {"publish", "await"} => PublicationOK(out[c]) /\ out[c].then \in Steps \cup {"return"}
          /\ err[c] \in Codes
          /\ response[c] \in {"unknown", "ok", "error"}
          /\ calls[c] \in 0..MaxCalls

\* A node refers to another one at most once, as its child or as its parent:
\* the checks of mio_reference_child_add keep this up whatever other clients
\* publish between them and the publication, and whatever is lost.
OneEntryPerNode == \A n \in EventNodes : Distinct(item[Refs(n)])

\* What a call does to the items when nothing fails and nobody interferes.
Entries(list) == {list[i] : i \in 1..Len(list)}

Added(r, old, new) ==
    LET p == Refs(r.parent)
        c == Refs(r.child)
        there == \/ Mentions(old[p], r.child) # {}
                 \/ r.at_child /\ Mentions(old[c], r.parent) # {}
        atParent == Append(old[p], NewReference("child", old[Meta(r.child)], r.child))
        atChild == Append(old[c], NewReference("parent", old[Meta(r.parent)], r.parent))
    IN  new = IF there THEN old
              ELSE IF r.at_child THEN [old EXCEPT ![c] = atChild, ![p] = atParent]
              ELSE [old EXCEPT ![p] = atParent]

\* List new is old without its reference of type t to node n.
Cut(old, new, t, n) ==
    /\ Found(new, t, n) = {}
    /\ \E k \in Found(old, t, n) :
          /\ Len(new) = Len(old) - 1
          /\ \A i \in 1..Len(new) : new[i] = old[IF i < k THEN i ELSE i + 1]

Removed(r, old, new) ==
    LET p == Refs(r.parent)
        c == Refs(r.child)
    IN  /\ Cut(old[p], new[p], "child", r.child)
        /\ Cut(old[c], new[c], "parent", r.parent)
        /\ \A n \in Nodes \ {p, c} : new[n] = old[n]

\* Node n refers to m and m back to n.
Linked(items, n, m, t) ==
    Found(items[Refs(n)], Opposite(t), m) # {} /\ Found(items[Refs(m)], t, n) # {}

\* Whether reference e of node m is to get the new type: it is one to r.node,
\* from a node that r.node refers back to.
Told(r, old, m, e) ==
    /\ e.node = r.node
    /\ Linked(old, r.node, m, e.type)
    /\ r.op = "retract" \/ old[Meta(r.node)] # NewType(r)

EntriesTold(r, old, m) ==
    {IF Told(r, old, m, e) THEN [e EXCEPT !.meta = NewType(r)] ELSE e :
        e \in Entries(old[Refs(m)])}

\* Node r.node has the new type, and so have the references to it.
Retyped(r, old, new) ==
    \A m \in EventNodes :
        /\ new[Meta(m)] = IF m = r.node THEN NewType(r) ELSE old[Meta(m)]
        /\ Entries(new[Refs(m)]) = EntriesTold(r, old, m)

\* Both references that a removal is about are there.  If one is not, its list
\* is replaced by an empty one (mio_reference_remove returns NULL for it).
BothEndsThere(r, old) ==
    /\ Found(old[Refs(r.parent)], "child", r.child) # {}
    /\ Found(old[Refs(r.child)], "parent", r.parent) # {}

\* The call gives a type that is read back as it was written.
GivesType(r) == r.op = "retract" \/ NewType(r) \notin {"none", "unknown"}

\* Every node that is to be told has another reference.  The list of one that
\* has not is empty without the reference to be replaced, which is taken for
\* "reference to remove was not present" (mio.c 3200-3208): the old type stays.
NoLoneReference(r, old) ==
    \A m \in EventNodes : \A e \in Entries(old[Refs(m)]) :
        Told(r, old, m, e) => Len(old[Refs(m)]) > 1

\* A call that nothing disturbs does exactly what it says, at all the items it
\* writes one after the other: an addition and a removal at both ends, and "if
\* the new meta type is not the same as the current one" a change at the node
\* and in the reference "of those nodes" that refer to it (mio.c 3255-3263).
\* The code needs BothEndsThere for a removal and NoLoneReference for a change
\* of type; the hypotheses say so.
UndisturbedCallIsExact ==
    [][\A c \in Clients :
          LET r == call[c]
              old == start[c]
          IN  pc[c] # "idle" /\ pc'[c] = "idle" /\ start'[c] # NULL =>
                \/ r.op = "add" /\ Added(r, old, item)
                \/ r.op = "remove" /\ (BothEndsThere(r, old) => Removed(r, old, item))
                \/ /\ r.op \in {"merge", "retract"}
                   /\ GivesType(r) /\ NoLoneReference(r, old) => Retyped(r, old, item)
      ]_refVars

\* How far a client is from the end of its call: the part of the operation,
\* then the references that are left and where it is in a publication.
Part ==
    [add_parent_refs |-> 5, add_parent_type |-> 4, add_child_refs |-> 3, add_child_type |-> 2,
     remove_child_refs |-> 3, remove_parent_refs |-> 2,
     meta |-> 5, meta_refs |-> 4, overwrite |-> 3, meta_publish |-> 2,
     return |-> 1, idle |-> 0, crashed |-> 0]

PartLeft(step, o) == Part[IF step \in {"publish", "await"} THEN o.then ELSE step]

WithinPart(step, list) ==
    3 * Len(list) + CASE step = "publish" -> 2 [] step = "await" -> 1 [] OTHER -> 0

\* Every step brings a call nearer to its end, however long the list of nodes
\* it has to update, whatever other clients do to that list meanwhile and
\* whatever is lost: no operation can go round for ever.
CallsGetOn ==
    [][\A c \in Clients :
          ClientStep(c) =>
              \/ PartLeft(pc'[c], out'[c]) < PartLeft(pc[c], out[c])
              \/ /\ PartLeft(pc'[c], out'[c]) = PartLeft(pc[c], out[c])
                 /\ WithinPart(pc'[c], todo'[c]) < WithinPart(pc[c], todo[c])
      ]_refVars

=============================================================================

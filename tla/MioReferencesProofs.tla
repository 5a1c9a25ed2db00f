------------------------ MODULE MioReferencesProofs ------------------------
(***************************************************************************)
(* Proofs about MioReferences for any number of clients, event nodes and   *)
(* calls, and reference lists of any length.                               *)
(***************************************************************************)
EXTENDS MioReferences, WellFoundedInduction, TLAPS

-----------------------------------------------------------------------------
(***************************************************************************)
(* The inductive invariant.                                                *)
(***************************************************************************)

Value == MetaTypes \cup Seq(Reference)

Publication == [node : Nodes, value : Value, by : Calls]

Outgoing == [node : Nodes, value : Value, then : Steps \cup {"return"}]

\* A publication that keeps the items as they should be.
Good(n, v) == ItemOK(n, v) /\ (n[2] = "references" => Distinct(v))

\* The steps of a call, its publications counted as what comes after them.
StepsOf(r) ==
    CASE r.op = "add" -> {"add_parent_refs", "add_parent_type", "add_child_refs",
                          "add_child_type", "return"}
      [] r.op = "remove" -> {"remove_child_refs", "remove_parent_refs", "return"}
      [] r.op = "merge" -> IF r.type = "none" THEN {"meta", "meta_publish", "return", "crashed"}
                           ELSE {"meta", "meta_refs", "overwrite", "meta_publish", "return",
                                 "crashed"}
      [] r.op = "retract" -> {"meta", "meta_refs", "overwrite"}

After(step, o) == IF step \in {"publish", "await"} THEN o.then ELSE step

\* What holds of the variables of one client.
ClientOK(step, r, list, o) ==
    /\ step # "idle" => r \in Calls /\ After(step, o) \in StepsOf(r)
    /\ step \in {"publish", "await"} => o \in Outgoing /\ Good(o.node, o.value)
    /\ list # <<>> => /\ step # "idle" /\ r.op = "add"
                      /\ Distinct(list) /\ Mentions(list, r.child) = {}

Shape ==
    /\ item \in [Nodes -> Value]
    /\ sent \in [Clients -> Seq(Publication)]
    /\ answer \in [Clients -> Answers]
    /\ pc \in [Clients -> Steps]
    /\ call = [c \in Clients |-> call[c]]
    /\ refs \in [Clients -> Seq(Reference)]
    /\ type \in [Clients -> MetaTypes]
    /\ todo \in [Clients -> Seq(Reference)]
    /\ out = [c \in Clients |-> out[c]]
    /\ err \in [Clients -> Codes]
    /\ response \in [Clients -> {"unknown", "ok", "error"}]
    /\ calls \in [Clients -> 0..MaxCalls]

ItemsInv == \A n \in Nodes : Good(n, item[n])

SentInv == \A c \in Clients : \A i \in 1..Len(sent[c]) : Good(sent[c][i].node, sent[c][i].value)

RefInv ==
    /\ Shape
    /\ ItemsInv
    /\ SentInv
    /\ \A c \in Clients : ClientOK(pc[c], call[c], refs[c], out[c])

-----------------------------------------------------------------------------
(***************************************************************************)
(* The list functions.                                                     *)
(***************************************************************************)

\* A non-empty set of naturals has a smallest element: First is defined.
LEMMA FirstIsMember ==
    ASSUME NEW S \in SUBSET Nat, S # {}
    PROVE  First(S) \in S
<1> DEFINE R == OpToRel(<, Nat)
<1>1. IsWellFoundedOn(R, Nat)
  BY NatLessThanWellFounded, Zenon
<1>2. \E x \in S : \A y \in S : ~ (<<y, x>> \in R)
  <2> HIDE DEF R
  <2> QED
    BY <1>1, WFMin, Zenon
<1>3. \A x, y \in Nat : <<y, x>> \in R <=> y < x
  BY DEF OpToRel
<1>4. \E x \in S : \A y \in S : ~(y < x)
  <2> HIDE DEF R
  <2>1. \A x \in S : x \in Nat
    OBVIOUS
  <2> QED
    BY <1>2, <1>3, <2>1, Zenon
<1>5. \E x \in S : \A y \in S : x <= y
  BY <1>4
<1> QED
  BY <1>5 DEF First

LEMMA NewReferenceType ==
    ASSUME NEW t \in {"child", "parent"}, NEW m \in MetaTypes, NEW n \in EventNodes
    PROVE  NewReference(t, m, n) \in Reference /\ NewReference(t, m, n).node = n
BY DEF NewReference, Reference

\* Appending a reference to a node that is not mentioned keeps them distinct.
LEMMA AppendDistinct ==
    ASSUME NEW list \in Seq(Reference), Distinct(list), NEW e \in Reference,
           Mentions(list, e.node) = {}
    PROVE  Append(list, e) \in Seq(Reference) /\ Distinct(Append(list, e))
<1> DEFINE new == Append(list, e)
<1>1. /\ new \in Seq(Reference) /\ Len(new) = Len(list) + 1 /\ new[Len(list) + 1] = e
      /\ \A i \in 1..Len(list) : new[i] = list[i]
  OBVIOUS
<1>2. \A i \in 1..Len(list) : list[i].node # e.node
  BY DEF Mentions
<1>3. \A i, j \in 1..Len(list) : list[i].node = list[j].node => i = j
  BY DEF Distinct, NodeOf
<1> HIDE DEF new
<1>4. \A i, j \in 1..Len(new) : new[i].node = new[j].node => i = j
  <2> TAKE i, j \in 1..Len(new)
  <2>0. Len(list) \in Nat
    OBVIOUS
  <2>1. CASE i <= Len(list) /\ j <= Len(list)
    BY <1>1, <1>3, <2>0, <2>1
  <2>2. CASE i <= Len(list) /\ j = Len(list) + 1
    BY <1>1, <1>2, <2>0, <2>2
  <2>3. CASE i = Len(list) + 1 /\ j <= Len(list)
    BY <1>1, <1>2, <2>0, <2>3
  <2>4. CASE i = Len(list) + 1 /\ j = Len(list) + 1
    BY <2>4
  <2> QED
    BY <1>1, <2>0, <2>1, <2>2, <2>3, <2>4
<1> QED
  BY <1>1, <1>4 DEF Distinct, NodeOf, new

\* Taking an element out of a list with distinct nodes.
LEMMA WithoutFacts ==
    ASSUME NEW list \in Seq(Reference), Distinct(list), NEW k \in 1..Len(list)
    PROVE  /\ Without(list, k) \in Seq(Reference)
           /\ Distinct(Without(list, k))
           /\ Mentions(Without(list, k), list[k].node) = {}
           /\ Len(Without(list, k)) = Len(list) - 1
           /\ \A i \in 1..Len(Without(list, k)) :
                 Without(list, k)[i] = list[IF i < k THEN i ELSE i + 1]
<1> DEFINE new == Without(list, k)
           at(i) == IF i < k THEN i ELSE i + 1
<1>1. Len(list) \in Nat /\ k \in Nat
  OBVIOUS
<1>2. /\ SubSeq(list, 1, k - 1) \in Seq(Reference)
      /\ Len(SubSeq(list, 1, k - 1)) = k - 1
      /\ \A i \in 1..(k - 1) : SubSeq(list, 1, k - 1)[i] = list[i]
  BY <1>1
<1>3. /\ SubSeq(list, k + 1, Len(list)) \in Seq(Reference)
      /\ Len(SubSeq(list, k + 1, Len(list))) = Len(list) - k
      /\ \A i \in 1..(Len(list) - k) : SubSeq(list, k + 1, Len(list))[i] = list[k + i]
  BY <1>1
<1>4. /\ new \in Seq(Reference) /\ Len(new) = Len(list) - 1
      /\ \A i \in 1..Len(new) : new[i] = list[at(i)]
  <2> DEFINE a == SubSeq(list, 1, k - 1)
             b == SubSeq(list, k + 1, Len(list))
  <2>1. new = a \o b
    BY DEF Without
  <2>2. /\ a \in Seq(Reference) /\ Len(a) = k - 1 /\ \A i \in 1..(k - 1) : a[i] = list[i]
        /\ b \in Seq(Reference) /\ Len(b) = Len(list) - k
        /\ \A i \in 1..(Len(list) - k) : b[i] = list[k + i]
    BY <1>2, <1>3
  <2> HIDE DEF a, b, new
  <2>3. new \in Seq(Reference) /\ Len(new) = Len(list) - 1
    BY <1>1, <2>1, <2>2
  <2>4. ASSUME NEW i \in 1..Len(new) PROVE new[i] = list[at(i)]
    <3>1. CASE i < k
      BY <1>1, <2>1, <2>2, <2>3, <3>1
    <3>2. CASE i >= k
      <4>1. new[i] = b[i - (k - 1)]
        BY <1>1, <2>1, <2>2, <2>3, <3>2
      <4>2. i - (k - 1) \in 1..(Len(list) - k) /\ k + (i - (k - 1)) = i + 1
        BY <1>1, <2>3, <3>2
      <4> QED
        BY <2>2, <3>2, <4>1, <4>2
    <3> QED
      BY <1>1, <2>3, <3>1, <3>2
  <2> QED
    BY <2>3, <2>4
<1>5. \A i \in 1..Len(new) : /\ at(i) \in 1..Len(list) /\ at(i) # k
  BY <1>1, <1>4
<1>6. \A i, j \in 1..Len(new) : at(i) = at(j) => i = j
  BY <1>1, <1>4
<1>7. \A i, j \in 1..Len(list) : list[i].node = list[j].node => i = j
  BY DEF Distinct, NodeOf
<1> HIDE DEF new, at
<1>8. Distinct(new)
  <2> SUFFICES ASSUME NEW i \in 1..Len(new), NEW j \in 1..Len(new), new[i].node = new[j].node
               PROVE  i = j
    BY DEF Distinct, NodeOf
  <2>1. list[at(i)].node = list[at(j)].node
    BY <1>4
  <2> QED
    BY <1>5, <1>6, <1>7, <2>1
<1>9. \A i \in 1..Len(new) : new[i].node # list[k].node
  <2> TAKE i \in 1..Len(new)
  <2>1. new[i] = list[at(i)] /\ at(i) \in 1..Len(list) /\ at(i) # k
    BY <1>4, <1>5
  <2> QED
    BY <1>7, <2>1
<1>10. Mentions(new, list[k].node) = {}
  BY <1>9 DEF Mentions
<1> QED
  BY <1>4, <1>8, <1>10 DEF new, at

\* What mio_reference_remove leaves is distinct, without the node.
LEMMA RemoveFacts ==
    ASSUME NEW list \in Seq(Reference), Distinct(list), NEW t, NEW n
    PROVE  /\ ReferenceRemove(list, t, n) \in Seq(Reference)
           /\ Distinct(ReferenceRemove(list, t, n))
           /\ Mentions(ReferenceRemove(list, t, n), n) = {}
<1>1. CASE Found(list, t, n) = {}
  <2>1. ReferenceRemove(list, t, n) = <<>>
    BY <1>1 DEF ReferenceRemove
  <2> QED
    BY <2>1 DEF Distinct, Mentions
<1>2. CASE Found(list, t, n) # {}
  <2> DEFINE k == First(Found(list, t, n))
  <2>1. Found(list, t, n) \in SUBSET Nat
    BY DEF Found, Mentions
  <2>2. k \in Found(list, t, n)
    BY <1>2, <2>1, FirstIsMember
  <2>3. k \in 1..Len(list) /\ list[k].node = n
    BY <2>2 DEF Found, Mentions
  <2>4. ReferenceRemove(list, t, n) = Without(list, k)
    BY <1>2 DEF ReferenceRemove
  <2> QED
    BY <2>3, <2>4, WithoutFacts
<1> QED
  BY <1>1, <1>2

-----------------------------------------------------------------------------
(***************************************************************************)
(* Calls and items.                                                        *)
(***************************************************************************)

LEMMA CallFacts ==
    ASSUME NEW r \in Calls
    PROVE  /\ r.op \in {"add", "remove", "merge", "retract"}
           /\ r.op = "add" => /\ r.parent \in EventNodes /\ r.child \in EventNodes
                              /\ r.at_child \in BOOLEAN
           /\ r.op = "remove" => r.parent \in EventNodes /\ r.child \in EventNodes
           /\ r.op = "merge" => r.node \in EventNodes /\ r.type \in MetaTypes \cup {"none"}
           /\ r.op = "retract" => r.node \in EventNodes
<1>1. r \in Call
  BY ReferenceConstants
<1> QED
  BY <1>1 DEF Call

LEMMA ItemNames ==
    ASSUME NEW n \in EventNodes
    PROVE  /\ Refs(n) \in Nodes /\ Refs(n)[2] = "references"
           /\ Meta(n) \in Nodes /\ Meta(n)[2] = "meta"
BY ReferenceConstants DEF Refs, Meta

LEMMA ItemValues ==
    ASSUME ItemsInv, NEW n \in EventNodes
    PROVE  /\ item[Refs(n)] \in Seq(Reference) /\ Distinct(item[Refs(n)])
           /\ item[Meta(n)] \in MetaTypes
BY ItemNames DEF ItemsInv, Good, ItemOK

\* Reference lists go to "references", meta types to "meta".
LEMMA GoodRefs ==
    ASSUME NEW n \in EventNodes, NEW list \in Seq(Reference), Distinct(list), NEW then \in Steps \cup {"return"}
    PROVE  LET o == [node |-> Refs(n), value |-> list, then |-> then]
           IN  o \in Outgoing /\ Good(o.node, o.value)
BY ItemNames DEF Outgoing, Value, Good, ItemOK

LEMMA GoodMeta ==
    ASSUME NEW n \in EventNodes, NEW m \in MetaTypes, NEW then \in Steps \cup {"return"}
    PROVE  LET o == [node |-> Meta(n), value |-> m, then |-> then]
           IN  o \in Outgoing /\ Good(o.node, o.value)
BY ItemNames DEF Outgoing, Value, Good, ItemOK

-----------------------------------------------------------------------------
(***************************************************************************)
(* Steps that the operations are made of keep the invariant.               *)
(***************************************************************************)

Types == type \in [Clients -> MetaTypes]
Todos == todo \in [Clients -> Seq(Reference)]
Errs == err \in [Clients -> Codes]
Responses == response \in [Clients -> {"unknown", "ok", "error"}]

\* The other clients keep what the invariant looks at.
Others(c) ==
    \A d \in Clients : d # c => pc'[d] = pc[d] /\ refs'[d] = refs[d] /\ out'[d] = out[d]

LEMMA RefInvInit == RefInit => RefInv
<1> SUFFICES ASSUME RefInit PROVE RefInv
  OBVIOUS
<1>1. item = [n \in Nodes |-> item[n]] /\ \A n \in Nodes : ItemOK(n, item[n])
  BY ReferenceConstants DEF RefInit
<1>2. \A n \in Nodes : item[n] \in Value
  BY <1>1 DEF ItemOK, Value
<1>3. item \in [Nodes -> Value]
  BY <1>1, <1>2
<1>4. Shape
  BY <1>3, ReferenceConstants DEF RefInit, Shape, Answers, Steps, MetaTypes, Codes
<1>5. ItemsInv
  <2>1. \A n \in EventNodes : Distinct(item[Refs(n)])
    BY ReferenceConstants DEF RefInit
  <2>2. \A n \in Nodes : n[2] = "references" => \E k \in EventNodes : n = Refs(k)
    BY ReferenceConstants DEF Refs
  <2> QED
    BY <1>1, <2>1, <2>2 DEF ItemsInv, Good
<1>6. SentInv
  BY DEF RefInit, SentInv
<1>7. \A c \in Clients : ClientOK(pc[c], call[c], refs[c], out[c])
  BY DEF RefInit, ClientOK
<1> QED
  BY <1>4, <1>5, <1>6, <1>7 DEF RefInv

\* A step of one client that publishes nothing.
LEMMA StepInv ==
    ASSUME RefInv, NEW c \in Clients, UNCHANGED <<itemVars, call, calls>>,
           pc' \in [Clients -> Steps], refs' \in [Clients -> Seq(Reference)],
           out' = [d \in Clients |-> out'[d]],
           Types', Todos', Errs', Responses', Others(c),
           ClientOK(pc'[c], call[c], refs'[c], out'[c])
    PROVE  RefInv'
<1>1. Shape'
  BY DEF RefInv, Shape, itemVars, Types, Todos, Errs, Responses
<1>2. ItemsInv' /\ SentInv'
  BY DEF RefInv, ItemsInv, SentInv, itemVars
<1>3. \A d \in Clients : ClientOK(pc'[d], call'[d], refs'[d], out'[d])
  BY DEF RefInv, Others
<1> QED
  BY <1>1, <1>2, <1>3 DEF RefInv

\* The call returns.
LEMMA ReturnInv ==
    ASSUME RefInv, NEW c \in Clients, UNCHANGED <<itemVars, call, calls>>,
           NEW code \in Codes, Return(c, code), Responses'
    PROVE  RefInv'
<1>1. /\ pc' \in [Clients -> Steps] /\ refs' \in [Clients -> Seq(Reference)]
      /\ out' = [d \in Clients |-> out'[d]]
      /\ Types' /\ Todos' /\ Errs'
  <2>1. "idle" \in Steps /\ "unknown" \in MetaTypes /\ <<>> \in Seq(Reference)
    BY DEF Steps, MetaTypes
  <2>2. pc' \in [Clients -> Steps] /\ refs' \in [Clients -> Seq(Reference)] /\ Todos'
    BY <2>1 DEF RefInv, Shape, Return, Goto, Todos
  <2>3. out' = [d \in Clients |-> out'[d]]
    BY DEF RefInv, Shape, Return
  <2>4. Types' /\ Errs'
    BY <2>1 DEF RefInv, Shape, Return, Types, Errs
  <2> QED
    BY <2>2, <2>3, <2>4
<1>2. pc'[c] = "idle" /\ refs'[c] = <<>> /\ Others(c)
  BY DEF RefInv, Shape, Return, Goto, Others
<1>3. ClientOK(pc'[c], call[c], refs'[c], out'[c])
  BY <1>2 DEF ClientOK
<1> QED
  BY <1>1, <1>2, <1>3, StepInv

\* The call goes on to another query.
LEMMA GotoInv ==
    ASSUME RefInv, NEW c \in Clients, UNCHANGED <<itemVars, call, calls, refs>>,
           pc[c] # "idle", NEW step \in StepsOf(call[c]) \ {"return"}, Goto(c, step),
           step \in Steps \ {"idle", "publish", "await"},
           out' = out \/ out' = [out EXCEPT ![c] = NULL],
           Types', Todos', Errs', Responses'
    PROVE  RefInv'
<1>1. /\ pc' \in [Clients -> Steps] /\ refs' \in [Clients -> Seq(Reference)]
      /\ out' = [d \in Clients |-> out'[d]]
  BY DEF RefInv, Shape, Goto
<1>2. pc'[c] = step /\ refs'[c] = refs[c] /\ Others(c)
  BY DEF RefInv, Shape, Goto, Others
<1>3. ClientOK(pc'[c], call[c], refs'[c], out'[c])
  BY <1>2 DEF RefInv, ClientOK, After
<1> QED
  BY <1>1, <1>2, <1>3, StepInv

\* The call goes on to a publication.
LEMMA GoPublishInv ==
    ASSUME RefInv, NEW c \in Clients, UNCHANGED <<itemVars, call, calls, refs>>,
           pc[c] # "idle", NEW then \in StepsOf(call[c]), NEW n, NEW v,
           GoPublish(c, n, v, then),
           [node |-> n, value |-> v, then |-> then] \in Outgoing, Good(n, v),
           Types', Todos', Errs', Responses'
    PROVE  RefInv'
<1> DEFINE o == [node |-> n, value |-> v, then |-> then]
<1>1. /\ pc' \in [Clients -> Steps] /\ refs' \in [Clients -> Seq(Reference)]
      /\ out' = [d \in Clients |-> out'[d]]
  BY DEF RefInv, Shape, Goto, GoPublish, Steps
<1>2. pc'[c] = "publish" /\ refs'[c] = refs[c] /\ out'[c] = o /\ Others(c)
  BY DEF RefInv, Shape, Goto, GoPublish, Others
<1>3. ClientOK(pc'[c], call[c], refs'[c], out'[c])
  <2>1. ClientOK(pc[c], call[c], refs[c], out[c])
    BY DEF RefInv
  <2>2. o.then = then /\ o.node = n /\ o.value = v
    OBVIOUS
  <2> QED
    BY <1>2, <2>1, <2>2 DEF ClientOK, After
<1> QED
  BY <1>1, <1>2, <1>3, StepInv

\* What the types of the variables say of one client.
LEMMA ClientFacts ==
    ASSUME RefInv, NEW c \in Clients
    PROVE  /\ ClientOK(pc[c], call[c], refs[c], out[c])
           /\ pc[c] \in Steps
           /\ refs[c] \in Seq(Reference) /\ todo[c] \in Seq(Reference)
           /\ type[c] \in MetaTypes /\ err[c] \in Codes
           /\ response[c] \in {"unknown", "ok", "error"}
           /\ ItemsInv /\ Types /\ Todos /\ Errs /\ Responses
BY DEF RefInv, Shape, Types, Todos, Errs, Responses

-----------------------------------------------------------------------------
(***************************************************************************)
(* The actions.                                                            *)
(***************************************************************************)

LEMMA NewCallInv ==
    ASSUME RefInv, NEW c \in Clients, NEW r \in Calls, NewCall(c, r)
    PROVE  RefInv'
<1>1. r.op \in {"add", "remove", "merge", "retract"}
  BY CallFacts
<1>2. FirstStep(r) \in StepsOf(r) /\ FirstStep(r) \in Steps \ {"idle", "publish", "await"}
  BY <1>1 DEF FirstStep, StepsOf, Steps
<1>3. calls' \in [Clients -> 0..MaxCalls]
  BY ReferenceConstants DEF RefInv, Shape, NewCall
<1>4. Shape'
  BY <1>2, <1>3 DEF RefInv, Shape, NewCall, itemVars, Codes
<1>5. ItemsInv' /\ SentInv'
  BY DEF RefInv, ItemsInv, SentInv, itemVars, NewCall
<1>6. /\ pc'[c] = FirstStep(r) /\ call'[c] = r /\ refs'[c] = refs[c] /\ out'[c] = out[c]
      /\ \A d \in Clients : d # c => pc'[d] = pc[d] /\ call'[d] = call[d]
      /\ refs' = refs /\ out' = out
  BY DEF RefInv, Shape, NewCall
<1>7. refs[c] = <<>>
  BY DEF RefInv, ClientOK, NewCall
<1>8. ClientOK(pc'[c], call'[c], refs'[c], out'[c])
  BY <1>2, <1>6, <1>7 DEF ClientOK, After
<1>9. \A d \in Clients : ClientOK(pc'[d], call'[d], refs'[d], out'[d])
  BY <1>6, <1>8 DEF RefInv
<1> QED
  BY <1>4, <1>5, <1>9 DEF RefInv

\* The call that a client is in, from the step it is at.
LEMMA CallAt ==
    ASSUME RefInv, NEW c \in Clients
    PROVE  /\ pc[c] # "idle" => call[c] \in Calls
           /\ pc[c] \in {"add_parent_refs", "add_parent_type", "add_child_refs", "add_child_type"}
              => call[c].op = "add"
           /\ pc[c] \in {"remove_child_refs", "remove_parent_refs"} => call[c].op = "remove"
           /\ pc[c] \in {"meta", "meta_refs", "overwrite"} => call[c].op \in {"merge", "retract"}
           /\ pc[c] \in {"meta_refs", "overwrite"} /\ call[c].op = "merge" => call[c].type # "none"
           /\ pc[c] = "meta_publish" => call[c].op = "merge"
<1>1. ClientOK(pc[c], call[c], refs[c], out[c])
  BY DEF RefInv
<1>2. pc[c] # "idle" => call[c].op \in {"add", "remove", "merge", "retract"}
  BY <1>1, CallFacts DEF ClientOK
<1> QED
  BY <1>1, <1>2 DEF ClientOK, After, StepsOf

LEMMA AlreadyThereType ==
    ASSUME NEW list, NEW n, NEW t
    PROVE  AlreadyThere(list, n, t) \in Codes
BY DEF AlreadyThere, Codes

LEMMA AddParentRefsInv ==
    ASSUME RefInv, NEW c \in Clients, AddParentRefs(c)
    PROVE  RefInv'
<1> DEFINE r == call[c]
           list == item[Refs(r.parent)]
<1>1. pc[c] = "add_parent_refs"
  BY DEF AddParentRefs, Answered, Unanswered
<1>2. /\ r \in Calls /\ r.op = "add" /\ r.parent \in EventNodes /\ r.child \in EventNodes
      /\ r.at_child \in BOOLEAN
  BY <1>1, CallAt, CallFacts
<1>3. list \in Seq(Reference) /\ Distinct(list)
  BY <1>2, ClientFacts, ItemValues
<1>4. /\ AfterParentRefs(r) \in StepsOf(call[c]) \ {"return"}
      /\ AfterParentRefs(r) \in Steps \ {"idle", "publish", "await"}
  BY <1>2 DEF AfterParentRefs, StepsOf, Steps
<1>5. CASE /\ Answered(c, "add_parent_refs")
           /\ Return(c, AlreadyThere(list, r.child, "child"))
           /\ UNCHANGED response
  BY <1>5, AlreadyThereType, ReturnInv, ClientFacts DEF Answered, Responses
<1>6. CASE /\ Answered(c, "add_parent_refs")
           /\ Mentions(list, r.child) = {}
           /\ refs' = [refs EXCEPT ![c] = list]
           /\ Goto(c, AfterParentRefs(r))
           /\ UNCHANGED <<type, todo, out, err, response>>
  <2>1. /\ pc' \in [Clients -> Steps] /\ refs' \in [Clients -> Seq(Reference)]
        /\ out' = [d \in Clients |-> out'[d]]
    BY <1>3, <1>4, <1>6 DEF RefInv, Shape, Goto
  <2>2. Types' /\ Todos' /\ Errs' /\ Responses'
    BY <1>6, ClientFacts DEF Types, Todos, Errs, Responses
  <2>3. pc'[c] = AfterParentRefs(r) /\ refs'[c] = list /\ Others(c)
    BY <1>6 DEF RefInv, Shape, Goto, Others
  <2>4. ClientOK(pc'[c], call[c], refs'[c], out'[c])
    BY <1>2, <1>3, <1>4, <1>6, <2>3 DEF ClientOK, After
  <2> QED
    BY <1>6, <2>1, <2>2, <2>3, <2>4, StepInv DEF Answered
<1>7. CASE /\ Unanswered(c, "add_parent_refs")
           /\ Goto(c, AfterParentRefs(r))
           /\ UNCHANGED localVars
  BY <1>1, <1>4, <1>7, GotoInv, ClientFacts
     DEF Unanswered, localVars, Types, Todos, Errs, Responses
<1> QED
  BY <1>5, <1>6, <1>7 DEF AddParentRefs

LEMMA AddParentTypeInv ==
    ASSUME RefInv, NEW c \in Clients, AddParentType(c)
    PROVE  RefInv'
<1>1. pc[c] = "add_parent_type"
  BY DEF AddParentType, Answered, Unanswered
<1>2. call[c] \in Calls /\ call[c].op = "add" /\ call[c].parent \in EventNodes
  BY <1>1, CallAt, CallFacts
<1>3. item[Meta(call[c].parent)] \in MetaTypes
  BY <1>2, ClientFacts, ItemValues
<1>4. Types'
  BY <1>3 DEF AddParentType, RefInv, Shape, Types
<1>5. Todos' /\ Errs' /\ Responses'
  BY ClientFacts DEF AddParentType, Todos, Errs, Responses
<1>6. "add_child_refs" \in StepsOf(call[c]) /\ "add_child_refs" \in Steps
  BY <1>2 DEF StepsOf, Steps
<1> QED
  BY <1>1, <1>4, <1>5, <1>6, GotoInv DEF AddParentType, Answered, Unanswered

LEMMA AddChildRefsInv ==
    ASSUME RefInv, NEW c \in Clients, AddChildRefs(c)
    PROVE  RefInv'
<1> DEFINE r == call[c]
           list == item[Refs(r.child)]
           new == NewReference("parent", type[c], r.parent)
<1>1. pc[c] = "add_child_refs"
  BY DEF AddChildRefs, Answered, Unanswered
<1>2. r \in Calls /\ r.op = "add" /\ r.parent \in EventNodes /\ r.child \in EventNodes
  BY <1>1, CallAt, CallFacts
<1>3. list \in Seq(Reference) /\ Distinct(list) /\ type[c] \in MetaTypes
  BY <1>2, ClientFacts, ItemValues
<1>4. new \in Reference /\ new.node = r.parent
  BY <1>2, <1>3, NewReferenceType
<1>5. "add_child_type" \in StepsOf(r) /\ "add_child_type" \in Steps
  BY <1>2 DEF StepsOf, Steps
<1>6. CASE /\ Answered(c, "add_child_refs")
           /\ Return(c, AlreadyThere(list, r.parent, "parent"))
           /\ UNCHANGED response
  BY <1>6, AlreadyThereType, ReturnInv, ClientFacts DEF Answered, Responses
<1> HIDE DEF new
<1>7. ASSUME NEW value \in Seq(Reference), Distinct(value),
             GoPublish(c, Refs(r.child), value, "add_child_type"),
             UNCHANGED <<itemVars, call, calls>>, UNCHANGED <<refs, type, todo, err, response>>
      PROVE  RefInv'
  <2>1. /\ [node |-> Refs(r.child), value |-> value, then |-> "add_child_type"] \in Outgoing
        /\ Good(Refs(r.child), value)
    BY <1>2, <1>5, <1>7, GoodRefs
  <2>2. Types' /\ Todos' /\ Errs' /\ Responses'
    BY <1>7, ClientFacts DEF Types, Todos, Errs, Responses
  <2> QED
    BY <1>1, <1>5, <1>7, <2>1, <2>2, GoPublishInv
<1>8. CASE /\ Answered(c, "add_child_refs")
           /\ Mentions(list, r.parent) = {}
           /\ GoPublish(c, Refs(r.child), Append(list, new), "add_child_type")
           /\ UNCHANGED <<refs, type, todo, err, response>>
  <2>1. Append(list, new) \in Seq(Reference) /\ Distinct(Append(list, new))
    BY <1>3, <1>4, <1>8, AppendDistinct
  <2> QED
    BY <1>7, <1>8, <2>1 DEF Answered
<1>9. CASE /\ Unanswered(c, "add_child_refs")
           /\ GoPublish(c, Refs(r.child), <<new>>, "add_child_type")
           /\ UNCHANGED <<refs, type, todo, err, response>>
  <2>1. <<new>> \in Seq(Reference) /\ Distinct(<<new>>)
    BY <1>4 DEF Distinct
  <2> QED
    BY <1>7, <1>9, <2>1 DEF Unanswered
<1> QED
  BY <1>6, <1>8, <1>9 DEF AddChildRefs, new

LEMMA AddChildTypeInv ==
    ASSUME RefInv, NEW c \in Clients, AddChildType(c)
    PROVE  RefInv'
<1> DEFINE r == call[c]
           new(m) == NewReference("child", m, r.child)
<1>1. pc[c] = "add_child_type"
  BY DEF AddChildType, Answered, Unanswered
<1>2. r \in Calls /\ r.op = "add" /\ r.parent \in EventNodes /\ r.child \in EventNodes
  BY <1>1, CallAt, CallFacts
<1>3. item[Meta(r.child)] \in MetaTypes /\ "unknown" \in MetaTypes
  BY <1>2, ClientFacts, ItemValues DEF MetaTypes
<1>4. refs[c] \in Seq(Reference) /\ Distinct(refs[c]) /\ Mentions(refs[c], r.child) = {}
  <2>1. CASE refs[c] = <<>>
    BY <2>1 DEF Distinct, Mentions
  <2>2. CASE refs[c] # <<>>
    BY <2>2, ClientFacts DEF ClientOK
  <2> QED
    BY <2>1, <2>2, ClientFacts
<1>5. ASSUME NEW m \in MetaTypes,
             GoPublish(c, Refs(r.parent), Append(refs[c], new(m)), "return")
      PROVE  RefInv'
  <2>1. new(m) \in Reference /\ new(m).node = r.child
    BY <1>2, NewReferenceType
  <2> HIDE DEF new
  <2> DEFINE value == Append(refs[c], new(m))
  <2>2. value \in Seq(Reference) /\ Distinct(value)
    BY <1>4, <2>1, AppendDistinct
  <2> HIDE DEF value
  <2>3. /\ [node |-> Refs(r.parent), value |-> value, then |-> "return"] \in Outgoing
        /\ Good(Refs(r.parent), value)
    BY <1>2, <2>2, GoodRefs
  <2>4. Types' /\ Todos' /\ Errs' /\ Responses'
    BY ClientFacts DEF AddChildType, Types, Todos, Errs, Responses
  <2>5. "return" \in StepsOf(r)
    BY <1>2 DEF StepsOf
  <2>6. UNCHANGED <<itemVars, call, calls, refs>>
    BY DEF AddChildType, Answered, Unanswered
  <2>7. GoPublish(c, Refs(r.parent), value, "return")
    BY <1>5 DEF value
  <2> QED
    BY <1>1, <2>3, <2>4, <2>5, <2>6, <2>7, GoPublishInv
<1> QED
  BY <1>3, <1>5 DEF AddChildType

LEMMA RemoveAtInv ==
    ASSUME RefInv, NEW c \in Clients, NEW here \in Steps \ {"idle"}, NEW n \in EventNodes,
           NEW t, NEW other, NEW then \in StepsOf(call[c]),
           then = "return" \/ then \in Steps \ {"idle", "publish", "await"},
           RemoveAt(c, here, n, t, other, then)
    PROVE  RefInv'
<1> DEFINE list == item[Refs(n)]
           value == ReferenceRemove(list, t, other)
<1>1. list \in Seq(Reference) /\ Distinct(list)
  BY ClientFacts, ItemValues
<1>2. value \in Seq(Reference) /\ Distinct(value)
  BY <1>1, RemoveFacts
<1>3. pc[c] = here /\ UNCHANGED <<itemVars, call, calls>>
  BY DEF RemoveAt, Answered, Unanswered
<1>4. CASE /\ GoPublish(c, Refs(n), value, then)
           /\ response' = [response EXCEPT ![c] = "ok"]
           /\ UNCHANGED <<refs, type, todo, err>>
  <2> HIDE DEF value
  <2>1. /\ [node |-> Refs(n), value |-> value, then |-> then] \in Outgoing
        /\ Good(Refs(n), value)
    BY <1>2, GoodRefs
  <2>2. Types' /\ Todos' /\ Errs'
    BY <1>4, ClientFacts DEF Types, Todos, Errs
  <2>3. Responses'
    BY <1>4 DEF RefInv, Shape, Responses
  <2> QED
    BY <1>3, <1>4, <2>1, <2>2, <2>3, GoPublishInv
<1>5. CASE /\ Return(c, err[c])
           /\ response' = [response EXCEPT ![c] = IF @ = "ok" THEN "ok" ELSE "error"]
  <2>1. Responses'
    BY <1>5 DEF RefInv, Shape, Responses
  <2> QED
    BY <1>3, <1>5, <2>1, ReturnInv, ClientFacts
<1>6. CASE then # "return" /\ Goto(c, then) /\ UNCHANGED localVars
  <2>1. Types' /\ Todos' /\ Errs' /\ Responses'
    BY <1>6, ClientFacts DEF Types, Todos, Errs, Responses, localVars
  <2> QED
    BY <1>3, <1>6, <2>1, GotoInv DEF localVars
<1> QED
  BY <1>4, <1>5, <1>6 DEF RemoveAt

LEMMA RemoveInv ==
    ASSUME RefInv, NEW c \in Clients, RemoveChildRefs(c) \/ RemoveParentRefs(c)
    PROVE  RefInv'
<1>1. pc[c] \in {"remove_child_refs", "remove_parent_refs"}
  BY DEF RemoveChildRefs, RemoveParentRefs, RemoveAt, Answered, Unanswered
<1>2. /\ call[c].op = "remove" /\ call[c].parent \in EventNodes
      /\ call[c].child \in EventNodes
  BY <1>1, CallAt, CallFacts
<1>3. /\ "remove_parent_refs" \in StepsOf(call[c]) /\ "return" \in StepsOf(call[c])
      /\ "remove_parent_refs" \in Steps \ {"idle", "publish", "await"}
      /\ "remove_child_refs" \in Steps \ {"idle"}
  BY <1>2 DEF StepsOf, Steps
<1>4. CASE RemoveChildRefs(c)
  BY <1>2, <1>3, <1>4, RemoveAtInv DEF RemoveChildRefs
<1>5. CASE RemoveParentRefs(c)
  BY <1>2, <1>3, <1>5, RemoveAtInv DEF RemoveParentRefs
<1> QED
  BY <1>4, <1>5

LEMMA MetaQueryInv ==
    ASSUME RefInv, NEW c \in Clients, MetaQuery(c)
    PROVE  RefInv'
<1> DEFINE r == call[c]
           old == item[Meta(r.node)]
           next == IF r.type \in {"none", old} THEN "meta_publish" ELSE "meta_refs"
<1>1. pc[c] = "meta"
  BY DEF MetaQuery, Answered, Unanswered
<1>2. r \in Calls /\ r.op \in {"merge", "retract"} /\ r.node \in EventNodes
  BY <1>1, CallAt, CallFacts
<1>3. old \in MetaTypes /\ "unknown" \in MetaTypes
  BY <1>2, ClientFacts, ItemValues DEF MetaTypes
<1>4. UNCHANGED <<itemVars, call, calls>>
  BY DEF MetaQuery, Answered, Unanswered
<1>5. CASE /\ r.op = "merge"
           /\ type' = [type EXCEPT ![c] = old]
           /\ Goto(c, next)
           /\ UNCHANGED <<refs, todo, out, err, response>>
  <2>1. next \in StepsOf(r) \ {"return"} /\ next \in Steps \ {"idle", "publish", "await"}
    BY <1>5 DEF StepsOf, Steps
  <2>2. Types'
    BY <1>3, <1>5 DEF RefInv, Shape, Types
  <2>3. Todos' /\ Errs' /\ Responses'
    BY <1>5, ClientFacts DEF Todos, Errs, Responses
  <2> HIDE DEF next
  <2> QED
    BY <1>1, <1>4, <1>5, <2>1, <2>2, <2>3, GotoInv
<1>6. CASE /\ r.op = "retract"
           /\ GoPublish(c, Meta(r.node), "unknown", "meta_refs")
           /\ UNCHANGED <<refs, type, todo, err, response>>
  <2>1. "meta_refs" \in StepsOf(r) /\ "meta_refs" \in Steps
    BY <1>6 DEF StepsOf, Steps
  <2>2. /\ [node |-> Meta(r.node), value |-> "unknown", then |-> "meta_refs"] \in Outgoing
        /\ Good(Meta(r.node), "unknown")
    BY <1>2, <1>3, <2>1, GoodMeta
  <2>3. Types' /\ Todos' /\ Errs' /\ Responses'
    BY <1>6, ClientFacts DEF Types, Todos, Errs, Responses
  <2> QED
    BY <1>1, <1>4, <1>6, <2>1, <2>2, <2>3, GoPublishInv
<1>7. CASE Return(c, "unexpected_response") /\ UNCHANGED response
  <2>1. "unexpected_response" \in Codes
    BY DEF Codes
  <2> QED
    BY <1>4, <1>7, <2>1, ReturnInv, ClientFacts DEF Responses
<1> QED
  BY <1>5, <1>6, <1>7 DEF MetaQuery

LEMMA MetaRefsInv ==
    ASSUME RefInv, NEW c \in Clients, MetaRefs(c)
    PROVE  RefInv'
<1>1. pc[c] = "meta_refs"
  BY DEF MetaRefs, Answered, Unanswered
<1>2. /\ call[c].op \in {"merge", "retract"} /\ call[c].node \in EventNodes
      /\ call[c].op = "merge" => call[c].type # "none"
  BY <1>1, CallAt, CallFacts
<1>3. item[Refs(call[c].node)] \in Seq(Reference)
  BY <1>2, ClientFacts, ItemValues
<1>4. Todos'
  BY <1>3 DEF MetaRefs, RefInv, Shape, Todos
<1>5. Types' /\ Errs' /\ Responses'
  BY ClientFacts DEF MetaRefs, Types, Errs, Responses
<1>6. "overwrite" \in StepsOf(call[c]) /\ "overwrite" \in Steps
  BY <1>2 DEF StepsOf, Steps
<1> QED
  BY <1>1, <1>4, <1>5, <1>6, GotoInv DEF MetaRefs, Answered, Unanswered

LEMMA OverwriteInv ==
    ASSUME RefInv, NEW c \in Clients, Overwrite(c)
    PROVE  RefInv'
<1> DEFINE r == call[c]
           ref == Head(todo[c])
           t == Opposite(ref.type)
           rest == ReferenceRemove(item[Refs(ref.node)], t, r.node)
           new == NewReference(t, NewType(r), r.node)
           value == Append(rest, new)
<1>1. pc[c] = "overwrite" /\ todo[c] # <<>> /\ UNCHANGED <<itemVars, call, calls>>
  BY DEF Overwrite, Answered, Unanswered
<1>2. /\ r \in Calls /\ r.op \in {"merge", "retract"} /\ r.node \in EventNodes
      /\ NewType(r) \in MetaTypes
  <2>1. r \in Calls /\ r.op \in {"merge", "retract"} /\ (r.op = "merge" => r.type # "none")
    BY <1>1, CallAt
  <2>2. r.node \in EventNodes /\ (r.op = "merge" => r.type \in MetaTypes)
    BY <2>1, CallFacts
  <2> QED
    BY <2>1, <2>2 DEF NewType, MetaTypes
<1>3. ref \in Reference /\ Tail(todo[c]) \in Seq(Reference)
  BY <1>1, ClientFacts
<1>4. ref.node \in EventNodes /\ t \in {"child", "parent"}
  BY <1>3 DEF Reference, Opposite
<1>5. rest \in Seq(Reference) /\ Distinct(rest) /\ Mentions(rest, r.node) = {}
  BY <1>4, ClientFacts, ItemValues, RemoveFacts
<1>6. new \in Reference /\ new.node = r.node
  BY <1>2, <1>4, NewReferenceType
<1> HIDE DEF ref, t, rest, new
<1>7. value \in Seq(Reference) /\ Distinct(value)
  BY <1>5, <1>6, AppendDistinct
<1>8. Types' /\ Todos' /\ Errs' /\ Responses'
  <2>1. Types' /\ Responses'
    BY ClientFacts DEF Overwrite, Types, Responses
  <2>2. Todos'
    BY <1>3 DEF Overwrite, RefInv, Shape, Todos
  <2>3. "ok" \in Codes /\ "unexpected_response" \in Codes
    BY DEF Codes
  <2>4. Errs'
    BY <2>3 DEF Overwrite, RefInv, Shape, Errs
  <2> QED
    BY <2>1, <2>2, <2>4
<1>9. CASE GoPublish(c, Refs(ref.node), value, "overwrite")
  <2> HIDE DEF value
  <2>1. "overwrite" \in StepsOf(r) /\ "overwrite" \in Steps
    <3>1. r.op = "merge" => r.type # "none"
      BY <1>1, CallAt
    <3> QED
      BY <1>2, <3>1 DEF StepsOf, Steps
  <2>2. /\ [node |-> Refs(ref.node), value |-> value, then |-> "overwrite"] \in Outgoing
        /\ Good(Refs(ref.node), value)
    BY <1>4, <1>7, <2>1, GoodRefs
  <2>3. UNCHANGED refs
    BY DEF Overwrite
  <2> QED
    BY <1>1, <1>8, <1>9, <2>1, <2>2, <2>3, GoPublishInv
<1>10. CASE UNCHANGED <<pc, out>>
  <2>1. UNCHANGED refs
    BY DEF Overwrite
  <2>2. /\ pc' \in [Clients -> Steps] /\ refs' \in [Clients -> Seq(Reference)]
        /\ out' = [d \in Clients |-> out'[d]] /\ Others(c)
    BY <1>10, <2>1 DEF RefInv, Shape, Others
  <2>3. ClientOK(pc'[c], call[c], refs'[c], out'[c])
    BY <1>10, <2>1, ClientFacts
  <2> QED
    BY <1>1, <1>8, <2>2, <2>3, StepInv
<1> QED
  BY <1>9, <1>10 DEF Overwrite, ref, t, rest, new

LEMMA OverwriteEndInv ==
    ASSUME RefInv, NEW c \in Clients, OverwriteEnd(c)
    PROVE  RefInv'
<1>1. pc[c] = "overwrite" /\ UNCHANGED <<itemVars, call, calls>>
  BY DEF OverwriteEnd
<1>2. CASE call[c].op = "merge" /\ Goto(c, "meta_publish") /\ UNCHANGED localVars
  <2>1. "meta_publish" \in StepsOf(call[c]) /\ "meta_publish" \in Steps
    BY <1>2 DEF StepsOf, Steps
  <2>2. Types' /\ Todos' /\ Errs' /\ Responses'
    BY <1>2, ClientFacts DEF Types, Todos, Errs, Responses, localVars
  <2> QED
    BY <1>1, <1>2, <2>1, <2>2, GotoInv DEF localVars
<1>3. CASE Return(c, err[c]) /\ UNCHANGED response
  BY <1>1, <1>3, ReturnInv, ClientFacts DEF Responses
<1> QED
  BY <1>2, <1>3 DEF OverwriteEnd

LEMMA MetaPublishInv ==
    ASSUME RefInv, NEW c \in Clients, MetaPublish(c)
    PROVE  RefInv'
<1> DEFINE r == call[c]
           new == IF r.type \in {"none", "unknown"} THEN type[c] ELSE r.type
<1>1. pc[c] = "meta_publish" /\ UNCHANGED <<itemVars, call, calls>>
  BY DEF MetaPublish
<1>2. r.op = "merge" /\ r.node \in EventNodes /\ new \in MetaTypes
  BY <1>1, CallAt, CallFacts, ClientFacts
<1>3. "return" \in StepsOf(r) /\ "crashed" \in StepsOf(r) /\ "crashed" \in Steps
  BY <1>2 DEF StepsOf, Steps
<1>4. CASE /\ GoPublish(c, Meta(r.node), new, "return")
           /\ UNCHANGED <<refs, type, todo, err, response>>
  <2> HIDE DEF new
  <2>1. /\ [node |-> Meta(r.node), value |-> new, then |-> "return"] \in Outgoing
        /\ Good(Meta(r.node), new)
    BY <1>2, GoodMeta
  <2>2. Types' /\ Todos' /\ Errs' /\ Responses'
    BY <1>4, ClientFacts DEF Types, Todos, Errs, Responses
  <2> QED
    BY <1>1, <1>3, <1>4, <2>1, <2>2, GoPublishInv
<1>5. CASE Goto(c, "crashed") /\ UNCHANGED localVars
  <2>1. Types' /\ Todos' /\ Errs' /\ Responses'
    BY <1>5, ClientFacts DEF Types, Todos, Errs, Responses, localVars
  <2> QED
    BY <1>1, <1>3, <1>5, <2>1, GotoInv DEF localVars
<1>6. CASE Return(c, "disconnected") /\ UNCHANGED response
  <2>1. "disconnected" \in Codes
    BY DEF Codes
  <2> QED
    BY <1>1, <1>6, <2>1, ReturnInv, ClientFacts DEF Responses
<1> QED
  BY <1>4, <1>5, <1>6 DEF MetaPublish

LEMMA PublishInv ==
    ASSUME RefInv, NEW c \in Clients, Publish(c)
    PROVE  RefInv'
<1> DEFINE p == [node |-> out[c].node, value |-> out[c].value, by |-> call[c]]
<1>1. /\ pc[c] = "publish" /\ UNCHANGED <<item, call, localVars, calls>>
      /\ sent' = [sent EXCEPT ![c] = Append(@, p)]
      /\ answer' = [answer EXCEPT ![c] = "none"] /\ Goto(c, "await")
  BY DEF Publish, ItemPublish
<1>2. call[c] \in Calls /\ out[c] \in Outgoing /\ Good(out[c].node, out[c].value)
  BY <1>1, ClientFacts DEF ClientOK
<1>3. p \in Publication /\ Good(p.node, p.value)
  BY <1>2 DEF Outgoing, Publication
<1> HIDE DEF p
<1>4. sent[c] \in Seq(Publication) /\ Append(sent[c], p) \in Seq(Publication)
  BY <1>3 DEF RefInv, Shape
<1>5. "none" \in Answers /\ "await" \in Steps
  BY DEF Answers, Steps
<1>6. /\ sent' \in [Clients -> Seq(Publication)]
      /\ answer' \in [Clients -> Answers] /\ pc' \in [Clients -> Steps]
  BY <1>1, <1>4, <1>5 DEF RefInv, Shape, Goto
<1>7. Shape'
  BY <1>1, <1>6 DEF RefInv, Shape, localVars
<1>8. ItemsInv'
  BY <1>1 DEF RefInv, ItemsInv
<1>9. SentInv'
  <2> SUFFICES ASSUME NEW d \in Clients, NEW i \in 1..Len(sent'[d])
               PROVE  Good(sent'[d][i].node, sent'[d][i].value)
    BY DEF SentInv
  <2>1. sent'[d] = IF d = c THEN Append(sent[c], p) ELSE sent[d]
    BY <1>1 DEF RefInv, Shape
  <2>2. CASE d # c
    BY <2>1, <2>2 DEF RefInv, SentInv
  <2>3. CASE d = c /\ i <= Len(sent[c])
    <3>1. sent'[d][i] = sent[c][i] /\ i \in 1..Len(sent[c])
      BY <1>3, <1>4, <2>1, <2>3
    <3> QED
      BY <3>1 DEF RefInv, SentInv
  <2>4. CASE d = c /\ i = Len(sent[c]) + 1
    BY <1>3, <1>4, <2>1, <2>4
  <2> QED
    BY <1>4, <2>1, <2>2, <2>3, <2>4
<1>10. \A d \in Clients : ClientOK(pc'[d], call'[d], refs'[d], out'[d])
  <2> SUFFICES ASSUME NEW d \in Clients
               PROVE  ClientOK(pc'[d], call[d], refs[d], out[d])
    BY <1>1 DEF localVars
  <2>1. pc'[d] = IF d = c THEN "await" ELSE pc[d]
    BY <1>1 DEF RefInv, Shape, Goto
  <2>2. ClientOK(pc[d], call[d], refs[d], out[d])
    BY ClientFacts
  <2> QED
    BY <1>1, <2>1, <2>2 DEF ClientOK, After
<1> QED
  BY <1>7, <1>8, <1>9, <1>10 DEF RefInv

LEMMA PublishedInv ==
    ASSUME RefInv, NEW c \in Clients, pc[c] \in {"publish", "await"},
           NEW result \in {"ok", "error", "timeout", "disconnected"}, Published(c, result)
    PROVE  RefInv'
<1> DEFINE then == out[c].then
<1>1. UNCHANGED <<itemVars, call, calls>>
  BY DEF Published
<1>2. Responses'
  <2>1. Heard(call[c], then, response[c], result) \in {"unknown", "ok", "error"}
    BY ClientFacts DEF Heard
  <2> QED
    BY <2>1 DEF Published, RefInv, Shape, Responses
<1>3. \A step : ErrAfter(call[c], step, err[c], result) \in Codes
  BY ClientFacts DEF ErrAfter, Codes
<1>4. CASE then = "return"
  <2>1. Return(c, ErrAfter(call[c], "return", err[c], result))
    BY <1>4 DEF Published
  <2> QED
    BY <1>1, <1>2, <1>3, <2>1, ReturnInv
<1>5. CASE then # "return"
  <2>1. /\ Goto(c, then) /\ out' = [out EXCEPT ![c] = NULL]
        /\ err' = [err EXCEPT ![c] = ErrAfter(call[c], then, @, result)]
        /\ UNCHANGED <<refs, type, todo>>
    BY <1>5 DEF Published
  <2>2. call[c] \in Calls /\ then \in StepsOf(call[c])
    BY ClientFacts DEF ClientOK, After
  <2>3. then \in Steps \ {"idle", "publish", "await"}
    <3>1. call[c].op \in {"add", "remove", "merge", "retract"}
      BY <2>2, CallFacts
    <3> QED
      BY <1>5, <2>2, <3>1 DEF StepsOf, Steps
  <2>4. Types' /\ Todos'
    BY <2>1, ClientFacts DEF Types, Todos
  <2>5. Errs'
    BY <1>3, <2>1 DEF RefInv, Shape, Errs
  <2> HIDE DEF then
  <2> QED
    BY <1>1, <1>2, <1>5, <2>1, <2>2, <2>3, <2>4, <2>5, GotoInv
<1> QED
  BY <1>4, <1>5

LEMMA PublicationEndInv ==
    ASSUME RefInv, NEW c \in Clients,
           PublishDisconnected(c) \/ PublishAnswered(c) \/ PublishTimeout(c)
    PROVE  RefInv'
<1>1. answer[c] \in {"none", "ok", "error"}
  BY DEF RefInv, Shape, Answers
<1> QED
  BY <1>1, PublishedInv DEF PublishDisconnected, PublishAnswered, PublishTimeout

\* Publications leave the connection in front, or all at once.
LEMMA TailOfSent ==
    ASSUME RefInv, NEW c \in Clients, sent[c] # <<>>
    PROVE  /\ Tail(sent[c]) \in Seq(Publication)
           /\ \A i \in 1..Len(Tail(sent[c])) :
                 Good(Tail(sent[c])[i].node, Tail(sent[c])[i].value)
           /\ Head(sent[c]) \in Publication
           /\ Good(Head(sent[c]).node, Head(sent[c]).value)
<1>1. sent[c] \in Seq(Publication) /\ Len(sent[c]) \in Nat /\ Len(sent[c]) > 0
  BY DEF RefInv, Shape
<1>2. /\ Tail(sent[c]) \in Seq(Publication) /\ Len(Tail(sent[c])) = Len(sent[c]) - 1
      /\ \A i \in 1..Len(Tail(sent[c])) : Tail(sent[c])[i] = sent[c][i + 1]
      /\ Head(sent[c]) = sent[c][1] /\ Head(sent[c]) \in Publication
  BY <1>1
<1>3. \A i \in 1..Len(sent[c]) : Good(sent[c][i].node, sent[c][i].value)
  BY DEF RefInv, SentInv
<1>4. 1 \in 1..Len(sent[c]) /\ \A i \in 1..Len(Tail(sent[c])) : i + 1 \in 1..Len(sent[c])
  BY <1>1, <1>2
<1> QED
  BY <1>2, <1>3, <1>4

LEMMA ServerInv ==
    ASSUME RefInv, NEW c \in Clients, Store(c) \/ NetworkFails(c)
    PROVE  RefInv'
<1>1. UNCHANGED <<pc, call, localVars, calls>> /\ sent[c] # <<>>
  BY DEF Store, NetworkFails, ServerStore, ServerRefuse, LinkLost
<1>2. /\ sent' = [sent EXCEPT ![c] = Tail(@)] \/ sent' = [sent EXCEPT ![c] = <<>>]
      /\ answer' = answer \/ \E a \in Answers : answer' = [answer EXCEPT ![c] = a]
      /\ \/ item' = item
         \/ item' = [item EXCEPT ![Head(sent[c]).node] = Head(sent[c]).value]
  BY DEF Store, NetworkFails, ServerStore, ServerRefuse, LinkLost, AnswerLast, Answers
<1>3. /\ Head(sent[c]).node \in Nodes /\ Head(sent[c]).value \in Value
      /\ Good(Head(sent[c]).node, Head(sent[c]).value)
  BY <1>1, TailOfSent DEF Publication
<1>4. item' \in [Nodes -> Value]
  BY <1>2, <1>3 DEF RefInv, Shape
<1>5. sent' \in [Clients -> Seq(Publication)]
  <2>1. <<>> \in Seq(Publication) /\ Tail(sent[c]) \in Seq(Publication)
    BY <1>1, TailOfSent
  <2> QED
    BY <1>2, <2>1 DEF RefInv, Shape
<1>6. answer' \in [Clients -> Answers]
  BY <1>2 DEF RefInv, Shape
<1>7. Shape'
  BY <1>1, <1>4, <1>5, <1>6 DEF RefInv, Shape, localVars
<1>8. ItemsInv'
  <2> SUFFICES ASSUME NEW n \in Nodes PROVE Good(n, item'[n])
    BY DEF ItemsInv
  <2>1. item'[n] = item[n] \/ (n = Head(sent[c]).node /\ item'[n] = Head(sent[c]).value)
    BY <1>2 DEF RefInv, Shape
  <2> QED
    BY <1>3, <2>1 DEF RefInv, ItemsInv
<1>9. SentInv'
  <2> SUFFICES ASSUME NEW d \in Clients, NEW i \in 1..Len(sent'[d])
               PROVE  Good(sent'[d][i].node, sent'[d][i].value)
    BY DEF SentInv
  <2>1. \/ sent'[d] = sent[d] \/ sent'[d] = <<>>
        \/ d = c /\ sent'[d] = Tail(sent[c])
    BY <1>2 DEF RefInv, Shape
  <2>2. CASE sent'[d] = sent[d]
    BY <2>2 DEF RefInv, SentInv
  <2>3. CASE d = c /\ sent'[d] = Tail(sent[c])
    BY <1>1, <2>3, TailOfSent
  <2>4. CASE sent'[d] = <<>>
    BY <2>4
  <2> QED
    BY <2>1, <2>2, <2>3, <2>4
<1>10. \A d \in Clients : ClientOK(pc'[d], call'[d], refs'[d], out'[d])
  BY <1>1 DEF RefInv, localVars
<1> QED
  BY <1>7, <1>8, <1>9, <1>10 DEF RefInv

LEMMA ClientStepInv ==
    ASSUME RefInv, NEW c \in Clients, ClientStep(c)
    PROVE  RefInv'
BY AddParentRefsInv, AddParentTypeInv, AddChildRefsInv, AddChildTypeInv, RemoveInv,
   MetaQueryInv, MetaRefsInv, OverwriteInv, OverwriteEndInv, MetaPublishInv, PublishInv,
   PublicationEndInv, Zenon
   DEF ClientStep

LEMMA RefInvNext == RefInv /\ [RefNext]_refVars => RefInv'
<1> SUFFICES ASSUME RefInv, [RefNext]_refVars PROVE RefInv'
  OBVIOUS
<1>1. CASE RefNext
  <2>1. PICK c \in Clients : \/ \E r \in Calls : NewCall(c, r)
                             \/ ClientStep(c)
                             \/ Store(c)
                             \/ NetworkFails(c)
    BY <1>1 DEF RefNext
  <2> QED
    BY <2>1, NewCallInv, ClientStepInv, ServerInv
<1>2. CASE UNCHANGED refVars
  BY <1>2 DEF RefInv, Shape, ItemsInv, SentInv, refVars, itemVars, localVars
<1> QED
  BY <1>1, <1>2

LEMMA RefInvCorrect == RefSpec => []RefInv
BY RefInvInit, RefInvNext, PTL DEF RefSpec

-----------------------------------------------------------------------------
\* The type invariant, for every instance: reference lists go to "references"
\* items and meta types to "meta" items in every operation of mio.c on them.
THEOREM RefTypeCorrect == RefSpec => []RefTypeOK
<1>1. RefInv => RefTypeOK
  <2> SUFFICES ASSUME RefInv PROVE RefTypeOK
    OBVIOUS
  <2>1. DOMAIN item = Nodes /\ \A n \in Nodes : ItemOK(n, item[n])
    BY DEF RefInv, Shape, ItemsInv, Good
  <2>2. ASSUME NEW c \in Clients, NEW i \in 1..Len(sent[c]) PROVE PublicationOK(sent[c][i])
    <3>1. sent[c][i] \in Publication
      BY DEF RefInv, Shape
    <3> QED
      BY <3>1 DEF RefInv, SentInv, Good, PublicationOK, Publication
  <2>3. ASSUME NEW c \in Clients
        PROVE  /\ pc[c] # "idle" => call[c] \in Calls
               /\ pc[c] \in {"publish", "await"} =>
                     PublicationOK(out[c]) /\ out[c].then \in Steps \cup {"return"}
    BY ClientFacts DEF ClientOK, PublicationOK, Outgoing, Good
  <2> QED
    BY <2>1, <2>2, <2>3, ClientFacts DEF RefTypeOK, RefInv, Shape
<1> QED
  BY <1>1, RefInvCorrect, PTL

\* The checks of mio_reference_child_add and the removals of
\* mio_reference_remove keep every reference list free of double entries.
THEOREM OneEntryCorrect == RefSpec => []OneEntryPerNode
<1>1. RefInv => OneEntryPerNode
  BY ItemValues DEF RefInv, OneEntryPerNode
<1> QED
  BY <1>1, RefInvCorrect, PTL

-----------------------------------------------------------------------------
(***************************************************************************)
(* Every call ends: each of its steps brings it nearer to its end.         *)
(***************************************************************************)

\* Rank of a client: what CallsGetOn compares.
Nearer(p, o, list, q, oo, ll) ==
    \/ PartLeft(q, oo) < PartLeft(p, o)
    \/ PartLeft(q, oo) = PartLeft(p, o) /\ WithinPart(q, ll) < WithinPart(p, list)

LEMMA PartValues ==
    /\ Part["add_parent_refs"] = 5 /\ Part["add_parent_type"] = 4
    /\ Part["add_child_refs"] = 3 /\ Part["add_child_type"] = 2
    /\ Part["remove_child_refs"] = 3 /\ Part["remove_parent_refs"] = 2
    /\ Part["meta"] = 5 /\ Part["meta_refs"] = 4 /\ Part["overwrite"] = 3
    /\ Part["meta_publish"] = 2 /\ Part["return"] = 1
    /\ Part["idle"] = 0 /\ Part["crashed"] = 0
BY DEF Part

\* The call returns, or moves on to a later part.
LEMMA LaterPart ==
    ASSUME NEW p \in Steps, NEW o, NEW list, NEW q \in Steps, NEW oo, NEW ll,
           Part[After(q, oo)] < Part[After(p, o)]
    PROVE  Nearer(p, o, list, q, oo, ll)
BY DEF Nearer, PartLeft, After

LEMMA ReturnIsNearer ==
    ASSUME RefInv, NEW c \in Clients, NEW code, Return(c, code),
           pc[c] # "idle", After(pc[c], out[c]) # "crashed"
    PROVE  Nearer(pc[c], out[c], todo[c], pc'[c], out'[c], todo'[c])
<1>1. pc'[c] = "idle"
  BY DEF RefInv, Shape, Return, Goto
<1>2. After(pc[c], out[c]) \in StepsOf(call[c]) /\ call[c] \in Calls
  BY ClientFacts DEF ClientOK
<1>3. call[c].op \in {"add", "remove", "merge", "retract"}
  BY <1>2, CallFacts
<1>4. Part[After(pc[c], out[c])] > 0
  BY <1>2, <1>3, PartValues DEF StepsOf
<1>5. Part[After(pc'[c], out'[c])] = 0
  BY <1>1, PartValues DEF After
<1>6. pc[c] \in Steps /\ pc'[c] \in Steps
  BY <1>1, ClientFacts DEF Steps
<1>7. Part[After(pc'[c], out'[c])] < Part[After(pc[c], out[c])]
  BY <1>4, <1>5
<1> QED
  BY <1>6, <1>7, LaterPart

\* A step to a query, or to a publication, that belongs to a later part.
LEMMA GotoIsNearer ==
    ASSUME RefInv, NEW c \in Clients, NEW step \in Steps \ {"publish", "await"}, Goto(c, step),
           pc[c] \notin {"publish", "await"}, Part[step] < Part[pc[c]]
    PROVE  Nearer(pc[c], out[c], todo[c], pc'[c], out'[c], todo'[c])
<1>1. pc'[c] = step /\ pc[c] \in Steps
  BY DEF RefInv, Shape, Goto
<1>2. After(pc'[c], out'[c]) = step /\ After(pc[c], out[c]) = pc[c]
  BY <1>1 DEF After
<1> QED
  BY <1>1, <1>2, LaterPart

LEMMA PublishIsNearer ==
    ASSUME RefInv, NEW c \in Clients, NEW n, NEW v, NEW then, GoPublish(c, n, v, then),
           pc[c] \notin {"publish", "await"}, Part[then] < Part[pc[c]]
    PROVE  Nearer(pc[c], out[c], todo[c], pc'[c], out'[c], todo'[c])
<1>1. pc'[c] = "publish" /\ out'[c].then = then /\ pc[c] \in Steps
  BY DEF RefInv, Shape, Goto, GoPublish
<1>2. After(pc'[c], out'[c]) = then /\ After(pc[c], out[c]) = pc[c]
  BY <1>1 DEF After
<1>3. pc'[c] \in Steps
  BY <1>1 DEF Steps
<1> QED
  BY <1>1, <1>2, <1>3, LaterPart

\* The same part, one step further or one reference less.
LEMMA SamePart ==
    ASSUME NEW p \in Steps, NEW o, NEW list \in Seq(Reference), NEW q \in Steps, NEW oo,
           NEW ll \in Seq(Reference), PartLeft(q, oo) = PartLeft(p, o),
           \/ p = "publish" /\ q = "await" /\ ll = list
           \/ p \in {"publish", "await"} /\ q \notin {"publish", "await"} /\ ll = list
           \/ p \notin {"publish", "await"} /\ q \notin {"await"} /\ Len(ll) = Len(list) - 1
    PROVE  Nearer(p, o, list, q, oo, ll)
<1>1. Len(list) \in Nat /\ Len(ll) \in Nat
  OBVIOUS
<1>2. WithinPart(q, ll) < WithinPart(p, list)
  <2>1. /\ WithinPart("publish", list) = 3 * Len(list) + 2
        /\ WithinPart("await", list) = 3 * Len(list) + 1
        /\ p \notin {"publish", "await"} => WithinPart(p, list) = 3 * Len(list)
    BY DEF WithinPart
  <2>2. /\ WithinPart("publish", ll) = 3 * Len(ll) + 2
        /\ WithinPart("await", ll) = 3 * Len(ll) + 1
        /\ q \notin {"publish", "await"} => WithinPart(q, ll) = 3 * Len(ll)
    BY DEF WithinPart
  <2> QED
    BY <1>1, <2>1, <2>2
<1> QED
  BY <1>2 DEF Nearer

LEMMA AddIsNearer ==
    ASSUME RefInv, NEW c \in Clients,
           AddParentRefs(c) \/ AddParentType(c) \/ AddChildRefs(c) \/ AddChildType(c)
    PROVE  Nearer(pc[c], out[c], todo[c], pc'[c], out'[c], todo'[c])
<1>0. /\ "add_parent_type" \in Steps /\ "add_child_refs" \in Steps /\ "add_child_type" \in Steps
  BY DEF Steps
<1>1. CASE AddParentRefs(c)
  <2>1. pc[c] = "add_parent_refs"
    BY <1>1 DEF AddParentRefs, Answered, Unanswered
  <2>2. \/ \E code : Return(c, code)
        \/ Goto(c, "add_parent_type") \/ Goto(c, "add_child_type")
    BY <1>1 DEF AddParentRefs, AfterParentRefs
  <2> QED
    BY <1>0, <2>1, <2>2, ReturnIsNearer, GotoIsNearer, PartValues DEF After
<1>2. CASE AddParentType(c)
  <2>1. pc[c] = "add_parent_type" /\ Goto(c, "add_child_refs")
    BY <1>2 DEF AddParentType, Answered, Unanswered
  <2> QED
    BY <1>0, <2>1, GotoIsNearer, PartValues
<1>3. CASE AddChildRefs(c)
  <2>1. pc[c] = "add_child_refs"
    BY <1>3 DEF AddChildRefs, Answered, Unanswered
  <2>2. \/ \E code : Return(c, code)
        \/ \E n, v : GoPublish(c, n, v, "add_child_type")
    BY <1>3 DEF AddChildRefs
  <2> QED
    BY <2>1, <2>2, ReturnIsNearer, PublishIsNearer, PartValues DEF After
<1>4. CASE AddChildType(c)
  <2>1. pc[c] = "add_child_type" /\ \E n, v : GoPublish(c, n, v, "return")
    BY <1>4 DEF AddChildType, Answered, Unanswered
  <2> QED
    BY <2>1, PublishIsNearer, PartValues
<1> QED
  BY <1>1, <1>2, <1>3, <1>4

LEMMA RemoveIsNearer ==
    ASSUME RefInv, NEW c \in Clients, RemoveChildRefs(c) \/ RemoveParentRefs(c)
    PROVE  Nearer(pc[c], out[c], todo[c], pc'[c], out'[c], todo'[c])
<1>1. CASE RemoveChildRefs(c)
  <2>1. /\ pc[c] = "remove_child_refs"
        /\ \/ \E n, v : GoPublish(c, n, v, "remove_parent_refs")
           \/ Goto(c, "remove_parent_refs")
    BY <1>1 DEF RemoveChildRefs, RemoveAt, Answered, Unanswered
  <2>2. "remove_parent_refs" \in Steps
    BY DEF Steps
  <2> QED
    BY <2>1, <2>2, PublishIsNearer, GotoIsNearer, PartValues
<1>2. CASE RemoveParentRefs(c)
  <2>1. /\ pc[c] = "remove_parent_refs"
        /\ \/ \E n, v : GoPublish(c, n, v, "return")
           \/ Return(c, err[c])
    BY <1>2 DEF RemoveParentRefs, RemoveAt, Answered, Unanswered
  <2> QED
    BY <2>1, PublishIsNearer, ReturnIsNearer, PartValues DEF After
<1> QED
  BY <1>1, <1>2

LEMMA MetaIsNearer ==
    ASSUME RefInv, NEW c \in Clients,
           MetaQuery(c) \/ MetaRefs(c) \/ OverwriteEnd(c) \/ MetaPublish(c)
    PROVE  Nearer(pc[c], out[c], todo[c], pc'[c], out'[c], todo'[c])
<1>0. /\ "meta_publish" \in Steps /\ "meta_refs" \in Steps /\ "overwrite" \in Steps
      /\ "crashed" \in Steps
  BY DEF Steps
<1>1. CASE MetaQuery(c)
  <2>1. /\ pc[c] = "meta"
        /\ \/ Goto(c, "meta_publish") \/ Goto(c, "meta_refs")
           \/ \E n, v : GoPublish(c, n, v, "meta_refs")
           \/ \E code : Return(c, code)
    BY <1>1 DEF MetaQuery, Answered, Unanswered
  <2> QED
    BY <1>0, <2>1, GotoIsNearer, PublishIsNearer, ReturnIsNearer, PartValues DEF After
<1>2. CASE MetaRefs(c)
  <2>1. pc[c] = "meta_refs" /\ Goto(c, "overwrite")
    BY <1>2 DEF MetaRefs, Answered, Unanswered
  <2> QED
    BY <1>0, <2>1, GotoIsNearer, PartValues
<1>3. CASE OverwriteEnd(c)
  <2>1. pc[c] = "overwrite" /\ (Goto(c, "meta_publish") \/ Return(c, err[c]))
    BY <1>3 DEF OverwriteEnd
  <2> QED
    BY <1>0, <2>1, GotoIsNearer, ReturnIsNearer, PartValues DEF After
<1>4. CASE MetaPublish(c)
  <2>1. /\ pc[c] = "meta_publish"
        /\ \/ \E n, v : GoPublish(c, n, v, "return")
           \/ Goto(c, "crashed")
           \/ \E code : Return(c, code)
    BY <1>4 DEF MetaPublish
  <2> QED
    BY <1>0, <2>1, GotoIsNearer, PublishIsNearer, ReturnIsNearer, PartValues DEF After
<1> QED
  BY <1>1, <1>2, <1>3, <1>4

LEMMA OverwriteIsNearer ==
    ASSUME RefInv, NEW c \in Clients, Overwrite(c)
    PROVE  Nearer(pc[c], out[c], todo[c], pc'[c], out'[c], todo'[c])
<1>1. pc[c] = "overwrite" /\ todo[c] # <<>> /\ todo' = [todo EXCEPT ![c] = Tail(@)]
  BY DEF Overwrite, Answered, Unanswered
<1>2. todo[c] \in Seq(Reference) /\ todo'[c] = Tail(todo[c])
  BY <1>1 DEF RefInv, Shape
<1>3. todo'[c] \in Seq(Reference) /\ Len(todo'[c]) = Len(todo[c]) - 1
  <2>1. \A s \in Seq(Reference) : s # <<>> => /\ Tail(s) \in Seq(Reference)
                                              /\ Len(Tail(s)) = Len(s) - 1
    OBVIOUS
  <2> QED
    BY <1>1, <1>2, <2>1
<1>4. \/ \E n, v : GoPublish(c, n, v, "overwrite")
      \/ UNCHANGED <<pc, out>>
  BY DEF Overwrite
<1>5. \/ pc'[c] = "publish" /\ out'[c].then = "overwrite"
      \/ pc'[c] = "overwrite"
  BY <1>1, <1>4 DEF RefInv, Shape, GoPublish, Goto
<1>6. PartLeft(pc'[c], out'[c]) = PartLeft(pc[c], out[c])
  BY <1>1, <1>5 DEF PartLeft
<1>7. pc[c] \in Steps /\ pc'[c] \in Steps /\ pc'[c] # "await"
  BY <1>1, <1>5 DEF Steps
<1> QED
  BY <1>1, <1>2, <1>3, <1>6, <1>7, SamePart

LEMMA PublicationIsNearer ==
    ASSUME RefInv, NEW c \in Clients,
           Publish(c) \/ PublishDisconnected(c) \/ PublishAnswered(c) \/ PublishTimeout(c)
    PROVE  Nearer(pc[c], out[c], todo[c], pc'[c], out'[c], todo'[c])
<1>1. todo[c] \in Seq(Reference)
  BY DEF RefInv, Shape
<1>2. CASE Publish(c)
  <2>1. pc[c] = "publish" /\ pc'[c] = "await" /\ UNCHANGED <<todo, out>>
    BY <1>2 DEF RefInv, Shape, Publish, Goto, localVars
  <2>2. PartLeft(pc'[c], out'[c]) = PartLeft(pc[c], out[c])
    BY <2>1 DEF PartLeft
  <2>3. pc[c] \in Steps /\ pc'[c] \in Steps
    BY <2>1 DEF Steps
  <2> QED
    BY <1>1, <2>1, <2>2, <2>3, SamePart
<1>3. CASE PublishDisconnected(c) \/ PublishAnswered(c) \/ PublishTimeout(c)
  <2>1. pc[c] \in {"publish", "await"} /\ \E result : Published(c, result)
    BY <1>3 DEF PublishDisconnected, PublishAnswered, PublishTimeout
  <2>2. After(pc[c], out[c]) = out[c].then
    BY <2>1 DEF After
  <2>3. CASE out[c].then = "return"
    <3>1. \E code : Return(c, code)
      BY <2>1, <2>3 DEF Published
    <3> QED
      BY <2>1, <2>2, <2>3, <3>1, ReturnIsNearer
  <2>4. CASE out[c].then # "return"
    <3>1. Goto(c, out[c].then) /\ UNCHANGED todo
      BY <2>1, <2>4 DEF Published
    <3>2. pc'[c] = out[c].then
      BY <3>1 DEF RefInv, Shape, Goto
    <3>3. out[c].then \in Steps \ {"publish", "await"}
      <4>1. call[c] \in Calls /\ out[c].then \in StepsOf(call[c])
        BY <2>1, <2>2, ClientFacts DEF ClientOK
      <4>2. call[c].op \in {"add", "remove", "merge", "retract"}
        BY <4>1, CallFacts
      <4> QED
        BY <2>4, <4>1, <4>2 DEF StepsOf, Steps
    <3>4. PartLeft(pc'[c], out'[c]) = PartLeft(pc[c], out[c])
      BY <2>1, <3>2, <3>3 DEF PartLeft
    <3>5. pc[c] \in Steps
      BY ClientFacts
    <3> QED
      BY <1>1, <2>1, <3>1, <3>2, <3>3, <3>4, <3>5, SamePart
  <2> QED
    BY <2>3, <2>4
<1> QED
  BY <1>2, <1>3

\* No operation on references and meta data goes round for ever: whatever is
\* lost, refused or changed by others, every step decreases the rank.
THEOREM CallsGetOnCorrect == RefSpec => CallsGetOn
<1>1. ASSUME RefInv, NEW c \in Clients, ClientStep(c)
      PROVE  Nearer(pc[c], out[c], todo[c], pc'[c], out'[c], todo'[c])
  BY <1>1, AddIsNearer, RemoveIsNearer, MetaIsNearer, OverwriteIsNearer, PublicationIsNearer,
     Zenon
     DEF ClientStep
<1>2. RefInv /\ [RefNext]_refVars =>
         [\A c \in Clients :
             ClientStep(c) =>
                 \/ PartLeft(pc'[c], out'[c]) < PartLeft(pc[c], out[c])
                 \/ /\ PartLeft(pc'[c], out'[c]) = PartLeft(pc[c], out[c])
                    /\ WithinPart(pc'[c], todo'[c]) < WithinPart(pc[c], todo[c])]_refVars
  BY <1>1 DEF Nearer
<1> QED
  BY <1>2, RefInvCorrect, PTL DEF RefSpec, CallsGetOn

-----------------------------------------------------------------------------
(***************************************************************************)
(* What a call has done so far when nothing has disturbed it.              *)
(***************************************************************************)

\* Items as they were when the call began.
Snapshot(s) == s \in [Nodes -> Value] /\ \A n \in Nodes : Good(n, s[n])

AtChild(r, s) ==
    Append(s[Refs(r.child)], NewReference("parent", s[Meta(r.parent)], r.parent))

\* What a removal and a change of the type do, with the exceptions of the code
\* in their places: a removal of references that are there, and the nodes that
\* are told of a new type, those with other references.
RemovedIfThere(r, old, new) == BothEndsThere(r, old) => Removed(r, old, new)

ToldInFact(r, old, m, e) == Told(r, old, m, e) /\ Len(old[Refs(m)]) > 1

EntriesInFact(r, old, m) ==
    {IF ToldInFact(r, old, m, e) THEN [e EXCEPT !.meta = NewType(r)] ELSE e :
        e \in Entries(old[Refs(m)])}

RetypedInFact(r, old, new) ==
    GivesType(r) =>
        \A m \in EventNodes :
            /\ new[Meta(m)] = IF m = r.node THEN NewType(r) ELSE old[Meta(m)]
            /\ Entries(new[Refs(m)]) = EntriesInFact(r, old, m)

\* If no node has only the reference in question, all are told.
LEMMA AllTold ==
    ASSUME NEW r, NEW old, NEW new, RetypedInFact(r, old, new), GivesType(r),
           NoLoneReference(r, old)
    PROVE  Retyped(r, old, new)
<1>1. ASSUME NEW m \in EventNodes PROVE EntriesInFact(r, old, m) = EntriesTold(r, old, m)
  <2>1. \A e \in Entries(old[Refs(m)]) : ToldInFact(r, old, m, e) <=> Told(r, old, m, e)
    BY DEF ToldInFact, NoLoneReference
  <2> QED
    BY <2>1 DEF EntriesInFact, EntriesTold
<1> QED
  BY <1>1 DEF RetypedInFact, Retyped

\* The items `it' when an addition that began with items s has got to a step.
AddReached(r, s, it, step, list, ty) ==
    /\ step \in {"add_parent_refs", "add_parent_type", "add_child_refs"} => it = s
    /\ step \in {"add_parent_type", "add_child_refs"} => r.at_child
    /\ step \in {"add_parent_type", "add_child_refs", "add_child_type"} =>
          list = s[Refs(r.parent)] /\ Mentions(s[Refs(r.parent)], r.child) = {}
    /\ step = "add_child_refs" => ty = s[Meta(r.parent)]
    /\ step = "add_child_type" /\ r.at_child =>
          /\ Mentions(s[Refs(r.child)], r.parent) = {}
          /\ it = [s EXCEPT ![Refs(r.child)] = AtChild(r, s)]
    /\ step = "add_child_type" /\ ~r.at_child => it = s
    /\ step = "return" => Added(r, s, it)

\* The same for a removal.
RemoveReached(r, s, it, step) ==
    /\ step = "remove_child_refs" => it = s
    /\ step = "remove_parent_refs" =>
          it = [s EXCEPT ![Refs(r.child)] =
                    ReferenceRemove(s[Refs(r.child)], "parent", r.parent)]
    /\ step = "return" => RemovedIfThere(r, s, it)

\* The same for a change of the type: in the loop, the nodes that are left have
\* not been told, the others have.
TypesKept(r, s, it) ==
    \A m \in EventNodes :
        it[Meta(m)] = IF m = r.node /\ r.op = "retract" THEN "unknown" ELSE s[Meta(m)]

LoopReached(r, s, it, rest) ==
    /\ Distinct(rest)
    /\ \A e \in Entries(rest) : e \in Entries(s[Refs(r.node)])
    /\ \A m \in EventNodes :
          IF Mentions(rest, m) # {} THEN it[Refs(m)] = s[Refs(m)]
          ELSE Entries(it[Refs(m)]) = EntriesInFact(r, s, m)

TypeReached(r, s, it, step, rest) ==
    /\ step = "meta" => it = s
    /\ step \in {"meta_refs", "overwrite", "meta_publish"} => TypesKept(r, s, it)
    /\ step \in {"meta_refs", "overwrite"} => r.op = "retract" \/ s[Meta(r.node)] # NewType(r)
    /\ step = "meta_refs" => \A m \in EventNodes : it[Refs(m)] = s[Refs(m)]
    /\ step = "overwrite" => LoopReached(r, s, it, rest)
    /\ step = "meta_publish" =>
          \A m \in EventNodes : Entries(it[Refs(m)]) = EntriesInFact(r, s, m)
    /\ step = "return" => RetypedInFact(r, s, it)

Reached(r, s, it, step, list, ty, rest) ==
    /\ r.op = "add" => AddReached(r, s, it, step, list, ty)
    /\ r.op = "remove" => RemoveReached(r, s, it, step)
    /\ r.op \in {"merge", "retract"} /\ GivesType(r) => TypeReached(r, s, it, step, rest)

\* A client that publishes is where it will be once the server has stored it.
Landed(it, o) == [it EXCEPT ![o.node] = o.value]

OnTheWay(it, s, r, list, ty, rest, o, mine, ans) ==
    \/ /\ Len(mine) = 1 /\ mine[1].node = o.node /\ mine[1].value = o.value
       /\ ans = "none"
       /\ Reached(r, s, Landed(it, o), o.then, list, ty, rest)
    \/ mine = <<>> /\ ans = "ok" /\ Reached(r, s, it, o.then, list, ty, rest)
    \/ mine = <<>> /\ ans # "ok"

Exact(it, s, step, r, list, ty, rest, o, mine, ans) ==
    /\ Snapshot(s)
    /\ step # "await" => mine = <<>>
    /\ step \notin {"publish", "await"} => Reached(r, s, it, step, list, ty, rest)
    /\ step = "publish" => Reached(r, s, Landed(it, o), o.then, list, ty, rest)
    /\ step = "await" => OnTheWay(it, s, r, list, ty, rest, o, mine, ans)

ClientExact(c) ==
    pc[c] \notin {"idle", "crashed"} /\ start[c] # NULL =>
        Exact(item, start[c], pc[c], call[c], refs[c], type[c], todo[c], out[c], sent[c],
              answer[c])

ExactInv ==
    /\ start = [c \in Clients |-> start[c]]
    /\ \A c \in Clients : ClientExact(c)

\* Different items have different names.
LEMMA NamesDiffer ==
    ASSUME NEW n \in EventNodes, NEW m \in EventNodes
    PROVE  /\ Refs(n) = Refs(m) <=> n = m
           /\ Meta(n) = Meta(m) <=> n = m
           /\ Refs(n) # Meta(m)
BY DEF Refs, Meta

LEMMA SnapshotValues ==
    ASSUME NEW s, Snapshot(s), NEW n \in EventNodes
    PROVE  /\ s[Refs(n)] \in Seq(Reference) /\ Distinct(s[Refs(n)])
           /\ s[Meta(n)] \in MetaTypes
BY ItemNames DEF Snapshot, Good, ItemOK

\* mio_reference_remove cuts out a reference that is there.
LEMMA RemoveCuts ==
    ASSUME NEW list \in Seq(Reference), Distinct(list), NEW t, NEW n, Found(list, t, n) # {}
    PROVE  /\ Cut(list, ReferenceRemove(list, t, n), t, n)
           /\ \E k \in Found(list, t, n) : ReferenceRemove(list, t, n) = Without(list, k)
<1> DEFINE k == First(Found(list, t, n))
<1>1. Found(list, t, n) \in SUBSET Nat
  BY DEF Found, Mentions
<1>2. k \in Found(list, t, n)
  BY <1>1, FirstIsMember
<1>3. k \in 1..Len(list) /\ list[k].node = n
  BY <1>2 DEF Found, Mentions
<1>4. ReferenceRemove(list, t, n) = Without(list, k)
  BY DEF ReferenceRemove
<1>5. Found(Without(list, k), t, n) = {}
  BY <1>3, WithoutFacts DEF Found
<1> HIDE DEF k
<1>6. /\ Len(Without(list, k)) = Len(list) - 1
      /\ \A i \in 1..Len(Without(list, k)) :
            Without(list, k)[i] = list[IF i < k THEN i ELSE i + 1]
  BY <1>3, WithoutFacts
<1> QED
  BY <1>2, <1>4, <1>5, <1>6 DEF Cut

\* Nodes that have nothing to be told keep their references.
LEMMA NothingToTell ==
    ASSUME NEW r, NEW s, NEW m, \A e \in Entries(s[Refs(m)]) : ~ToldInFact(r, s, m, e)
    PROVE  EntriesInFact(r, s, m) = Entries(s[Refs(m)])
BY DEF EntriesInFact

LEMMA NotMentioned ==
    ASSUME NEW r, NEW s, NEW m, Mentions(s[Refs(r.node)], m) = {}
    PROVE  EntriesInFact(r, s, m) = Entries(s[Refs(m)])
<1>1. \A e \in Entries(s[Refs(m)]) : ~ToldInFact(r, s, m, e)
  BY DEF ToldInFact, Told, Linked, Found
<1> QED
  BY <1>1, NothingToTell

\* One round of the loop tells one node.
LEMMA RoundTells ==
    ASSUME NEW r, r.node \in EventNodes, NewType(r) \in MetaTypes, NEW s, Snapshot(s),
           r.op = "retract" \/ s[Meta(r.node)] # NewType(r),
           NEW e \in Entries(s[Refs(r.node)])
    PROVE  LET m == e.node
               t == Opposite(e.type)
               rest == ReferenceRemove(s[Refs(m)], t, r.node)
               new == Append(rest, NewReference(t, NewType(r), r.node))
           IN  /\ rest = <<>> => Entries(s[Refs(m)]) = EntriesInFact(r, s, m)
               /\ rest # <<>> => Entries(new) = EntriesInFact(r, s, m)
<1> DEFINE n == r.node
           m == e.node
           t == Opposite(e.type)
           here == s[Refs(n)]
           list == s[Refs(m)]
           rest == ReferenceRemove(list, t, n)
           nr == NewReference(t, NewType(r), n)
           new == Append(rest, nr)
<1>1. here \in Seq(Reference) /\ Distinct(here)
  BY SnapshotValues
<1>2. PICK j \in 1..Len(here) : e = here[j]
  BY DEF Entries
<1>3. e \in Reference
  BY <1>1, <1>2
<1>4. m \in EventNodes /\ e.type \in {"child", "parent"} /\ t \in {"child", "parent"}
  BY <1>3 DEF Reference, Opposite
<1>5. list \in Seq(Reference) /\ Distinct(list)
  BY <1>4, SnapshotValues
<1>6. ASSUME NEW x \in Entries(list), ToldInFact(r, s, m, x)
      PROVE  /\ x.node = n /\ x.type = t /\ Found(list, t, n) # {} /\ Len(list) > 1
  <2>1. x.node = n /\ Linked(s, n, m, x.type) /\ Len(list) > 1
    BY <1>6 DEF ToldInFact, Told
  <2>2. PICK i \in Found(here, Opposite(x.type), m) : TRUE
    BY <2>1 DEF Linked
  <2>3. i \in 1..Len(here) /\ here[i].node = m /\ here[i].type = Opposite(x.type)
    BY <2>2 DEF Found, Mentions
  <2>4. i = j
    BY <1>1, <1>2, <2>3 DEF Distinct, NodeOf
  <2>5. x \in Reference
    BY <1>5 DEF Entries
  <2>6. x.type = t
    BY <1>2, <2>3, <2>4, <2>5 DEF Opposite, Reference
  <2> QED
    BY <2>1, <2>6 DEF Linked
<1>7. CASE Found(list, t, n) = {}
  <2>1. rest = <<>>
    BY <1>7 DEF ReferenceRemove
  <2>2. \A x \in Entries(list) : ~ToldInFact(r, s, m, x)
    BY <1>6, <1>7
  <2> QED
    BY <2>1, <2>2, NothingToTell
<1>8. CASE Found(list, t, n) # {}
  <2>1. PICK k \in Found(list, t, n) : rest = Without(list, k)
    BY <1>5, <1>8, RemoveCuts
  <2>2. k \in 1..Len(list) /\ list[k].node = n /\ list[k].type = t
    BY <2>1 DEF Found, Mentions
  <2>3. /\ rest \in Seq(Reference) /\ Len(rest) = Len(list) - 1
        /\ \A i \in 1..Len(rest) : rest[i] = list[IF i < k THEN i ELSE i + 1]
    <3> HIDE DEF list, rest
    <3>1. /\ Without(list, k) \in Seq(Reference) /\ Len(Without(list, k)) = Len(list) - 1
          /\ \A i \in 1..Len(Without(list, k)) :
                Without(list, k)[i] = list[IF i < k THEN i ELSE i + 1]
      BY <1>5, <2>2, WithoutFacts
    <3> QED
      BY <2>1, <3>1
  <2>4. Len(list) \in Nat
    BY <1>5
  <2>5. \A i \in 1..Len(list) : i # k => list[i].node # n
    BY <1>5, <2>2 DEF Distinct, NodeOf
  <2> HIDE DEF rest
  <2>0. rest = <<>> <=> ~(Len(list) > 1)
    <3>1. \A x \in Seq(Reference) : x = <<>> <=> Len(x) = 0
      OBVIOUS
    <3>2. rest = <<>> <=> Len(rest) = 0
      BY <2>3, <3>1
    <3>3. \A a, b \in Nat : a = b - 1 => (a = 0 <=> ~(b > 1))
      OBVIOUS
    <3>4. Len(rest) \in Nat /\ Len(list) \in Nat /\ Len(rest) = Len(list) - 1
      BY <2>3, <2>4
    <3> HIDE DEF list
    <3> QED
      BY <3>2, <3>3, <3>4
  <2>6. CASE rest = <<>>
    <3>1. ~(Len(list) > 1)
      BY <2>0, <2>6
    <3>2. \A x \in Entries(list) : ~ToldInFact(r, s, m, x)
      BY <1>6, <3>1
    <3> QED
      BY <2>6, <3>2, NothingToTell DEF rest
  <2>7. CASE rest # <<>>
    <3>1. Len(list) > 1
      BY <2>0, <2>7
    <3>2. ToldInFact(r, s, m, list[k])
      <4>1. Opposite(t) = e.type
        BY <1>4 DEF Opposite
      <4>2. j \in Found(here, Opposite(t), m)
        BY <1>2, <4>1 DEF Found, Mentions
      <4>3. Linked(s, n, m, t)
        BY <1>8, <4>2 DEF Linked
      <4> QED
        BY <2>2, <3>1, <4>3 DEF ToldInFact, Told
    <3>3. \A i \in 1..Len(list) : i # k => ~ToldInFact(r, s, m, list[i])
      BY <2>5 DEF ToldInFact, Told
    <3>4. nr \in Reference /\ list[k] \in Reference /\ [list[k] EXCEPT !.meta = NewType(r)] = nr
      <4>1. list[k] \in Reference
        BY <1>5, <2>2
      <4>2. nr \in Reference
        BY <1>4, NewReferenceType
      <4> QED
        BY <2>2, <4>1, <4>2 DEF NewReference, Reference
    <3>5. /\ Len(new) = Len(list) /\ new[Len(list)] = nr
          /\ \A i \in 1..Len(rest) : new[i] = rest[i]
      BY <2>3, <2>4, <3>4
    <3> HIDE DEF new, nr
    <3>6. Entries(new) = {list[i] : i \in 1..Len(list) \ {k}} \cup {nr}
      <4>1. ASSUME NEW x \in Entries(new)
            PROVE  x \in {list[i] : i \in 1..Len(list) \ {k}} \cup {nr}
        <5>1. PICK i \in 1..Len(new) : x = new[i]
          BY DEF Entries
        <5>2. CASE i = Len(list)
          BY <3>5, <5>1, <5>2
        <5>3. CASE i # Len(list)
          <6>1. i \in 1..Len(rest)
            BY <2>3, <2>4, <3>5, <5>3
          <6>2. x = list[IF i < k THEN i ELSE i + 1]
            BY <2>3, <3>5, <5>1, <6>1
          <6>3. (IF i < k THEN i ELSE i + 1) \in 1..Len(list) \ {k}
            BY <2>2, <2>3, <2>4, <6>1
          <6> QED
            BY <6>2, <6>3
        <5> QED
          BY <5>2, <5>3
      <4>2. ASSUME NEW i \in 1..Len(list) \ {k} PROVE list[i] \in Entries(new)
        <5> DEFINE h == IF i < k THEN i ELSE i - 1
        <5>1. h \in 1..Len(rest) /\ i = (IF h < k THEN h ELSE h + 1)
          BY <2>2, <2>3, <2>4
        <5> HIDE DEF h
        <5>2. rest[h] = list[i]
          BY <2>3, <5>1
        <5>3. h \in 1..Len(new) /\ new[h] = list[i]
          BY <2>3, <2>4, <3>5, <5>1, <5>2
        <5> QED
          BY <5>3 DEF Entries
      <4>3. nr \in Entries(new)
        <5>1. Len(list) \in 1..Len(new)
          BY <2>4, <3>1, <3>5
        <5> QED
          BY <3>5, <5>1 DEF Entries
      <4> QED
        BY <4>1, <4>2, <4>3
    <3>7. EntriesInFact(r, s, m) = {list[i] : i \in 1..Len(list) \ {k}} \cup {nr}
      <4>1. ASSUME NEW x \in EntriesInFact(r, s, m)
            PROVE  x \in {list[i] : i \in 1..Len(list) \ {k}} \cup {nr}
        <5>1. PICK i \in 1..Len(list) :
                  x = IF ToldInFact(r, s, m, list[i]) THEN [list[i] EXCEPT !.meta = NewType(r)]
                      ELSE list[i]
          BY DEF EntriesInFact, Entries
        <5> QED
          BY <3>2, <3>3, <3>4, <5>1
      <4>2. ASSUME NEW i \in 1..Len(list) \ {k} PROVE list[i] \in EntriesInFact(r, s, m)
        <5>1. list[i] \in Entries(list) /\ ~ToldInFact(r, s, m, list[i])
          BY <3>3 DEF Entries
        <5> QED
          BY <5>1 DEF EntriesInFact
      <4>3. nr \in EntriesInFact(r, s, m)
        <5>1. list[k] \in Entries(list)
          BY <2>2 DEF Entries
        <5> QED
          BY <3>2, <3>4, <5>1 DEF EntriesInFact
      <4> QED
        BY <4>1, <4>2, <4>3
    <3> QED
      BY <2>7, <3>6, <3>7 DEF rest, new, nr
  <2> QED
    BY <2>6, <2>7
<1> QED
  BY <1>7, <1>8

-----------------------------------------------------------------------------
(***************************************************************************)
(* Undisturbed steps of the calls.                                         *)
(***************************************************************************)

\* What the property says of a call that returns.
Finished(r, s, it) ==
    \/ r.op = "add" /\ Added(r, s, it)
    \/ r.op = "remove" /\ RemovedIfThere(r, s, it)
    \/ r.op \in {"merge", "retract"} /\ RetypedInFact(r, s, it)

\* A step leaves client c on its way, or finished, if it is still undisturbed.
Outcome(c) ==
    start'[c] # NULL =>
        IF pc'[c] = "idle" THEN Finished(call[c], start[c], item)
        ELSE pc'[c] # "crashed" =>
                 Exact(item, start'[c], pc'[c], call'[c], refs'[c], type'[c], todo'[c],
                       out'[c], sent'[c], answer'[c])

\* Nothing of the other clients changes.
OthersSame(c) ==
    /\ UNCHANGED item
    /\ start' = [d \in Clients |-> start'[d]]
    /\ \A d \in Clients :
          d # c => /\ pc'[d] = pc[d] /\ call'[d] = call[d] /\ refs'[d] = refs[d]
                   /\ type'[d] = type[d] /\ todo'[d] = todo[d] /\ out'[d] = out[d]
                   /\ sent'[d] = sent[d] /\ answer'[d] = answer[d] /\ start'[d] = start[d]

LEMMA OthersExact ==
    ASSUME ExactInv, NEW c \in Clients, OthersSame(c), ClientExact(c)'
    PROVE  ExactInv'
<1>1. ASSUME NEW d \in Clients, d # c PROVE ClientExact(d)'
  <2>1. ClientExact(d)
    BY DEF ExactInv
  <2>2. /\ UNCHANGED item /\ pc'[d] = pc[d] /\ call'[d] = call[d] /\ refs'[d] = refs[d]
        /\ type'[d] = type[d] /\ todo'[d] = todo[d] /\ out'[d] = out[d]
        /\ sent'[d] = sent[d] /\ answer'[d] = answer[d] /\ start'[d] = start[d]
    BY <1>1 DEF OthersSame
  <2> QED
    BY <2>1, <2>2 DEF ClientExact
<1>2. start' = [d \in Clients |-> start'[d]]
  BY DEF OthersSame
<1> QED
  BY <1>1, <1>2 DEF ExactInv

LEMMA OutcomeExact ==
    ASSUME ExactInv, NEW c \in Clients, OthersSame(c), Outcome(c)
    PROVE  ExactInv'
<1>1. ClientExact(c)'
  BY DEF Outcome, ClientExact, OthersSame
<1> QED
  BY <1>1, OthersExact

\* The functions that hold the clients' variables.
Functions ==
    /\ pc = [d \in Clients |-> pc[d]] /\ call = [d \in Clients |-> call[d]]
    /\ refs = [d \in Clients |-> refs[d]] /\ type = [d \in Clients |-> type[d]]
    /\ todo = [d \in Clients |-> todo[d]] /\ out = [d \in Clients |-> out[d]]
    /\ sent = [d \in Clients |-> sent[d]] /\ answer = [d \in Clients |-> answer[d]]
    /\ start = [d \in Clients |-> start[d]] /\ err = [d \in Clients |-> err[d]]

LEMMA AreFunctions == RefInv /\ ExactInv => Functions
<1> SUFFICES ASSUME RefInv, ExactInv PROVE Functions
  OBVIOUS
<1>1. /\ pc = [d \in Clients |-> pc[d]] /\ call = [d \in Clients |-> call[d]]
      /\ refs = [d \in Clients |-> refs[d]] /\ type = [d \in Clients |-> type[d]]
      /\ todo = [d \in Clients |-> todo[d]] /\ out = [d \in Clients |-> out[d]]
  BY DEF RefInv, Shape
<1>2. /\ sent = [d \in Clients |-> sent[d]] /\ answer = [d \in Clients |-> answer[d]]
      /\ err = [d \in Clients |-> err[d]]
  BY DEF RefInv, Shape
<1> QED
  BY <1>1, <1>2 DEF ExactInv, Functions

\* Steps of client c leave the other clients alone.
LEMMA StepSame ==
    ASSUME Functions, NEW c \in Clients, ClientStep(c)
    PROVE  OthersSame(c)
<1>1. CASE AddParentRefs(c) \/ AddParentType(c)
  BY <1>1 DEF Functions, OthersSame, itemVars, localVars, AddParentRefs, AddParentType, Answered,
              Unanswered, Return, Goto
<1>2. CASE AddChildRefs(c) \/ AddChildType(c)
  BY <1>2 DEF Functions, OthersSame, itemVars, AddChildRefs, AddChildType, Answered,
              Unanswered, Return, Goto, GoPublish
<1>3. CASE RemoveChildRefs(c) \/ RemoveParentRefs(c)
  BY <1>3 DEF Functions, OthersSame, itemVars, localVars, RemoveChildRefs, RemoveParentRefs,
              RemoveAt, Answered, Unanswered, Return, Goto, GoPublish
<1>4. CASE MetaQuery(c) \/ MetaRefs(c)
  BY <1>4 DEF Functions, OthersSame, itemVars, MetaQuery, MetaRefs, Answered,
              Unanswered, Return, Goto, GoPublish
<1>5. CASE Overwrite(c) \/ OverwriteEnd(c)
  BY <1>5 DEF Functions, OthersSame, itemVars, localVars, Overwrite, OverwriteEnd, Answered,
              Unanswered, Return, Goto, GoPublish
<1>6. CASE MetaPublish(c)
  BY <1>6 DEF Functions, OthersSame, itemVars, localVars, MetaPublish, Return, Goto, GoPublish
<1>7. CASE Publish(c)
  BY <1>7 DEF Functions, OthersSame, localVars, Publish, ItemPublish, Goto
<1>8. CASE PublishDisconnected(c) \/ PublishAnswered(c) \/ PublishTimeout(c)
  <2>1. \E result : Published(c, result)
    BY <1>8 DEF PublishDisconnected, PublishAnswered, PublishTimeout
  <2> QED
    BY <2>1 DEF Functions, OthersSame, itemVars, Published, Return, Goto
<1> QED
  BY <1>1, <1>2, <1>3, <1>4, <1>5, <1>6, <1>7, <1>8 DEF ClientStep

\* Where an undisturbed call is when it does not publish.
LEMMA UndisturbedAt ==
    ASSUME ExactInv, NEW c \in Clients, start[c] # NULL,
           pc[c] \notin {"idle", "crashed", "publish", "await"}
    PROVE  /\ Snapshot(start[c]) /\ sent[c] = <<>>
           /\ Reached(call[c], start[c], item, pc[c], refs[c], type[c], todo[c])
BY DEF ExactInv, ClientExact, Exact

\* Where an undisturbed call is when a query is answered.
LEMMA AnsweredAt ==
    ASSUME RefInv, ExactInv, NEW c \in Clients, NEW here, Answered(c, here),
           here \notin {"idle", "crashed", "publish", "await"}, start'[c] # NULL
    PROVE  /\ start'[c] = start[c] /\ Snapshot(start[c]) /\ sent[c] = <<>>
           /\ Reached(call[c], start[c], item, here, refs[c], type[c], todo[c])
BY DEF ExactInv, ClientExact, Answered, Exact

\* Without an answer it is disturbed.
LEMMA UnansweredEnds ==
    ASSUME ExactInv, NEW c \in Clients, NEW here, Unanswered(c, here)
    PROVE  start'[c] = NULL /\ Outcome(c)
BY DEF ExactInv, Unanswered, Outcome

\* A call that returns, goes on to another query, or goes on to publish.
LEMMA ReturnOutcome ==
    ASSUME Functions, NEW c \in Clients, NEW code, Return(c, code),
           start'[c] # NULL => Finished(call[c], start[c], item)
    PROVE  Outcome(c)
BY DEF Functions, Return, Goto, Outcome

LEMMA GotoOutcome ==
    ASSUME Functions, NEW c \in Clients, NEW step, step \notin {"idle", "crashed", "publish", "await"},
           Goto(c, step), UNCHANGED <<itemVars, call>>,
           start'[c] # NULL =>
               /\ start'[c] = start[c] /\ Snapshot(start[c]) /\ sent[c] = <<>>
               /\ Reached(call[c], start[c], item, step, refs'[c], type'[c], todo'[c])
    PROVE  Outcome(c)
<1>1. pc'[c] = step /\ call'[c] = call[c] /\ sent'[c] = sent[c]
  BY DEF Functions, Goto, itemVars
<1> QED
  BY <1>1 DEF Outcome, Exact

LEMMA GoPublishOutcome ==
    ASSUME Functions, NEW c \in Clients, NEW n, NEW v, NEW then, GoPublish(c, n, v, then),
           UNCHANGED <<itemVars, call>>,
           start'[c] # NULL =>
               /\ start'[c] = start[c] /\ Snapshot(start[c]) /\ sent[c] = <<>>
               /\ Reached(call[c], start[c], [item EXCEPT ![n] = v], then,
                          refs'[c], type'[c], todo'[c])
    PROVE  Outcome(c)
<1>1. pc'[c] = "publish" /\ call'[c] = call[c] /\ sent'[c] = sent[c]
  BY DEF Functions, GoPublish, Goto, itemVars
<1>2. out'[c] = [node |-> n, value |-> v, then |-> then]
  BY DEF Functions, GoPublish
<1>3. out'[c].node = n /\ out'[c].value = v /\ out'[c].then = then
  BY <1>2
<1> QED
  BY <1>1, <1>3 DEF Outcome, Exact, Landed

LEMMA AddParentRefsExact ==
    ASSUME RefInv, ExactInv, NEW c \in Clients, AddParentRefs(c)
    PROVE  Outcome(c)
<1> DEFINE r == call[c]
           list == item[Refs(r.parent)]
<1>0. Functions
  BY AreFunctions
<1>1. CASE Unanswered(c, "add_parent_refs")
  BY <1>1, UnansweredEnds
<1>2. CASE ~Unanswered(c, "add_parent_refs")
  <2>1. Answered(c, "add_parent_refs") /\ pc[c] = "add_parent_refs"
    BY <1>2 DEF AddParentRefs, Answered
  <2>2. r \in Calls /\ r.op = "add"
    BY <2>1, ClientFacts, CallFacts DEF ClientOK, After, StepsOf
  <2>3. r.parent \in EventNodes /\ r.child \in EventNodes /\ r.at_child \in BOOLEAN
    BY <2>2, CallFacts
  <2>4. start'[c] # NULL => /\ start'[c] = start[c] /\ Snapshot(start[c]) /\ sent[c] = <<>>
                            /\ item = start[c]
    BY <2>1, <2>2, AnsweredAt DEF Reached, AddReached
  <2>5. CASE Mentions(list, r.child) # {}
    <3>1. \E code : Return(c, code)
      BY <1>2, <2>5 DEF AddParentRefs
    <3>2. start'[c] # NULL => Finished(r, start[c], item)
      BY <2>2, <2>4, <2>5 DEF Finished, Added
    <3> QED
      BY <1>0, <3>1, <3>2, ReturnOutcome
  <2>6. CASE Mentions(list, r.child) = {}
    <3>1. /\ refs' = [refs EXCEPT ![c] = list] /\ Goto(c, AfterParentRefs(r))
          /\ UNCHANGED <<type, todo>>
      BY <1>2, <2>6 DEF AddParentRefs
    <3>2. refs'[c] = list
      BY <1>0, <3>1 DEF Functions
    <3>3. AfterParentRefs(r) \in {"add_parent_type", "add_child_type"}
          /\ (AfterParentRefs(r) = "add_parent_type" <=> r.at_child)
      BY <2>3 DEF AfterParentRefs
    <3>4. start'[c] # NULL =>
             Reached(r, start[c], item, AfterParentRefs(r), refs'[c], type'[c], todo'[c])
      BY <2>2, <2>3, <2>4, <2>6, <3>2, <3>3 DEF Reached, AddReached
    <3>5. UNCHANGED <<itemVars, call>>
      BY <2>1 DEF Answered
    <3> QED
      BY <1>0, <2>4, <3>1, <3>3, <3>4, <3>5, GotoOutcome
  <2> QED
    BY <2>5, <2>6
<1> QED
  BY <1>1, <1>2

LEMMA AddParentTypeExact ==
    ASSUME RefInv, ExactInv, NEW c \in Clients, AddParentType(c)
    PROVE  Outcome(c)
<1> DEFINE r == call[c]
<1>0. Functions
  BY AreFunctions
<1>1. CASE Unanswered(c, "add_parent_type")
  BY <1>1, UnansweredEnds
<1>2. CASE ~Unanswered(c, "add_parent_type")
  <2>1. Answered(c, "add_parent_type") /\ pc[c] = "add_parent_type"
    BY <1>2 DEF AddParentType, Answered
  <2>2. r \in Calls /\ r.op = "add"
    BY <2>1, ClientFacts, CallFacts DEF ClientOK, After, StepsOf
  <2>3. /\ type' = [type EXCEPT ![c] = item[Meta(r.parent)]] /\ Goto(c, "add_child_refs")
        /\ UNCHANGED <<refs, todo, itemVars, call>>
    BY <1>2 DEF AddParentType, Answered
  <2>4. type'[c] = item[Meta(r.parent)] /\ refs'[c] = refs[c]
    BY <1>0, <2>3 DEF Functions
  <2>5. start'[c] # NULL =>
           /\ start'[c] = start[c] /\ Snapshot(start[c]) /\ sent[c] = <<>>
           /\ Reached(r, start[c], item, "add_child_refs", refs'[c], type'[c], todo'[c])
    BY <2>1, <2>2, <2>4, AnsweredAt DEF Reached, AddReached
  <2> QED
    BY <1>0, <2>3, <2>5, GotoOutcome
<1> QED
  BY <1>1, <1>2

LEMMA AddChildRefsExact ==
    ASSUME RefInv, ExactInv, NEW c \in Clients, AddChildRefs(c)
    PROVE  Outcome(c)
<1> DEFINE r == call[c]
           list == item[Refs(r.child)]
           new == NewReference("parent", type[c], r.parent)
<1>0. Functions
  BY AreFunctions
<1>1. CASE Unanswered(c, "add_child_refs")
  BY <1>1, UnansweredEnds
<1>2. CASE ~Unanswered(c, "add_child_refs")
  <2>1. Answered(c, "add_child_refs") /\ pc[c] = "add_child_refs"
    BY <1>2 DEF AddChildRefs, Answered
  <2>2. r \in Calls /\ r.op = "add"
    BY <2>1, ClientFacts, CallFacts DEF ClientOK, After, StepsOf
  <2>3. start'[c] # NULL =>
           /\ start'[c] = start[c] /\ Snapshot(start[c]) /\ sent[c] = <<>>
           /\ item = start[c] /\ r.at_child /\ refs[c] = start[c][Refs(r.parent)]
           /\ Mentions(start[c][Refs(r.parent)], r.child) = {}
           /\ type[c] = start[c][Meta(r.parent)]
    BY <2>1, <2>2, AnsweredAt DEF Reached, AddReached
  <2>4. CASE Mentions(list, r.parent) # {}
    <3>1. \E code : Return(c, code)
      BY <1>2, <2>4 DEF AddChildRefs
    <3>2. start'[c] # NULL => Finished(r, start[c], item)
      BY <2>2, <2>3, <2>4 DEF Finished, Added
    <3> QED
      BY <1>0, <3>1, <3>2, ReturnOutcome
  <2>5. CASE Mentions(list, r.parent) = {}
    <3>1. /\ GoPublish(c, Refs(r.child), Append(list, new), "add_child_type")
          /\ UNCHANGED <<refs, type, todo, itemVars, call>>
      BY <1>2, <2>5 DEF AddChildRefs, Answered
    <3>2. start'[c] # NULL => Append(list, new) = AtChild(r, start[c])
      BY <2>3 DEF AtChild
    <3>3. start'[c] # NULL =>
             Reached(r, start[c], [item EXCEPT ![Refs(r.child)] = Append(list, new)],
                     "add_child_type", refs'[c], type'[c], todo'[c])
      <4> HIDE DEF new
      <4> QED
        BY <2>2, <2>3, <2>5, <3>1, <3>2 DEF Reached, AddReached
    <3> QED
      BY <1>0, <2>3, <3>1, <3>3, GoPublishOutcome
  <2> QED
    BY <2>4, <2>5
<1> QED
  BY <1>1, <1>2

LEMMA AddChildTypeExact ==
    ASSUME RefInv, ExactInv, NEW c \in Clients, AddChildType(c)
    PROVE  Outcome(c)
<1> DEFINE r == call[c]
           s == start[c]
           new == Append(refs[c], NewReference("child", item[Meta(r.child)], r.child))
           it == [item EXCEPT ![Refs(r.parent)] = new]
<1>0. Functions
  BY AreFunctions
<1>1. CASE Unanswered(c, "add_child_type")
  BY <1>1, UnansweredEnds
<1>2. CASE ~Unanswered(c, "add_child_type")
  <2>1. Answered(c, "add_child_type") /\ pc[c] = "add_child_type"
    BY <1>2 DEF AddChildType, Answered
  <2>2. r \in Calls /\ r.op = "add"
    BY <2>1, ClientFacts, CallFacts DEF ClientOK, After, StepsOf
  <2>3. r.parent \in EventNodes /\ r.child \in EventNodes /\ r.at_child \in BOOLEAN
    BY <2>2, CallFacts
  <2>4. start'[c] # NULL =>
           /\ start'[c] = s /\ Snapshot(s) /\ sent[c] = <<>>
           /\ refs[c] = s[Refs(r.parent)] /\ Mentions(s[Refs(r.parent)], r.child) = {}
           /\ r.at_child => /\ Mentions(s[Refs(r.child)], r.parent) = {}
                            /\ item = [s EXCEPT ![Refs(r.child)] = AtChild(r, s)]
           /\ ~r.at_child => item = s
    BY <2>1, <2>2, AnsweredAt DEF Reached, AddReached
  <2>5. /\ GoPublish(c, Refs(r.parent), new, "return")
        /\ UNCHANGED <<refs, type, todo, itemVars, call>>
    BY <1>2 DEF AddChildType, Answered
  <2>6. start'[c] # NULL => item[Meta(r.child)] = s[Meta(r.child)]
    <3>1. Refs(r.child) # Meta(r.child)
      BY <2>3, NamesDiffer
    <3>2. /\ start'[c] # NULL => s \in [Nodes -> Value]
          /\ Refs(r.child) \in Nodes /\ Meta(r.child) \in Nodes
      BY <2>3, <2>4, ItemNames DEF Snapshot
    <3> HIDE DEF s
    <3> QED
      BY <2>3, <2>4, <3>1, <3>2
  <2>7. start'[c] # NULL =>
           new = Append(s[Refs(r.parent)], NewReference("child", s[Meta(r.child)], r.child))
    BY <2>4, <2>6
  <2> HIDE DEF new
  <2>8. start'[c] # NULL => Added(r, s, it)
    <3>1. CASE r.at_child
      BY <2>3, <2>4, <2>7, <3>1 DEF Added, AtChild
    <3>2. CASE ~r.at_child
      BY <2>3, <2>4, <2>7, <3>2 DEF Added
    <3> QED
      BY <3>1, <3>2
  <2>9. start'[c] # NULL => Reached(r, s, it, "return", refs'[c], type'[c], todo'[c])
    <3> HIDE DEF it
    <3> QED
      BY <2>2, <2>8 DEF Reached, AddReached
  <2> QED
    BY <1>0, <2>4, <2>5, <2>9, GoPublishOutcome
<1> QED
  BY <1>1, <1>2

\* The child's end is removed first.
LEMMA RemoveChildRefsExact ==
    ASSUME RefInv, ExactInv, NEW c \in Clients, RemoveChildRefs(c)
    PROVE  Outcome(c)
<1> DEFINE r == call[c]
           s == start[c]
           list == item[Refs(r.child)]
           new == ReferenceRemove(list, "parent", r.parent)
<1>0. Functions
  BY AreFunctions
<1>1. CASE Unanswered(c, "remove_child_refs")
  BY <1>1, UnansweredEnds
<1>2. CASE ~Unanswered(c, "remove_child_refs")
  <2>1. Answered(c, "remove_child_refs") /\ pc[c] = "remove_child_refs"
    BY <1>2 DEF RemoveChildRefs, RemoveAt, Answered
  <2>2. r \in Calls /\ r.op = "remove"
    BY <2>1, ClientFacts, CallFacts DEF ClientOK, After, StepsOf
  <2>3. r.parent \in EventNodes /\ r.child \in EventNodes
    BY <2>2, CallFacts
  <2>4. start'[c] # NULL => start'[c] = s /\ Snapshot(s) /\ sent[c] = <<>> /\ item = s
    BY <2>1, <2>2, AnsweredAt DEF Reached, RemoveReached
  <2>5. UNCHANGED <<refs, type, todo, itemVars, call>>
    BY <1>2 DEF RemoveChildRefs, RemoveAt, Answered, localVars
  <2>6. start'[c] # NULL =>
           Reached(r, s, [item EXCEPT ![Refs(r.child)] = new], "remove_parent_refs",
                   refs'[c], type'[c], todo'[c])
    BY <2>2, <2>4 DEF Reached, RemoveReached
  <2>7. CASE list # <<>>
    <3>1. GoPublish(c, Refs(r.child), new, "remove_parent_refs")
      BY <1>2, <2>7 DEF RemoveChildRefs, RemoveAt
    <3> QED
      BY <1>0, <2>4, <2>5, <2>6, <3>1, GoPublishOutcome
  <2>8. CASE list = <<>>
    <3>1. Goto(c, "remove_parent_refs")
      BY <1>2, <2>8 DEF RemoveChildRefs, RemoveAt
    <3>2. new = list
      BY <2>8 DEF ReferenceRemove, Found, Mentions
    <3>3. item \in [Nodes -> Value] /\ Refs(r.child) \in Nodes
      BY <2>3, ItemNames DEF RefInv, Shape
    <3>4. [item EXCEPT ![Refs(r.child)] = new] = item
      BY <3>2, <3>3
    <3> QED
      BY <1>0, <2>4, <2>5, <2>6, <3>1, <3>4, GotoOutcome
  <2> QED
    BY <2>7, <2>8
<1> QED
  BY <1>1, <1>2

\* Then the parent's end, which is another node if the two refer to each
\* other: a node has one reference to a node.
LEMMA RemoveParentRefsExact ==
    ASSUME RefInv, ExactInv, NEW c \in Clients, RemoveParentRefs(c)
    PROVE  Outcome(c)
<1> DEFINE r == call[c]
           s == start[c]
           list == item[Refs(r.parent)]
           new == ReferenceRemove(list, "child", r.child)
           gone == ReferenceRemove(s[Refs(r.child)], "parent", r.parent)
<1>0. Functions
  BY AreFunctions
<1>1. CASE Unanswered(c, "remove_parent_refs")
  BY <1>1, UnansweredEnds
<1>2. CASE ~Unanswered(c, "remove_parent_refs")
  <2>1. Answered(c, "remove_parent_refs") /\ pc[c] = "remove_parent_refs"
    BY <1>2 DEF RemoveParentRefs, RemoveAt, Answered
  <2>2. r \in Calls /\ r.op = "remove"
    BY <2>1, ClientFacts, CallFacts DEF ClientOK, After, StepsOf
  <2>3. r.parent \in EventNodes /\ r.child \in EventNodes
    BY <2>2, CallFacts
  <2>4. start'[c] # NULL =>
           /\ start'[c] = s /\ Snapshot(s) /\ sent[c] = <<>>
           /\ item = [s EXCEPT ![Refs(r.child)] = gone]
    BY <2>1, <2>2, AnsweredAt DEF Reached, RemoveReached
  <2>5. UNCHANGED <<itemVars, call>>
    BY <1>2 DEF RemoveParentRefs, RemoveAt, Answered
  <2>6. ASSUME start'[c] # NULL, Found(s[Refs(r.parent)], "child", r.child) # {},
               Found(s[Refs(r.child)], "parent", r.parent) # {}
        PROVE  /\ list = s[Refs(r.parent)] /\ list # <<>>
               /\ RemovedIfThere(r, s, [item EXCEPT ![Refs(r.parent)] = new])
    <3>1. /\ s \in [Nodes -> Value] /\ Refs(r.parent) \in Nodes /\ Refs(r.child) \in Nodes
          /\ s[Refs(r.parent)] \in Seq(Reference) /\ Distinct(s[Refs(r.parent)])
          /\ s[Refs(r.child)] \in Seq(Reference) /\ Distinct(s[Refs(r.child)])
      BY <2>3, <2>4, <2>6, ItemNames, SnapshotValues DEF Snapshot
    <3>2. r.parent # r.child
      <4>1. PICK i \in Found(s[Refs(r.parent)], "child", r.child) : TRUE
        BY <2>6
      <4>2. PICK j \in Found(s[Refs(r.child)], "parent", r.parent) : TRUE
        BY <2>6
      <4>3. /\ i \in 1..Len(s[Refs(r.parent)]) /\ s[Refs(r.parent)][i].node = r.child
            /\ s[Refs(r.parent)][i].type = "child"
            /\ j \in 1..Len(s[Refs(r.child)]) /\ s[Refs(r.child)][j].node = r.parent
            /\ s[Refs(r.child)][j].type = "parent"
        BY DEF Found, Mentions
      <4> HIDE DEF s, r
      <4> QED
        BY <3>1, <4>3 DEF Distinct, NodeOf
    <3>3. Refs(r.parent) # Refs(r.child)
      BY <2>3, <3>2, NamesDiffer
    <3> HIDE DEF s, r, gone
    <3>4. list = s[Refs(r.parent)]
      BY <2>4, <2>6, <3>1, <3>3
    <3>5. list # <<>>
      BY <2>6, <3>4 DEF Found, Mentions
    <3>6. Cut(s[Refs(r.parent)], new, "child", r.child)
      BY <2>6, <3>1, <3>4, RemoveCuts
    <3>7. Cut(s[Refs(r.child)], gone, "parent", r.parent)
      BY <2>6, <3>1, RemoveCuts DEF gone
    <3> DEFINE it == [item EXCEPT ![Refs(r.parent)] = new]
    <3> HIDE DEF new, list
    <3>8. /\ it[Refs(r.parent)] = new /\ it[Refs(r.child)] = gone
          /\ \A n \in Nodes \ {Refs(r.parent), Refs(r.child)} : it[n] = s[n]
      BY <2>4, <2>6, <3>1, <3>3
    <3> HIDE DEF it
    <3>9. RemovedIfThere(r, s, it)
      BY <3>6, <3>7, <3>8 DEF RemovedIfThere, BothEndsThere, Removed
    <3> QED
      BY <3>4, <3>5, <3>9 DEF it
  <2>7. CASE list # <<>>
    <3>1. GoPublish(c, Refs(r.parent), new, "return")
      BY <1>2, <2>7 DEF RemoveParentRefs, RemoveAt
    <3> DEFINE it == [item EXCEPT ![Refs(r.parent)] = new]
    <3>2. start'[c] # NULL => RemovedIfThere(r, s, it)
      <4>1. CASE /\ Found(s[Refs(r.parent)], "child", r.child) # {}
                 /\ Found(s[Refs(r.child)], "parent", r.parent) # {}
        BY <2>6, <4>1
      <4>2. CASE ~(/\ Found(s[Refs(r.parent)], "child", r.child) # {}
                   /\ Found(s[Refs(r.child)], "parent", r.parent) # {})
        BY <4>2 DEF RemovedIfThere, BothEndsThere, Removed
      <4> QED
        BY <4>1, <4>2
    <3>3. start'[c] # NULL => Reached(r, s, it, "return", refs'[c], type'[c], todo'[c])
      <4> HIDE DEF it
      <4> QED
        BY <2>2, <3>2 DEF Reached, RemoveReached
    <3> QED
      BY <1>0, <2>4, <2>5, <3>1, <3>3, GoPublishOutcome
  <2>8. CASE list = <<>>
    <3>1. \E code : Return(c, code)
      BY <1>2, <2>8 DEF RemoveParentRefs, RemoveAt
    <3>2. start'[c] # NULL => RemovedIfThere(r, s, item)
      BY <2>6, <2>8 DEF RemovedIfThere, BothEndsThere, Removed
    <3>3. start'[c] # NULL => Finished(r, s, item)
      BY <2>2, <3>2 DEF Finished
    <3> QED
      BY <1>0, <3>1, <3>3, ReturnOutcome
  <2> QED
    BY <2>7, <2>8
<1> QED
  BY <1>1, <1>2

LEMMA MetaQueryExact ==
    ASSUME RefInv, ExactInv, NEW c \in Clients, MetaQuery(c)
    PROVE  Outcome(c)
<1> DEFINE r == call[c]
           s == start[c]
           old == item[Meta(r.node)]
<1>0. Functions
  BY AreFunctions
<1>1. CASE Unanswered(c, "meta")
  BY <1>1, UnansweredEnds
<1>2. CASE ~Unanswered(c, "meta")
  <2>1. Answered(c, "meta") /\ pc[c] = "meta"
    BY <1>2 DEF MetaQuery, Answered
  <2>2. r \in Calls /\ r.op \in {"merge", "retract"}
    BY <2>1, ClientFacts, CallFacts DEF ClientOK, After, StepsOf
  <2>3. r.node \in EventNodes
    BY <2>2, CallFacts
  <2>4. start'[c] # NULL => /\ start'[c] = s /\ Snapshot(s) /\ sent[c] = <<>>
                            /\ GivesType(r) => item = s
    BY <2>1, <2>2, AnsweredAt DEF Reached, TypeReached
  <2>5. UNCHANGED <<refs, todo, itemVars, call>>
    BY <1>2 DEF MetaQuery, Answered
  <2>6. CASE r.op = "merge"
    <3> DEFINE step == IF r.type \in {"none", old} THEN "meta_publish" ELSE "meta_refs"
    <3>1. Goto(c, step)
      BY <1>2, <2>6 DEF MetaQuery
    <3>2. NewType(r) = r.type
      BY <2>6 DEF NewType
    <3>3. ASSUME start'[c] # NULL, GivesType(r)
          PROVE  TypeReached(r, s, item, step, todo'[c])
      <4>1. item = s /\ TypesKept(r, s, item)
        BY <2>4, <2>6, <3>3 DEF TypesKept
      <4>2. CASE r.type \in {"none", old}
        <5>1. s[Meta(r.node)] = NewType(r)
          BY <2>6, <3>2, <3>3, <4>1, <4>2 DEF GivesType
        <5>2. \A m \in EventNodes : EntriesInFact(r, s, m) = Entries(s[Refs(m)])
          BY <2>6, <5>1, NothingToTell DEF ToldInFact, Told
        <5>3. step = "meta_publish"
          BY <4>2
        <5> HIDE DEF step
        <5> QED
          BY <4>1, <5>2, <5>3 DEF TypeReached
      <4>3. CASE r.type \notin {"none", old}
        <5>1. s[Meta(r.node)] # NewType(r)
          BY <3>2, <4>1, <4>3
        <5>2. step = "meta_refs"
          BY <4>3
        <5> HIDE DEF step
        <5> QED
          BY <4>1, <5>1, <5>2 DEF TypeReached
      <4> QED
        BY <4>2, <4>3
    <3>4. start'[c] # NULL => Reached(r, s, item, step, refs'[c], type'[c], todo'[c])
      BY <2>6, <3>3 DEF Reached
    <3>5. step \notin {"idle", "crashed", "publish", "await"}
      OBVIOUS
    <3> HIDE DEF step
    <3> QED
      BY <1>0, <2>4, <2>5, <3>1, <3>4, <3>5, GotoOutcome
  <2>7. CASE r.op = "retract"
    <3> DEFINE it == [item EXCEPT ![Meta(r.node)] = "unknown"]
    <3>1. GoPublish(c, Meta(r.node), "unknown", "meta_refs")
      BY <1>2, <2>7 DEF MetaQuery
    <3>2. ASSUME start'[c] # NULL
          PROVE  TypeReached(r, s, it, "meta_refs", todo'[c])
      <4>1. item = s /\ s \in [Nodes -> Value]
        BY <2>4, <2>7, <3>2 DEF GivesType, Snapshot
      <4> HIDE DEF s
      <4>2. ASSUME NEW m \in EventNodes
            PROVE  /\ it[Meta(m)] = IF m = r.node THEN "unknown" ELSE s[Meta(m)]
                   /\ it[Refs(m)] = s[Refs(m)]
        <5>1. /\ Meta(m) \in Nodes /\ Refs(m) \in Nodes /\ Meta(r.node) \in Nodes
              /\ Refs(m) # Meta(r.node) /\ (Meta(m) = Meta(r.node) <=> m = r.node)
          BY <2>3, ItemNames, NamesDiffer
        <5> QED
          BY <4>1, <5>1
      <4> HIDE DEF it
      <4> QED
        BY <2>7, <4>2 DEF TypeReached, TypesKept
    <3>3. start'[c] # NULL => Reached(r, s, it, "meta_refs", refs'[c], type'[c], todo'[c])
      <4> HIDE DEF it
      <4> QED
        BY <2>7, <3>2 DEF Reached
    <3> QED
      BY <1>0, <2>4, <2>5, <3>1, <3>3, GoPublishOutcome
  <2> QED
    BY <2>2, <2>6, <2>7
<1> QED
  BY <1>1, <1>2

LEMMA MetaRefsExact ==
    ASSUME RefInv, ExactInv, NEW c \in Clients, MetaRefs(c)
    PROVE  Outcome(c)
<1> DEFINE r == call[c]
           s == start[c]
<1>0. Functions
  BY AreFunctions
<1>1. CASE Unanswered(c, "meta_refs")
  BY <1>1, UnansweredEnds
<1>2. CASE ~Unanswered(c, "meta_refs")
  <2>1. Answered(c, "meta_refs") /\ pc[c] = "meta_refs"
    BY <1>2 DEF MetaRefs, Answered
  <2>2. r \in Calls /\ r.op \in {"merge", "retract"}
    BY <2>1, ClientFacts, CallFacts DEF ClientOK, After, StepsOf
  <2>3. r.node \in EventNodes
    BY <2>2, CallFacts
  <2>4. start'[c] # NULL => /\ start'[c] = s /\ Snapshot(s) /\ sent[c] = <<>>
                            /\ GivesType(r) => TypeReached(r, s, item, "meta_refs", todo[c])
    BY <2>1, <2>2, AnsweredAt DEF Reached
  <2>5. /\ todo' = [todo EXCEPT ![c] = item[Refs(r.node)]] /\ Goto(c, "overwrite")
        /\ UNCHANGED <<itemVars, call>>
    BY <1>2 DEF MetaRefs, Answered
  <2>6. todo'[c] = item[Refs(r.node)]
    BY <1>0, <2>5 DEF Functions
  <2>7. ASSUME start'[c] # NULL, GivesType(r)
        PROVE  TypeReached(r, s, item, "overwrite", todo'[c])
    <3>1. /\ TypesKept(r, s, item) /\ (r.op = "retract" \/ s[Meta(r.node)] # NewType(r))
          /\ \A m \in EventNodes : item[Refs(m)] = s[Refs(m)]
      BY <2>4, <2>7 DEF TypeReached
    <3>2. todo'[c] = s[Refs(r.node)]
      BY <2>3, <2>6, <3>1
    <3>3. Distinct(todo'[c])
      BY <2>3, <2>4, <2>7, <3>2, SnapshotValues
    <3>4. ASSUME NEW m \in EventNodes, Mentions(todo'[c], m) = {}
          PROVE  Entries(item[Refs(m)]) = EntriesInFact(r, s, m)
      BY <3>1, <3>2, <3>4, NotMentioned
    <3>5. LoopReached(r, s, item, todo'[c])
      BY <3>1, <3>2, <3>3, <3>4 DEF LoopReached
    <3> QED
      BY <3>1, <3>5 DEF TypeReached
  <2>8. start'[c] # NULL => Reached(r, s, item, "overwrite", refs'[c], type'[c], todo'[c])
    BY <2>2, <2>7 DEF Reached
  <2> QED
    BY <1>0, <2>4, <2>5, <2>8, GotoOutcome
<1> QED
  BY <1>1, <1>2

\* A round of the loop.
LEMMA LoopNext ==
    ASSUME NEW r, NEW s, NEW it, NEW new, NEW list \in Seq(Reference), list # <<>>,
           LoopReached(r, s, it, list),
           \A m \in EventNodes : m # Head(list).node => new[Refs(m)] = it[Refs(m)],
           Entries(new[Refs(Head(list).node)]) = EntriesInFact(r, s, Head(list).node)
    PROVE  LoopReached(r, s, new, Tail(list))
<1> DEFINE rest == Tail(list)
<1>1. /\ rest \in Seq(Reference) /\ Len(rest) = Len(list) - 1 /\ Len(list) \in Nat
      /\ \A i \in 1..Len(rest) : i + 1 \in 1..Len(list) /\ rest[i] = list[i + 1]
      /\ Head(list) = list[1] /\ 1 \in 1..Len(list) /\ Len(list) >= 1
  OBVIOUS
<1> HIDE DEF rest
<1>2. \A i, j \in 1..Len(list) : list[i].node = list[j].node => i = j
  BY DEF LoopReached, Distinct, NodeOf
<1>3. Distinct(rest)
  <2> SUFFICES ASSUME NEW i \in 1..Len(rest), NEW j \in 1..Len(rest), rest[i].node = rest[j].node
               PROVE  i = j
    BY DEF Distinct, NodeOf
  <2>1. i + 1 = j + 1
    BY <1>1, <1>2
  <2> QED
    BY <1>1, <2>1
<1>4. \A e \in Entries(rest) : e \in Entries(s[Refs(r.node)])
  <2>1. \A e \in Entries(rest) : e \in Entries(list)
    BY <1>1 DEF Entries
  <2> QED
    BY <2>1 DEF LoopReached
<1>5. ASSUME NEW m \in EventNodes
      PROVE  IF Mentions(rest, m) # {} THEN new[Refs(m)] = s[Refs(m)]
             ELSE Entries(new[Refs(m)]) = EntriesInFact(r, s, m)
  <2>1. CASE m = list[1].node
    <3>1. Mentions(rest, m) = {}
      <4>1. \A i \in 1..Len(rest) : rest[i].node # m
        BY <1>1, <1>2, <2>1
      <4> QED
        BY <4>1 DEF Mentions
    <3> QED
      BY <1>1, <2>1, <3>1
  <2>2. CASE m # list[1].node
    <3>1. Mentions(rest, m) # {} <=> Mentions(list, m) # {}
      <4>1. ASSUME NEW i \in 1..Len(list), list[i].node = m
            PROVE  i - 1 \in 1..Len(rest) /\ rest[i - 1].node = m
        <5>1. i # 1
          BY <2>2, <4>1
        <5>2. i - 1 \in 1..Len(rest) /\ (i - 1) + 1 = i
          BY <1>1, <5>1
        <5> QED
          BY <1>1, <4>1, <5>2
      <4>2. ASSUME NEW i \in 1..Len(rest), rest[i].node = m
            PROVE  i + 1 \in 1..Len(list) /\ list[i + 1].node = m
        BY <1>1, <4>2
      <4> QED
        BY <4>1, <4>2 DEF Mentions
    <3>2. new[Refs(m)] = it[Refs(m)]
      BY <1>1, <2>2
    <3> QED
      BY <3>1, <3>2 DEF LoopReached
  <2> QED
    BY <2>1, <2>2
<1> QED
  BY <1>3, <1>4, <1>5 DEF LoopReached, rest

LEMMA OverwriteExact ==
    ASSUME RefInv, ExactInv, NEW c \in Clients, Overwrite(c)
    PROVE  Outcome(c)
<1> DEFINE r == call[c]
           s == start[c]
           ref == Head(todo[c])
           t == Opposite(ref.type)
           rest == ReferenceRemove(item[Refs(ref.node)], t, r.node)
           new == Append(rest, NewReference(t, NewType(r), r.node))
           it == IF rest # <<>> THEN [item EXCEPT ![Refs(ref.node)] = new] ELSE item
<1>0. Functions
  BY AreFunctions
<1>1. CASE Unanswered(c, "overwrite")
  BY <1>1, UnansweredEnds
<1>2. CASE ~Unanswered(c, "overwrite")
  <2>1. Answered(c, "overwrite") /\ pc[c] = "overwrite"
    BY <1>2 DEF Overwrite, Answered
  <2>2. r \in Calls /\ r.op \in {"merge", "retract"}
    BY <2>1, ClientFacts, CallFacts DEF ClientOK, After, StepsOf
  <2>3. r.node \in EventNodes
    BY <2>2, CallFacts
  <2>4. start'[c] # NULL => /\ start'[c] = s /\ Snapshot(s) /\ sent[c] = <<>>
                            /\ GivesType(r) => TypeReached(r, s, item, "overwrite", todo[c])
    BY <2>1, <2>2, AnsweredAt DEF Reached
  <2>5. /\ todo[c] # <<>> /\ todo' = [todo EXCEPT ![c] = Tail(@)]
        /\ UNCHANGED <<itemVars, call, refs, type>>
    BY <1>2 DEF Overwrite, Answered
  <2>6. todo'[c] = Tail(todo[c]) /\ todo[c] \in Seq(Reference)
    BY <1>0, <2>5, ClientFacts DEF Functions
  <2>7. ASSUME start'[c] # NULL, GivesType(r)
        PROVE  TypeReached(r, s, it, "overwrite", todo'[c])
    <3>1. /\ TypesKept(r, s, item) /\ (r.op = "retract" \/ s[Meta(r.node)] # NewType(r))
          /\ LoopReached(r, s, item, todo[c])
      BY <2>4, <2>7 DEF TypeReached
    <3>2. 1 \in 1..Len(todo[c]) /\ ref = todo[c][1] /\ ref \in Reference
      <4>1. \A x \in Seq(Reference) : x # <<>> => 1 \in 1..Len(x) /\ Head(x) = x[1]
        OBVIOUS
      <4>2. 1 \in 1..Len(todo[c]) /\ ref = todo[c][1]
        BY <2>5, <2>6, <4>1
      <4> QED
        BY <2>6, <4>2
    <3>3. ref \in Entries(s[Refs(r.node)])
      BY <3>1, <3>2 DEF LoopReached, Entries
    <3>4. ref.node \in EventNodes
      BY <3>2 DEF Reference
    <3>5. item[Refs(ref.node)] = s[Refs(ref.node)]
      <4>1. Mentions(todo[c], ref.node) # {}
        BY <3>2 DEF Mentions
      <4> QED
        BY <3>1, <3>4, <4>1 DEF LoopReached
    <3>6. NewType(r) \in MetaTypes
      BY <2>2, <2>7, CallFacts DEF NewType, GivesType, MetaTypes
    <3>7. /\ rest = <<>> => Entries(s[Refs(ref.node)]) = EntriesInFact(r, s, ref.node)
          /\ rest # <<>> => Entries(new) = EntriesInFact(r, s, ref.node)
      <4> HIDE DEF r, s, ref
      <4> QED
        BY <2>3, <2>4, <2>7, <3>1, <3>3, <3>5, <3>6, RoundTells
    <3> HIDE DEF rest, new
    <3>8. item \in [Nodes -> Value] /\ Refs(ref.node) \in Nodes
      BY <3>4, ItemNames DEF RefInv, Shape
    <3>9. Entries(it[Refs(ref.node)]) = EntriesInFact(r, s, ref.node)
      <4>1. CASE rest = <<>>
        BY <3>5, <3>7, <4>1
      <4>2. CASE rest # <<>>
        <5>1. it[Refs(ref.node)] = new
          BY <3>8, <4>2
        <5> QED
          BY <3>7, <4>2, <5>1
      <4> QED
        BY <4>1, <4>2
    <3>10. ASSUME NEW m \in EventNodes
           PROVE  /\ m # ref.node => it[Refs(m)] = item[Refs(m)]
                  /\ it[Meta(m)] = item[Meta(m)]
      <4>1. /\ Refs(m) \in Nodes /\ Meta(m) \in Nodes
            /\ m # ref.node => Refs(m) # Refs(ref.node)
            /\ Meta(m) # Refs(ref.node)
        BY <3>4, ItemNames, NamesDiffer
      <4> QED
        BY <3>8, <4>1
    <3> HIDE DEF it
    <3>11. LoopReached(r, s, it, Tail(todo[c]))
      <4> HIDE DEF r, s
      <4> QED
        BY <2>5, <2>6, <3>1, <3>9, <3>10, LoopNext
    <3>12. TypesKept(r, s, it)
      BY <3>1, <3>10 DEF TypesKept
    <3> QED
      BY <2>6, <3>1, <3>11, <3>12 DEF TypeReached
  <2>8. start'[c] # NULL => Reached(r, s, it, "overwrite", refs'[c], type'[c], todo'[c])
    <3> HIDE DEF it
    <3> QED
      BY <2>2, <2>7 DEF Reached
  <2>9. CASE rest # <<>>
    <3>1. GoPublish(c, Refs(ref.node), new, "overwrite")
      BY <1>2, <2>9 DEF Overwrite
    <3>2. it = [item EXCEPT ![Refs(ref.node)] = new]
      BY <2>9
    <3> HIDE DEF it, rest, new, ref, t
    <3> QED
      BY <1>0, <2>4, <2>5, <2>8, <3>1, <3>2, GoPublishOutcome
  <2>10. CASE rest = <<>>
    <3>1. Goto(c, "overwrite")
      <4>1. UNCHANGED pc
        BY <1>2, <2>10 DEF Overwrite
      <4> QED
        BY <1>0, <2>1, <4>1 DEF Functions, Goto
    <3>2. it = item
      BY <2>10
    <3> HIDE DEF it
    <3> QED
      BY <1>0, <2>4, <2>5, <2>8, <3>1, <3>2, GotoOutcome
  <2> QED
    BY <2>9, <2>10
<1> QED
  BY <1>1, <1>2

LEMMA OverwriteEndExact ==
    ASSUME RefInv, ExactInv, NEW c \in Clients, OverwriteEnd(c)
    PROVE  Outcome(c)
<1> DEFINE r == call[c]
           s == start[c]
<1>0. Functions
  BY AreFunctions
<1>1. pc[c] = "overwrite" /\ todo[c] = <<>> /\ UNCHANGED <<itemVars, call, start>>
  BY DEF OverwriteEnd
<1>2. start[c] # NULL =>
         /\ Snapshot(s) /\ sent[c] = <<>>
         /\ r.op \in {"merge", "retract"} /\ GivesType(r) =>
               TypeReached(r, s, item, "overwrite", todo[c])
  BY <1>1, UndisturbedAt DEF Reached
<1>3. ASSUME start[c] # NULL, r.op \in {"merge", "retract"}, GivesType(r)
      PROVE  /\ TypesKept(r, s, item)
             /\ \A m \in EventNodes : Entries(item[Refs(m)]) = EntriesInFact(r, s, m)
  <2>1. TypesKept(r, s, item) /\ LoopReached(r, s, item, todo[c])
    BY <1>2, <1>3 DEF TypeReached
  <2>2. \A m : Mentions(todo[c], m) = {}
    BY <1>1 DEF Mentions
  <2> QED
    BY <2>1, <2>2 DEF LoopReached
<1>4. CASE r.op = "merge"
  <2>1. Goto(c, "meta_publish") /\ UNCHANGED <<refs, type, todo>>
    BY <1>4 DEF OverwriteEnd, localVars
  <2>2. start[c] # NULL => Reached(r, s, item, "meta_publish", refs'[c], type'[c], todo'[c])
    BY <1>3, <1>4 DEF Reached, TypeReached
  <2> QED
    BY <1>0, <1>1, <1>2, <2>1, <2>2, GotoOutcome
<1>5. CASE r.op = "retract"
  <2>1. Return(c, err[c])
    BY <1>5 DEF OverwriteEnd
  <2>2. start[c] # NULL => RetypedInFact(r, s, item)
    <3>1. GivesType(r) /\ NewType(r) = "unknown"
      BY <1>5 DEF GivesType, NewType
    <3> QED
      BY <1>3, <1>5, <3>1 DEF RetypedInFact, GivesType, TypesKept
  <2>3. start'[c] # NULL => Finished(r, s, item)
    BY <1>1, <1>5, <2>2 DEF Finished
  <2> QED
    BY <1>0, <2>1, <2>3, ReturnOutcome
<1> QED
  BY <1>4, <1>5 DEF OverwriteEnd

LEMMA MetaPublishExact ==
    ASSUME RefInv, ExactInv, NEW c \in Clients, MetaPublish(c)
    PROVE  Outcome(c)
<1> DEFINE r == call[c]
           s == start[c]
           new == IF r.type \in {"none", "unknown"} THEN type[c] ELSE r.type
           it == [item EXCEPT ![Meta(r.node)] = new]
<1>0. Functions
  BY AreFunctions
<1>1. pc[c] = "meta_publish" /\ UNCHANGED <<itemVars, call>>
  BY DEF MetaPublish
<1>2. r \in Calls /\ r.op = "merge"
  BY <1>1, ClientFacts, CallFacts DEF ClientOK, After, StepsOf
<1>3. r.node \in EventNodes
  BY <1>2, CallFacts
<1>4. start[c] # NULL =>
         /\ Snapshot(s) /\ sent[c] = <<>>
         /\ GivesType(r) => TypeReached(r, s, item, "meta_publish", todo[c])
  BY <1>1, <1>2, UndisturbedAt DEF Reached
<1>5. CASE /\ GoPublish(c, Meta(r.node), new, "return")
           /\ UNCHANGED <<refs, type, todo, start>>
  <2>1. ASSUME start[c] # NULL, GivesType(r)
        PROVE  TypeReached(r, s, it, "return", todo'[c])
    <3>1. /\ TypesKept(r, s, item)
          /\ \A m \in EventNodes : Entries(item[Refs(m)]) = EntriesInFact(r, s, m)
      BY <1>4, <2>1 DEF TypeReached
    <3>2. new = NewType(r)
      BY <1>2, <2>1 DEF GivesType, NewType
    <3>3. item \in [Nodes -> Value] /\ Meta(r.node) \in Nodes
      BY <1>3, ItemNames DEF RefInv, Shape
    <3> HIDE DEF new
    <3>4. ASSUME NEW m \in EventNodes
          PROVE  /\ it[Meta(m)] = IF m = r.node THEN new ELSE item[Meta(m)]
                 /\ it[Refs(m)] = item[Refs(m)]
      <4>1. /\ Refs(m) \in Nodes /\ Meta(m) \in Nodes
            /\ (Meta(m) = Meta(r.node) <=> m = r.node) /\ Refs(m) # Meta(r.node)
        BY <1>3, ItemNames, NamesDiffer
      <4> QED
        BY <3>3, <4>1
    <3> HIDE DEF it
    <3>5. RetypedInFact(r, s, it)
      BY <1>2, <3>1, <3>2, <3>4 DEF RetypedInFact, GivesType, TypesKept
    <3> QED
      BY <3>5 DEF TypeReached
  <2>2. start[c] # NULL => Reached(r, s, it, "return", refs'[c], type'[c], todo'[c])
    <3> HIDE DEF it
    <3> QED
      BY <1>2, <2>1 DEF Reached
  <2> HIDE DEF new
  <2> QED
    BY <1>0, <1>1, <1>4, <1>5, <2>2, GoPublishOutcome
<1>6. CASE Goto(c, "crashed")
  BY <1>0, <1>6 DEF Functions, Goto, Outcome
<1>7. CASE start' = [start EXCEPT ![c] = NULL]
  BY <1>0, <1>7 DEF Functions, Outcome
<1> QED
  BY <1>5, <1>6, <1>7 DEF MetaPublish

LEMMA PublishExact ==
    ASSUME RefInv, ExactInv, NEW c \in Clients, Publish(c)
    PROVE  Outcome(c)
<1>0. Functions
  BY AreFunctions
<1>1. /\ pc[c] = "publish" /\ pc'[c] = "await" /\ UNCHANGED <<item, call, refs, type, todo, out, start>>
      /\ sent'[c] = Append(sent[c], [node |-> out[c].node, value |-> out[c].value, by |-> call[c]])
      /\ answer'[c] = "none"
  BY <1>0 DEF Functions, Publish, ItemPublish, Goto, localVars
<1> SUFFICES ASSUME start[c] # NULL
             PROVE  Exact(item, start[c], "await", call[c], refs[c], type[c], todo[c], out[c],
                          sent'[c], "none")
  BY <1>1 DEF Outcome
<1>2. /\ Snapshot(start[c]) /\ sent[c] = <<>>
      /\ Reached(call[c], start[c], Landed(item, out[c]), out[c].then, refs[c], type[c], todo[c])
  BY <1>1 DEF ExactInv, ClientExact, Exact
<1>3. sent'[c] = <<[node |-> out[c].node, value |-> out[c].value, by |-> call[c]]>>
  BY <1>1, <1>2
<1>4. Len(sent'[c]) = 1 /\ sent'[c][1].node = out[c].node /\ sent'[c][1].value = out[c].value
  BY <1>3
<1> QED
  BY <1>2, <1>4 DEF Exact, OnTheWay

LEMMA PublishedExact ==
    ASSUME RefInv, ExactInv, NEW c \in Clients,
           PublishDisconnected(c) \/ PublishAnswered(c) \/ PublishTimeout(c)
    PROVE  Outcome(c)
<1>0. Functions
  BY AreFunctions
<1>1. PICK result : /\ Published(c, result)
                    /\ result = "ok" => pc[c] = "await" /\ answer[c] = "ok"
  BY DEF PublishDisconnected, PublishAnswered, PublishTimeout
<1>2. UNCHANGED <<itemVars, call>>
  BY <1>1 DEF Published
<1>3. start'[c] # NULL => start'[c] = start[c] /\ result = "ok"
  BY <1>0, <1>1 DEF Functions, Published
<1>4. start'[c] # NULL =>
         /\ Snapshot(start[c]) /\ sent[c] = <<>>
         /\ Reached(call[c], start[c], item, out[c].then, refs[c], type[c], todo[c])
  BY <1>1, <1>3 DEF ExactInv, ClientExact, Exact, OnTheWay
<1>5. pc[c] \in {"publish", "await"}
  BY DEF PublishDisconnected, PublishAnswered, PublishTimeout
<1>6. call[c] \in Calls /\ out[c].then \in StepsOf(call[c])
  BY <1>5, ClientFacts DEF ClientOK, After
<1>7. call[c].op \in {"add", "remove", "merge", "retract"}
  BY <1>6, CallFacts
<1>8. CASE out[c].then = "return"
  <2>1. \E code : Return(c, code)
    BY <1>1, <1>8 DEF Published
  <2>2. start'[c] # NULL => Finished(call[c], start[c], item)
    <3>1. call[c].op \in {"merge", "retract"} /\ ~GivesType(call[c]) =>
              RetypedInFact(call[c], start[c], item)
      BY DEF RetypedInFact, GivesType
    <3> QED
      BY <1>4, <1>7, <1>8, <3>1 DEF Finished, Reached, AddReached, RemoveReached, TypeReached
  <2> QED
    BY <1>0, <2>1, <2>2, ReturnOutcome
<1>9. CASE out[c].then = "crashed"
  BY <1>0, <1>1, <1>9 DEF Functions, Published, Goto, Outcome
<1>10. CASE out[c].then \notin {"return", "crashed"}
  <2>1. Goto(c, out[c].then) /\ UNCHANGED <<refs, type, todo>>
    BY <1>1, <1>10 DEF Published
  <2>2. out[c].then \notin {"idle", "crashed", "publish", "await"}
    BY <1>6, <1>7, <1>10 DEF StepsOf
  <2> QED
    BY <1>0, <1>2, <1>3, <1>4, <2>1, <2>2, GotoOutcome
<1> QED
  BY <1>8, <1>9, <1>10

\* Every step of a client leaves it where the invariant says, or finished.
LEMMA StepOutcome ==
    ASSUME RefInv, ExactInv, NEW c \in Clients, ClientStep(c)
    PROVE  Outcome(c)
BY AddParentRefsExact, AddParentTypeExact, AddChildRefsExact, AddChildTypeExact,
   RemoveChildRefsExact, RemoveParentRefsExact, MetaQueryExact, MetaRefsExact, OverwriteExact,
   OverwriteEndExact, MetaPublishExact, PublishExact, PublishedExact, Zenon
   DEF ClientStep

LEMMA NewCallExact ==
    ASSUME RefInv, ExactInv, NEW c \in Clients, NEW r \in Calls, NewCall(c, r)
    PROVE  ExactInv'
<1>0. Functions
  BY AreFunctions
<1>1. OthersSame(c)
  BY <1>0 DEF Functions, OthersSame, NewCall, itemVars
<1>2. /\ call'[c] = r /\ pc'[c] = FirstStep(r) /\ UNCHANGED <<item, sent>>
      /\ start'[c] # NULL => start'[c] = item /\ sent[c] = <<>>
  BY <1>0 DEF Functions, NewCall, itemVars
<1>3. r.op \in {"add", "remove", "merge", "retract"}
  BY CallFacts
<1>4. /\ r.op = "add" => FirstStep(r) = "add_parent_refs"
      /\ r.op = "remove" => FirstStep(r) = "remove_child_refs"
      /\ r.op \in {"merge", "retract"} => FirstStep(r) = "meta"
  BY <1>3 DEF FirstStep
<1>5. Snapshot(item)
  BY DEF RefInv, Shape, ItemsInv, Snapshot
<1>6. Reached(r, item, item, FirstStep(r), refs'[c], type'[c], todo'[c])
  BY <1>3, <1>4 DEF Reached, AddReached, RemoveReached, TypeReached
<1>7. FirstStep(r) \notin {"publish", "await"}
  BY <1>3, <1>4
<1>8. ClientExact(c)'
  BY <1>2, <1>5, <1>6, <1>7 DEF ClientExact, Exact
<1> QED
  BY <1>1, <1>8, OthersExact

\* The server's steps: an undisturbed client has sent one publication, the
\* one it waits for.
LEMMA OneUnderWay ==
    ASSUME ExactInv, NEW c \in Clients, sent[c] # <<>>, start[c] # NULL,
           pc[c] \notin {"idle", "crashed"}
    PROVE  /\ pc[c] = "await" /\ Len(sent[c]) = 1 /\ Snapshot(start[c])
           /\ sent[c][1].node = out[c].node /\ sent[c][1].value = out[c].value
           /\ answer[c] = "none"
           /\ Reached(call[c], start[c], Landed(item, out[c]), out[c].then, refs[c], type[c],
                      todo[c])
BY DEF ExactInv, ClientExact, Exact, OnTheWay

LEMMA OneElement ==
    ASSUME NEW S, NEW list \in Seq(S), Len(list) = 1
    PROVE  Head(list) = list[1] /\ Tail(list) = <<>>
<1>1. list # <<>>
  OBVIOUS
<1>2. Tail(list) \in Seq(S) /\ Len(Tail(list)) = 0
  BY <1>1
<1>3. \A x \in Seq(S) : Len(x) = 0 => x = <<>>
  OBVIOUS
<1>4. Tail(list) = <<>>
  BY <1>2, <1>3
<1>5. Head(list) = list[1]
  BY <1>1
<1> QED
  BY <1>4, <1>5

LEMMA StoreExact ==
    ASSUME RefInv, ExactInv, NEW c \in Clients, Store(c)
    PROVE  ExactInv'
<1>0. Functions
  BY AreFunctions
<1>1. /\ sent[c] # <<>> /\ sent[c] \in Seq(Publication)
      /\ start' = [d \in Clients |-> IF d = c THEN start[d] ELSE NULL]
      /\ UNCHANGED <<pc, call, refs, type, todo, out>>
      /\ item' = [item EXCEPT ![Head(sent[c]).node] = Head(sent[c]).value]
      /\ sent' = [sent EXCEPT ![c] = Tail(@)]
      /\ AnswerLast(c, "ok")
  BY DEF Store, ServerStore, localVars, RefInv, Shape
<1>2. \A d \in Clients : d # c => ClientExact(d)'
  BY <1>1 DEF ClientExact
<1>3. ClientExact(c)'
  <2> SUFFICES ASSUME pc[c] \notin {"idle", "crashed"}, start[c] # NULL
               PROVE  Exact(item', start[c], pc[c], call[c], refs[c], type[c], todo[c], out[c],
                            sent'[c], answer'[c])
    BY <1>1 DEF ClientExact
  <2>1. /\ pc[c] = "await" /\ Len(sent[c]) = 1 /\ Snapshot(start[c])
        /\ sent[c][1].node = out[c].node /\ sent[c][1].value = out[c].value
        /\ Reached(call[c], start[c], Landed(item, out[c]), out[c].then, refs[c], type[c],
                   todo[c])
    BY <1>1, OneUnderWay
  <2>2. Head(sent[c]) = sent[c][1] /\ Tail(sent[c]) = <<>>
    BY <1>1, <2>1, OneElement
  <2>3. item' = Landed(item, out[c])
    BY <1>1, <2>1, <2>2 DEF Landed
  <2>4. sent'[c] = <<>> /\ answer'[c] = "ok"
    BY <1>0, <1>1, <2>1, <2>2 DEF Functions, AnswerLast
  <2> QED
    BY <2>1, <2>3, <2>4 DEF Exact, OnTheWay
<1> QED
  BY <1>1, <1>2, <1>3 DEF ExactInv

LEMMA NetworkFailsExact ==
    ASSUME RefInv, ExactInv, NEW c \in Clients, NetworkFails(c)
    PROVE  ExactInv'
<1>0. Functions
  BY AreFunctions
<1>1. /\ sent[c] # <<>> /\ sent[c] \in Seq(Publication)
      /\ UNCHANGED <<item, pc, call, refs, type, todo, out, start>>
      /\ sent' = [sent EXCEPT ![c] = Tail(@)] \/ sent' = [sent EXCEPT ![c] = <<>>]
      /\ AnswerLast(c, "error") \/ UNCHANGED answer
  BY DEF NetworkFails, ServerRefuse, LinkLost, localVars, RefInv, Shape
<1>2. OthersSame(c)
  BY <1>0, <1>1 DEF Functions, OthersSame, AnswerLast
<1>3. ClientExact(c)'
  <2> SUFFICES ASSUME pc[c] \notin {"idle", "crashed"}, start[c] # NULL
               PROVE  Exact(item, start[c], pc[c], call[c], refs[c], type[c], todo[c], out[c],
                            sent'[c], answer'[c])
    BY <1>1 DEF ClientExact
  <2>1. pc[c] = "await" /\ Len(sent[c]) = 1 /\ Snapshot(start[c]) /\ answer[c] = "none"
    BY <1>1, OneUnderWay
  <2>2. Tail(sent[c]) = <<>>
    BY <1>1, <2>1, OneElement
  <2>3. sent'[c] = <<>> /\ answer'[c] # "ok"
    BY <1>0, <1>1, <2>1, <2>2 DEF Functions, AnswerLast
  <2> QED
    BY <2>1, <2>3 DEF Exact, OnTheWay
<1> QED
  BY <1>2, <1>3, OthersExact

LEMMA ExactInvCorrect == RefSpec => []ExactInv
<1>1. RefInit => ExactInv
  BY DEF RefInit, ExactInv, ClientExact
<1>2. ASSUME RefInv, ExactInv, [RefNext]_refVars PROVE ExactInv'
  <2>1. CASE UNCHANGED refVars
    BY <1>2, <2>1 DEF refVars, itemVars, localVars, ExactInv, ClientExact
  <2>2. CASE RefNext
    <3>1. PICK c \in Clients : \/ \E r \in Calls : NewCall(c, r)
                               \/ ClientStep(c) \/ Store(c) \/ NetworkFails(c)
      BY <2>2 DEF RefNext
    <3>2. CASE ClientStep(c)
      BY <1>2, <3>2, AreFunctions, StepSame, StepOutcome, OutcomeExact
    <3> QED
      BY <1>2, <3>1, <3>2, NewCallExact, StoreExact, NetworkFailsExact, Zenon
  <2> QED
    BY <1>2, <2>1, <2>2
<1> QED
  BY <1>1, <1>2, RefInvCorrect, PTL DEF RefSpec

\* A call that nothing disturbs does exactly what it says: when
\* mio_reference_child_add, mio_reference_child_remove or one of the two meta
\* operations returns, no query or publication of it having failed and no
\* other client having published meanwhile, the items are those it began with
\* and its change, at both ends of the reference and at every node that
\* repeats the type, however long the lists.  For a removal both references
\* have to be there, and for a change of the type no node that repeats it may
\* be without another reference: the code needs these two hypotheses.
THEOREM UndisturbedCallCorrect == RefSpec => UndisturbedCallIsExact
<1> DEFINE AtReturn ==
        \A c \in Clients :
            LET r == call[c]
                old == start[c]
            IN  pc[c] # "idle" /\ pc'[c] = "idle" /\ start'[c] # NULL =>
                  \/ r.op = "add" /\ Added(r, old, item)
                  \/ r.op = "remove" /\ (BothEndsThere(r, old) => Removed(r, old, item))
                  \/ /\ r.op \in {"merge", "retract"}
                     /\ GivesType(r) /\ NoLoneReference(r, old) => Retyped(r, old, item)
<1>1. ASSUME RefInv, ExactInv, RefNext PROVE AtReturn
  <2> SUFFICES ASSUME NEW c \in Clients, pc[c] # "idle", pc'[c] = "idle", start'[c] # NULL
               PROVE  Finished(call[c], start[c], item)
    BY AllTold DEF Finished, RemovedIfThere
  <2>1. PICK d \in Clients : \/ \E r \in Calls : NewCall(d, r)
                             \/ ClientStep(d) \/ Store(d) \/ NetworkFails(d)
    BY <1>1 DEF RefNext
  <2>2. CASE \E r \in Calls : NewCall(d, r)
    <3>1. PICK r \in Calls : NewCall(d, r)
      BY <2>2
    <3>2. pc' = [pc EXCEPT ![d] = FirstStep(r)] /\ FirstStep(r) # "idle"
      BY <3>1, CallFacts DEF NewCall, FirstStep
    <3> QED
      BY <1>1, <3>2 DEF RefInv, Shape
  <2>3. CASE ClientStep(d)
    <3>1. OthersSame(d) /\ Outcome(d)
      BY <1>1, <2>3, AreFunctions, StepSame, StepOutcome
    <3>2. c = d
      BY <3>1 DEF OthersSame
    <3> QED
      BY <3>1, <3>2 DEF Outcome
  <2>4. CASE Store(d) \/ NetworkFails(d)
    BY <2>4 DEF Store, NetworkFails
  <2> QED
    BY <2>1, <2>2, <2>3, <2>4
<1>2. RefInv /\ ExactInv /\ [RefNext]_refVars => [AtReturn]_refVars
  BY <1>1
<1> HIDE DEF AtReturn
<1>3. [][AtReturn]_refVars <=> UndisturbedCallIsExact
  BY DEF AtReturn, UndisturbedCallIsExact
<1> QED
  BY <1>2, <1>3, RefInvCorrect, ExactInvCorrect, PTL DEF RefSpec

=============================================================================

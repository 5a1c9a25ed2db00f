------------------------------ MODULE MioItems ------------------------------
(***************************************************************************)
(* Items of event nodes as libMIO's query-edit-publish operations see      *)
(* them: clients read an item with mio_item_recent_get and write it as a   *)
(* whole with mio_item_publish; both are blocking calls of MioRequest, of  *)
(* which only the outcome matters here.                                    *)
(*                                                                         *)
(* A client has one connection.  What it publishes travels in order, may   *)
(* arrive after the call has timed out, and is lost when the link breaks.  *)
(* The server handles the stanzas of one connection in order, so a query   *)
(* is answered only after everything the client sent before it.            *)
(***************************************************************************)
EXTENDS Integers, Sequences

CONSTANTS
    Clients,    \* threads with a connection of their own
    Nodes       \* where items are kept: event nodes, or items of event nodes

VARIABLES
    item,       \* [Nodes -> value]: the item as the server has it
    sent,       \* [Clients -> Seq]: publications under way, oldest first
    answer      \* [Clients -> answer to the client's last publication]

itemVars == <<item, sent, answer>>

Answers == {"none", "ok", "error"}

\* Lists are searched from their head and lose the element that is found.
First(S) == CHOOSE i \in S : \A j \in S : i <= j

Without(list, i) == SubSeq(list, 1, i - 1) \o SubSeq(list, i + 1, Len(list))

\* mio_item_publish of value v to node n; `by' notes what v was computed from.
ItemPublish(c, n, v, by) ==
    /\ sent' = [sent EXCEPT ![c] = Append(@, [node |-> n, value |-> v, by |-> by])]
    /\ answer' = [answer EXCEPT ![c] = "none"]
    /\ UNCHANGED item

\* Whether a query of client c can be answered now.
QueryServed(c) == sent[c] = <<>>

\* The answer to a publication reaches a call only if it is the last one: the
\* calls that sent the earlier ones have timed out.
AnswerLast(c, a) ==
    answer' = IF Len(sent[c]) = 1 THEN [answer EXCEPT ![c] = a] ELSE answer

\* The server stores the oldest publication of client c.
ServerStore(c) ==
    /\ sent[c] # <<>>
    /\ item' = [item EXCEPT ![Head(sent[c]).node] = Head(sent[c]).value]
    /\ sent' = [sent EXCEPT ![c] = Tail(@)]
    /\ AnswerLast(c, "ok")

\* The server refuses it (no such node, not allowed).
ServerRefuse(c) ==
    /\ sent[c] # <<>>
    /\ sent' = [sent EXCEPT ![c] = Tail(@)]
    /\ AnswerLast(c, "error")
    /\ UNCHANGED item

\* The link of client c breaks and takes along what is under way.
LinkLost(c) ==
    /\ sent[c] # <<>>
    /\ sent' = [sent EXCEPT ![c] = <<>>]
    /\ UNCHANGED <<item, answer>>

=============================================================================

----------------------------- MODULE RxChannel -----------------------------
(***************************************************************************)
(* What the receive queue promises: a channel of at most Bound responses   *)
(* that may give up its oldest response to make room for a newer one, and  *)
(* otherwise hands out responses in the order in which they were put, each *)
(* once.                                                                   *)
(***************************************************************************)
EXTENDS Naturals, Sequences

CONSTANTS Items, Bound

VARIABLES buf, out

channelVars == <<buf, out>>

Newer(x) ==
    /\ \A i \in 1..Len(buf) : buf[i] < x
    /\ \A i \in 1..Len(out) : out[i] < x

ChannelInit == buf = <<>> /\ out = <<>>

Put(x) ==
    /\ Newer(x)
    /\ Len(buf) < Bound
    /\ buf' = Append(buf, x)
    /\ UNCHANGED out

PutDroppingOldest(x) ==
    /\ Newer(x)
    /\ buf # <<>>
    /\ buf' = Append(Tail(buf), x)
    /\ UNCHANGED out

Take ==
    /\ buf # <<>>
    /\ out' = Append(out, Head(buf))
    /\ buf' = Tail(buf)

ChannelNext == (\E x \in Items : Put(x) \/ PutDroppingOldest(x)) \/ Take

ChannelSpec == ChannelInit /\ [][ChannelNext]_channelVars

=============================================================================

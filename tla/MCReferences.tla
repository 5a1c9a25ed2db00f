---------------------------- MODULE MCReferences ----------------------------
(* MioReferences for TLC. *)
EXTENDS MioReferences, TLC

CONSTANTS room, sensor, lamp

Add(p, c, b) == [op |-> "add", parent |-> p, child |-> c, at_child |-> b]
Remove(p, c) == [op |-> "remove", parent |-> p, child |-> c]
Merge(n, t) == [op |-> "merge", node |-> n, type |-> t]
Retract(n) == [op |-> "retract", node |-> n]

MCNodes == EventNodes \X {"references", "meta"}

\* A room with a lamp and a sensor in it.
Entry(t, m, n) == [type |-> t, node |-> n, meta |-> m]

MCStart ==
    [n \in MCNodes |->
        CASE n = Refs(room) -> <<Entry("child", "device", lamp), Entry("child", "device", sensor)>>
          [] n \in {Refs(lamp), Refs(sensor)} -> <<Entry("parent", "location", room)>>
          [] n = Meta(room) -> "location"
          [] n \in {Meta(lamp), Meta(sensor)} -> "device"]

MCStarts == {MCStart}

\* Additions that can form a loop, removals of a reference that is there and
\* of one that is not, changes of a type that the room repeats, and one of the
\* room's type, which two nodes repeat that have no other reference.
MCCalls ==
    {Add(lamp, sensor, TRUE), Add(sensor, lamp, FALSE),
     Remove(room, lamp), Remove(lamp, sensor),
     Merge(lamp, "location"), Merge(lamp, "none"), Retract(lamp), Merge(room, "device")}

ClientSymmetry == Permutations(Clients)
=============================================================================

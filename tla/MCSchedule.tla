----------------------------- MODULE MCSchedule -----------------------------
(* MioSchedule for TLC. *)
EXTENDS MioSchedule, TLC

CONSTANTS n1, v1, v2

E(id, text, rec) ==
    [id |-> id, field |-> [f \in Fields |-> text], recurrence |-> rec]

Merge(events) == [op |-> "merge", node |-> n1, events |-> events, id |-> 0]
Remove(id) == [op |-> "remove", node |-> n1, events |-> <<>>, id |-> id]

Weekly == [bymonth |-> v1, byday |-> v2]
Monthly == [bymonth |-> v2, byday |-> NULL]
Daily == [bymonth |-> NULL, byday |-> v1]

\* Two new events at once (in an empty schedule they get an entry each, in
\* another the second is taken for the first), an event with a recurrence of
\* which the byday is not kept, one with a recurrence that cannot be written,
\* and the removal of the second event, which may not exist.
MCCalls ==
    {Merge(<<E(-1, v1, NULL), E(-1, v2, Monthly)>>),
     Merge(<<E(0, v2, Weekly)>>),
     Merge(<<E(1, NULL, Daily)>>),
     Remove(1)}

ClientSymmetry == Permutations(Clients)
=============================================================================

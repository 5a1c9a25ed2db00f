------------------------------- MODULE MCMeta -------------------------------
(* MioMeta for TLC. *)
EXTENDS MioMeta, TLC

CONSTANTS n1, a, b, v1, v2

P(n, v) == [name |-> n, value |-> v]
Here(acc, alt) == [accuracy |-> acc, alt |-> alt, region |-> NULL]
T(n, unit, geo, ps) ==
    [name |-> n, unit |-> unit, interface |-> NULL, manufacturer |-> NULL,
     info |-> unit, geoloc |-> geo, properties |-> ps]
Device(text, geo, ts, ps) ==
    [type |-> "device", text |-> text, geoloc |-> geo, transducers |-> ts, properties |-> ps]

Merge(m, ts, ps) ==
    [op |-> "merge", node |-> n1, meta |-> m, transducers |-> ts, properties |-> ps]
Remove(ts, ps) == [op |-> "remove", node |-> n1, transducers |-> ts, properties |-> ps]
Retract == [op |-> "retract", node |-> n1]
RemoveGeoloc(t) == [op |-> "geoloc", node |-> n1, transducer |-> t]

\* A device with a property and a transducer, which has a property.
MCStarts ==
    {[n \in Nodes |->
        Device(v1, NULL, <<[T(a, v1, NULL, <<P(a, v1)>>) EXCEPT !.info = NULL, !.interface = v1]>>,
               <<P(b, v1)>>)]}

\* Registration of a device with two transducers, a location and a property
\* for a transducer together with device properties, a manufacturer and an
\* altitude that can be written only with what is there already, a location for
\* whatever there is, and removals.
MCCalls ==
    {Merge(Device(v1, Here(v1, v2), <<>>, <<P(a, v1), P(b, v2)>>),
           <<T(b, v2, NULL, <<P(a, v2), P(b, v2)>>), T(a, v2, NULL, <<>>)>>, <<>>),
     Merge(NULL, <<T(a, NULL, Here(v1, NULL), <<P(b, v2)>>)>>, <<P(a, v2), P(b, v2)>>),
     Merge(NULL, <<[T(a, NULL, Here(NULL, v1), <<>>) EXCEPT !.manufacturer = v2]>>, <<>>),
     Merge([Device(NULL, Here(v2, NULL), <<>>, <<>>) EXCEPT !.type = "unknown"], <<>>, <<>>),
     Remove(<<a>>, <<a>>), Retract, RemoveGeoloc(NULL), RemoveGeoloc(a)}

ClientSymmetry == Permutations(Clients)
=============================================================================

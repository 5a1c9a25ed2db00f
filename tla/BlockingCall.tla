---------------------------- MODULE BlockingCall ----------------------------
(***************************************************************************)
(* What a blocking libMIO call promises its caller, with no threads, locks *)
(* or stanzas: at most MaxOpen calls are open at a time, an open call may  *)
(* be answered by the server, and a call that reports success has been     *)
(* answered.  A slot may be lost for good when a call returns (the code    *)
(* has such paths), which is why a return need not lower the count.        *)
(***************************************************************************)
EXTENDS Naturals, FiniteSets

CONSTANTS Calls, MaxOpen

VARIABLES
    phase,     \* [Calls -> {"idle", "open", "returned"}]
    slots,     \* calls that hold one of the MaxOpen slots
    answered,  \* calls whose response has been processed
    outcome    \* [Calls -> {"none", "ok", "error"}]

abstractVars == <<phase, slots, answered, outcome>>

AbstractInit ==
    /\ phase = [c \in Calls |-> "idle"]
    /\ slots = {}
    /\ answered = {}
    /\ outcome = [c \in Calls |-> "none"]

Open(c) ==
    /\ phase[c] = "idle"
    /\ Cardinality(slots) < MaxOpen
    /\ phase' = [phase EXCEPT ![c] = "open"]
    /\ slots' = slots \cup {c}
    /\ UNCHANGED <<answered, outcome>>

\* A response can still be processed when its call has given up.
Answer(c) ==
    /\ phase[c] # "idle"
    /\ answered' = answered \cup {c}
    /\ UNCHANGED <<phase, slots, outcome>>

Return(c) ==
    /\ phase[c] = "open"
    /\ phase' = [phase EXCEPT ![c] = "returned"]
    /\ \/ slots' = slots \ {c}
       \/ UNCHANGED slots
    /\ \/ c \in answered /\ outcome' = [outcome EXCEPT ![c] = "ok"]
       \/ outcome' = [outcome EXCEPT ![c] = "error"]
    /\ UNCHANGED answered

AbstractNext == \E c \in Calls : Open(c) \/ Answer(c) \/ Return(c)

AbstractSpec ==
    /\ AbstractInit
    /\ [][AbstractNext]_abstractVars
    /\ \A c \in Calls : WF_abstractVars(Return(c))

=============================================================================

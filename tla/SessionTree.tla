---------------------------- MODULE SessionTree ----------------------------
(***************************************************************************)
(* What the end of a realtime session promises, without machines, channels *)
(* or contexts.  A session has three levels of workers: the inputs, which  *)
(* start responses, the responses, which start compactions, and the        *)
(* compactions.  The session closes its levels in this order, a level only *)
(* when the levels above it have ended, and is over only when all have.    *)
(***************************************************************************)
EXTENDS Integers

CONSTANTS
    Inputs,
    Responses,
    Compactions

VARIABLES
    closed,             \* levels in which no worker starts any more; 4 is the end
    inputs,             \* workers that run, by level
    responses,
    compactions

treeVars == <<closed, inputs, responses, compactions>>

Init ==
    /\ closed = 0
    /\ inputs = {}
    /\ responses = {}
    /\ compactions = {}

StartInput ==
    /\ closed = 0
    /\ \E w \in Inputs \ inputs : inputs' = inputs \cup {w}
    /\ UNCHANGED <<closed, responses, compactions>>

\* By the client while the session is open, or by an input that still runs.
StartResponse ==
    /\ closed = 0 \/ (closed = 1 /\ inputs # {})
    /\ \E w \in Responses \ responses : responses' = responses \cup {w}
    /\ UNCHANGED <<closed, inputs, compactions>>

StartCompaction ==
    /\ closed < 3
    /\ responses # {}
    /\ \E w \in Compactions \ compactions : compactions' = compactions \cup {w}
    /\ UNCHANGED <<closed, inputs, responses>>

EndInput ==
    /\ \E w \in inputs : inputs' = inputs \ {w}
    /\ UNCHANGED <<closed, responses, compactions>>

EndResponse ==
    /\ \E w \in responses : responses' = responses \ {w}
    /\ UNCHANGED <<closed, inputs, compactions>>

EndCompaction ==
    /\ \E w \in compactions : compactions' = compactions \ {w}
    /\ UNCHANGED <<closed, inputs, responses>>

Close ==
    /\ \/ closed = 0
       \/ closed = 1 /\ inputs = {}
       \/ closed = 2 /\ responses = {}
       \/ closed = 3 /\ compactions = {}
    /\ closed' = closed + 1
    /\ UNCHANGED <<inputs, responses, compactions>>

Next ==
    \/ StartInput \/ StartResponse \/ StartCompaction
    \/ EndInput \/ EndResponse \/ EndCompaction
    \/ Close

Spec == Init /\ [][Next]_treeVars
=============================================================================

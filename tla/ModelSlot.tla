------------------------------ MODULE ModelSlot ------------------------------
(***************************************************************************)
(* What the users of ModelLoader may rely on for one model ID, without     *)
(* locks, requests or retries: the model has at most one backend process,  *)
(* the process is registered only once it serves, and the registration is  *)
(* withdrawn only once the process is gone.                                *)
(***************************************************************************)
CONSTANTS
    Handle,
    NoHandle

VARIABLES
    resident,           \* the handle the store answers with
    running             \* handles whose process runs

slotVars == <<resident, running>>

Init ==
    /\ resident = NoHandle
    /\ running = {}

\* A load starts the process.
Start ==
    /\ resident = NoHandle
    /\ running = {}
    /\ \E h \in Handle : running' = {h}
    /\ UNCHANGED resident

\* The load succeeds.
Publish ==
    /\ resident = NoHandle
    /\ resident' \in running
    /\ UNCHANGED running

\* The load fails, or the model is unloaded: the process is stopped first.
Stop ==
    /\ running # {}
    /\ running' = {}
    /\ UNCHANGED resident

Forget ==
    /\ resident # NoHandle
    /\ running = {}
    /\ resident' = NoHandle
    /\ UNCHANGED running

Next == Start \/ Publish \/ Stop \/ Forget

Spec == Init /\ [][Next]_slotVars
=============================================================================

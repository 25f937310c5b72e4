---------------------------- MODULE MCEventTimers ----------------------------
(* Small instances of EventTimers.                                          *)
EXTENDS EventTimers

CONSTANTS e1, e2, e3

\* The tree is used through the timers only.
MCKeyOf == [e \in Node |-> {}]
=============================================================================

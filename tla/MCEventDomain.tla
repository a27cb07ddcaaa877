----------------------------- MODULE MCEventDomain -----------------------------
(* Instances of EventDomain: every timer belongs to the first subscriber.      *)
EXTENDS EventDomain

CONSTANTS s1, w1

AllToFirst == [n \in Nodes |-> s1]
OneWorker == [s \in Subs |-> w1]
================================================================================

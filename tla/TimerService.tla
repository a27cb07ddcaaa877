----------------------------- MODULE TimerService -----------------------------
(***************************************************************************)
(* What a set of timers promises, without a tree, locks or threads: an     *)
(* armed timer fires when its deadline has passed, not before, and then is *)
(* disarmed or armed again for a later time; a disarmed timer is silent.   *)
(***************************************************************************)
EXTENDS Naturals

CONSTANTS Timers, MaxTime

VARIABLES
  armed,     \* timers that are going to fire
  repeats,   \* timers that are armed again when they fire
  deadline,  \* when
  now,
  beat       \* parity of the number of times each timer fired

serviceVars == <<armed, repeats, deadline, now, beat>>

ServiceInit ==
  /\ armed = {} /\ repeats = {} /\ now = 0
  /\ deadline = [n \in Timers |-> 0]
  /\ beat = [n \in Timers |-> 0]

\* Another mode takes effect when the timer fires, armed or not.
ChangeMode(n) ==
  \/ repeats' = repeats \cup {n}
  \/ repeats' = repeats \ {n}

Arm(n) ==
  /\ n \notin armed
  /\ \E d \in now + 1 .. MaxTime : deadline' = [deadline EXCEPT ![n] = d]
  /\ armed' = armed \cup {n}
  /\ ChangeMode(n)
  /\ UNCHANGED <<now, beat>>

Adjust(n) == ChangeMode(n) /\ UNCHANGED <<armed, deadline, now, beat>>

Disarm(n) ==
  /\ n \in armed
  /\ armed' = armed \ {n}
  /\ UNCHANGED <<repeats, deadline, now, beat>>

Fire(n) ==
  /\ n \in armed /\ deadline[n] <= now
  /\ beat' = [beat EXCEPT ![n] = 1 - @]
  /\ IF n \in repeats
       THEN /\ \E d \in now + 1 .. 2 * MaxTime : deadline' = [deadline EXCEPT ![n] = d]
            /\ UNCHANGED armed
       ELSE armed' = armed \ {n} /\ UNCHANGED deadline
  /\ UNCHANGED <<repeats, now>>

Tick == now' = now + 1 /\ UNCHANGED <<armed, repeats, deadline, beat>>

ServiceNext ==
  Tick \/ \E n \in Timers : Arm(n) \/ Adjust(n) \/ Disarm(n) \/ Fire(n)

ServiceSafety == ServiceInit /\ [][ServiceNext]_serviceVars
===============================================================================

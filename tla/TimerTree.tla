------------------------------- MODULE TimerTree -------------------------------
(***************************************************************************)
(* The timers of libNGX (src/Core/Support/TimerTree.cpp): nodes of an      *)
(* RBTree ordered by the time at which they expire.  Whether a timer is    *)
(* attached is read off its Parent pointer.                                *)
(***************************************************************************)
EXTENDS RBTree, Naturals

CONSTANTS
  Intervals,  \* the values given for Period and Interval, 0 included
  MaxTime     \* bound of the clock

ASSUME TimersAssumption == Intervals \subseteq Nat /\ MaxTime \in Nat

Timers == Nodes
Modes == {"once", "interval"}   \* TM_ONCE, TM_INTERVAL

VARIABLES
  tree,                   \* the pointers of the tree and of its timers
  mode, interval, stamp,  \* Mode, Interval and Timestamp of each timer
  now                     \* what GetHighResolutionTimestamp returns

timerVars == <<mode, interval, stamp>>

TimersInit ==
  /\ tree = NewTree
  /\ mode = [n \in Timers |-> "once"]
  /\ interval = [n \in Timers |-> 0]
  /\ stamp = [n \in Timers |-> 0]
  /\ now = 0

\* isAttached: in a tree a timer has another timer, or none, as its parent.
IsAttached(t, n) == t.parent[n] # n

\* operator- against the timers of the tree, with timestamps s.
Earlier(s, n) == {m \in Timers : s[n] > s[m]}

\* attach of a timer that is not attached and has an interval.
Attach(t, n, s) == Insert(t, n, Earlier(s, n))

-----------------------------------------------------------------------------
\* Mutant: the timer that is already attached is attached once more.
SetTwice(n, m, i) ==
  /\ mode' = [mode EXCEPT ![n] = m]
  /\ interval' = [interval EXCEPT ![n] = i]
  /\ IF i = 0
       THEN UNCHANGED <<tree, stamp>>
       ELSE /\ stamp' = [stamp EXCEPT ![n] = now + i]
            /\ tree' = Attach(tree, n, stamp')

\* setOnce and setInterval: Mode and Interval are overwritten before the
\* timer is found to be attached (EALREADY) or the interval to be 0 (EBADF).
Set(n, m, i) ==
  /\ mode' = [mode EXCEPT ![n] = m]
  /\ interval' = [interval EXCEPT ![n] = i]
  /\ IF IsAttached(tree, n) \/ i = 0
       THEN UNCHANGED <<tree, stamp>>
       ELSE /\ stamp' = [stamp EXCEPT ![n] = now + i]
            /\ tree' = Attach(tree, n, stamp')

Stop(n) ==
  /\ tree' = IF IsAttached(tree, n) THEN Remove(tree, n) ELSE tree
  /\ UNCHANGED timerVars

\* What emitExpiredTimer does to the tree with an expired timer: stop, then
\* respawnInterval, which attaches it again if its interval is not 0.
Expire(n) ==
  LET stopped == IF IsAttached(tree, n) THEN Remove(tree, n) ELSE tree IN
  /\ UNCHANGED <<mode, interval>>
  /\ IF mode[n] = "interval" /\ interval[n] # 0
       THEN /\ stamp' = [stamp EXCEPT ![n] = now + interval[n]]
            /\ tree' = Attach(stopped, n, stamp')
       ELSE tree' = stopped /\ UNCHANGED stamp

\* The clock, bounded by MaxTime.
Tick ==
  /\ now < MaxTime
  /\ now' = now + 1
  /\ UNCHANGED <<tree, timerVars>>

Operation(n) ==
  \/ \E m \in Modes, i \in Intervals : Set(n, m, i)
  \/ Stop(n) \/ Expire(n)

TimersNext ==
  \/ \E n \in Timers : Operation(n) /\ UNCHANGED now
  \/ Tick

TimersSpec == TimersInit /\ [][TimersNext]_<<tree, timerVars, now>>

-----------------------------------------------------------------------------
(* Properties. *)

\* Every variable has the values its declaration in the code allows.
TimersTypeOK ==
  /\ tree \in Trees
  /\ mode \in [Timers -> Modes]
  /\ interval \in [Timers -> Intervals \cup {0}]
  /\ stamp \in [Timers -> Nat]
  /\ now \in 0 .. MaxTime

\* Whatever the order of the timer calls and of expiry, no node of the tree
\* ever gets a child: it is a list through the Parent pointers, and rotations
\* and recolouring (two thirds of RBTree.cpp) are never reached.
TimersAreFlat == Flat(tree) /\ ~tree.fixup
================================================================================

------------------------------ MODULE EventDomain ------------------------------
(***************************************************************************)
(* The event loop of libNGX: EPollEventDomain::eventLoop                   *)
(* (src/Core/Target/Linux/EPollEventDomain.cpp), the expiry of timers and  *)
(* the timer calls of EventDomain (src/Core/Support/EventDomain.cpp and    *)
(* its header).                                                            *)
(*                                                                         *)
(* One application thread runs the loop and finally destroys the domain.   *)
(* Events are posted as jobs to the worker of their subscriber, whose      *)
(* handler may hold the lock of the subscriber and may call the domain's   *)
(* timer operations.  The domain's spin lock is held by the loop while it  *)
(* waits in epoll, while it expires timers, and by the destructor; a timer *)
(* operation holds it for its own duration only and is one step.           *)
(***************************************************************************)
EXTENDS TimerTree, Sequences

CONSTANTS
  Subs,         \* subscribers: connections and listening sockets
  SubOf,        \* the subscriber each timer is set for (pData)
  Workers,
  WorkerOf,     \* the worker of each subscriber
  MaxJobs,      \* bound: jobs a worker's thread has memory for
  HandlersLock, \* do handlers hold their subscriber's lock
  Destroys      \* is the domain destroyed at some time

ASSUME DomainAssumption ==
  /\ SubOf \in [Timers -> Subs]
  /\ WorkerOf \in [Subs -> Workers]
  /\ MaxJobs \in Nat
  /\ HandlersLock \in BOOLEAN /\ Destroys \in BOOLEAN

VARIABLES
  lpc,       \* where the loop is: "out", "dispatch", "emit", "join", "done"
  batch,     \* subscribers whose events epoll returned and that wait for dispatch
  it, ts,    \* the timer emitExpiredTimer looks at, the time it started
  jobs,      \* jobs posted to each worker and not begun
  wpc, cur,  \* where each worker is, and the subscriber whose event it handles
  beat,      \* history, per timer: parity of the TIMER events posted for it (or lost)
  intact     \* history: no timer was removed while another one was set

loopVars == <<lpc, batch, it, ts>>
workVars == <<wpc, cur>>
histVars == <<beat, intact>>
vars == <<tree, timerVars, now, loopVars, jobs, workVars, histVars>>

Init ==
  /\ TimersInit
  /\ lpc = "out" /\ batch = {} /\ it = Null /\ ts = 0
  /\ jobs = [w \in Workers |-> <<>>]
  /\ wpc = [w \in Workers |-> "idle"]
  /\ cur = [w \in Workers |-> CHOOSE s \in Subs : TRUE]
  /\ beat = [n \in Timers |-> 0] /\ intact = TRUE

\* The domain's lock is free: neither expiry nor the destructor is under way.
LockFree == lpc \in {"out", "dispatch", "done"}

\* The lock of s is held by the handler of one of its events.
SubLocked(s) ==
  /\ HandlersLock
  /\ cur[WorkerOf[s]] = s /\ wpc[WorkerOf[s]] \in {"run", "call", "end"}

\* postEvent: a job for the worker of s, lost when postJob answers an error,
\* since no caller looks at the answer.
PostEvent(s) ==
  LET w == WorkerOf[s] IN
  jobs' = IF Len(jobs[w]) < MaxJobs
            THEN [jobs EXCEPT ![w] = Append(@, s)]
            ELSE jobs

\* What the removal of n, if it is attached, does to the history.
Removal(n) ==
  intact' = (intact /\ (IsAttached(tree, n) => \A m \in Timers \ {n} : ~IsAttached(tree, m)))

-----------------------------------------------------------------------------
(* The loop. *)

\* epoll_pwait returns with events, possibly none.  When it is interrupted or
\* fails, eventLoop returns before it looks at the timers: a stuttering step.
Poll ==
  /\ lpc = "out"
  /\ \E ready \in SUBSET Subs : batch' = ready
  /\ lpc' = "dispatch"
  /\ UNCHANGED <<tree, timerVars, now, it, ts, jobs, workVars, histVars>>

\* The events are dispatched without the lock under which they were collected.
Dispatch ==
  /\ lpc = "dispatch"
  /\ \E s \in batch : PostEvent(s) /\ batch' = batch \ {s}
  /\ UNCHANGED <<tree, timerVars, now, lpc, it, ts, workVars, histVars>>

EmitBegin ==
  /\ lpc = "dispatch" /\ batch = {}
  /\ lpc' = "emit"
  /\ ts' = now
  /\ it' = Begin(tree)
  /\ UNCHANGED <<tree, timerVars, now, batch, jobs, workVars, histVars>>

\* The pass is at a timer that had expired when it started.
Expired == it # Null /\ stamp[it] <= ts

\* Mutant: lock() in place of tryLock().
EmitWaits == FALSE /\ UNCHANGED vars

\* tryLock fails: the timer stays for another round.
EmitBusy ==
  /\ lpc = "emit" /\ Expired
  /\ SubLocked(SubOf[it])
  /\ it' = NextOf(tree, it)
  /\ UNCHANGED <<tree, timerVars, now, lpc, batch, ts, jobs, workVars, histVars>>

\* The timer is stopped, its event posted, and it is attached again if it is
\* an interval timer; the subscriber's lock is taken and released in between.
EmitTimer ==
  /\ lpc = "emit" /\ Expired
  /\ ~SubLocked(SubOf[it])
  /\ Expire(it)
  /\ PostEvent(SubOf[it])
  /\ beat' = [beat EXCEPT ![it] = 1 - @] /\ Removal(it)
  /\ it' = NextOf(tree, it)
  /\ UNCHANGED <<now, lpc, batch, ts, workVars>>

\* The end of the tree, or the first timer that has not expired.
EmitEnd ==
  /\ lpc = "emit"
  /\ ~Expired
  /\ lpc' = "out" /\ it' = Null
  /\ UNCHANGED <<tree, timerVars, now, batch, ts, jobs, workVars, histVars>>

\* ~EventDomain takes the lock and keeps it while the pool joins the workers.
Destroy ==
  /\ Destroys /\ lpc = "out"
  /\ lpc' = "join"
  /\ UNCHANGED <<tree, timerVars, now, batch, it, ts, jobs, workVars, histVars>>

Joined ==
  /\ lpc = "join"
  /\ \A w \in Workers : wpc[w] = "exited"
  /\ lpc' = "done"
  /\ UNCHANGED <<tree, timerVars, now, batch, it, ts, jobs, workVars, histVars>>

-----------------------------------------------------------------------------
(* Workers and the handlers they run, which the application supplies. *)

\* A worker begins the next job.  All events of a subscriber are handled by
\* one worker, so the handler finds the subscriber's lock free.
Handle(w) ==
  /\ wpc[w] = "idle" /\ jobs[w] # <<>>
  /\ cur' = [cur EXCEPT ![w] = Head(jobs[w])]
  /\ jobs' = [jobs EXCEPT ![w] = Tail(@)]
  /\ wpc' = [wpc EXCEPT ![w] = "run"]
  /\ UNCHANGED <<tree, timerVars, now, loopVars, histVars>>

\* The handler decides to call a timer operation and waits for the lock ...
Call(w) ==
  /\ wpc[w] = "run"
  /\ wpc' = [wpc EXCEPT ![w] = "call"]
  /\ UNCHANGED <<tree, timerVars, now, loopVars, jobs, cur, histVars>>

\* ... setTimerOnce, setTimeInterval or stopTimer.
TimerCall ==
  \E n \in Timers :
    \/ \E m \in Modes, i \in Intervals :
         /\ now + i <= MaxTime
         /\ Set(n, m, i) /\ UNCHANGED intact
    \/ Stop(n) /\ Removal(n)

Operate(w) ==
  /\ wpc[w] = "call" /\ LockFree
  /\ TimerCall
  /\ wpc' = [wpc EXCEPT ![w] = "end"]
  /\ UNCHANGED <<now, loopVars, jobs, cur, beat>>

HandlerEnds(w) ==
  /\ wpc[w] \in {"run", "end"}
  /\ wpc' = [wpc EXCEPT ![w] = "idle"]
  /\ UNCHANGED <<tree, timerVars, now, loopVars, jobs, cur, histVars>>

\* Mutant: the workers are not told to stop.
WorkerStays(w) == lpc = "join" /\ wpc[w] = "idle" /\ UNCHANGED vars

\* The worker was told to stop and runs no job; what it still has is dropped.
WorkerExits(w) ==
  /\ lpc = "join" /\ wpc[w] = "idle"
  /\ wpc' = [wpc EXCEPT ![w] = "exited"]
  /\ UNCHANGED <<tree, timerVars, now, loopVars, jobs, cur, histVars>>

\* The application thread sets timers between two rounds of the loop.
AppCall ==
  /\ lpc = "out"
  /\ TimerCall
  /\ UNCHANGED <<now, loopVars, jobs, workVars, beat>>

TimePasses == Tick /\ UNCHANGED <<loopVars, jobs, workVars, histVars>>

LoopStep == Dispatch \/ EmitBegin \/ EmitBusy \/ EmitTimer \/ EmitEnd \/ Joined
WorkerStep(w) == Handle(w) \/ Operate(w) \/ HandlerEnds(w) \/ WorkerExits(w)

Next ==
  \/ Poll \/ Destroy
  \/ LoopStep
  \/ \E w \in Workers : WorkerStep(w) \/ Call(w)
  \/ AppCall \/ TimePasses
  \/ lpc = "done" /\ UNCHANGED vars

Spec == Init /\ [][Next]_vars

\* The application keeps calling eventLoop until it destroys the domain, every
\* thread keeps being scheduled, and not every wait in epoll is interrupted.  A
\* handler that waits for the domain's lock gets it once it stays free; nothing
\* is assumed of one that competes with the loop for it.
Fairness ==
  /\ WF_vars(Poll) /\ WF_vars(LoopStep)
  /\ \A w \in Workers : WF_vars(WorkerStep(w))

FairSpec == Spec /\ Fairness

-----------------------------------------------------------------------------
(* Properties. *)

\* One pass of emitExpiredTimer ends, although the Parent pointers it follows
\* may form a cycle and it changes them under its feet.
EmitEnds == (lpc = "emit") ~> (lpc # "emit")

\* The destructor, which holds the domain's lock, waits for ever only for a
\* handler that waits for that lock.
DestructorWaitsForCall ==
  (lpc = "join") ~> (lpc = "done" \/ \E w \in Workers : wpc[w] = "call")

-----------------------------------------------------------------------------
\* What setTimerOnce, setTimeInterval and stopTimer promise: a set of armed
\* timers with their deadlines.
Service == INSTANCE TimerService WITH
  armed <- {n \in Timers : IsAttached(tree, n)},
  repeats <- {n \in Timers : mode[n] = "interval" /\ interval[n] # 0},
  deadline <- stamp

\* What remove() leaves behind when the node has a parent, or another node has
\* it as its parent: a timer that is detached and that the pass comes to, ...
FiresDetached == EmitTimer /\ ~IsAttached(tree, it)

\* ... or that is Root and is set, so that it becomes its own parent.
SetIsLost ==
  LET r == tree.root IN
  /\ r # Null /\ ~IsAttached(tree, r)
  /\ \E m \in Modes, i \in Intervals : Set(r, m, i)

\* The same in one step: Root, with a parent, is an interval timer and fires.
RespawnIsLost ==
  /\ EmitTimer
  /\ it = tree.root /\ tree.parent[it] # Null
  /\ mode[it] = "interval" /\ interval[it] # 0

\* Any number of timers, set, set again and stopped by the application and by
\* handlers between two passes of the loop: every step is one of the service or
\* invisible in it, with the three exceptions above, all that the pointers kept
\* by RBTree::remove can make of a step.  Two of them need a timer to have been
\* removed while another was set; the third is such a removal.
ServedUnlessStale ==
  /\ Service!ServiceInit
  /\ [][\/ [Service!ServiceNext]_(Service!serviceVars)
        \/ ~intact /\ (FiresDetached \/ SetIsLost)
        \/ RespawnIsLost]_vars
================================================================================

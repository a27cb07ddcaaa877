------------------------------ MODULE ThreadPool ------------------------------
(***************************************************************************)
(* The worker threads of libNGX (src/Core/Support/ThreadPool.cpp).         *)
(*                                                                         *)
(* A pool owns NumThread threads.  Each has a job list, a spin lock, a     *)
(* pressure score and one worker.  Callers (the threads of the             *)
(* application, and the bodies of the jobs themselves) pick the thread     *)
(* with the lowest score without taking a lock and append a job to its     *)
(* list under its lock.  The worker sleeps, takes the lock, and once it    *)
(* finds a job runs the whole list, releasing the lock only while a body   *)
(* runs; it looks at Running again only after the list is empty.  The      *)
(* destructor stops, joins and deletes the threads one after the other.    *)
(*                                                                         *)
(* The lock is explicit: acquiring it, the code between, and releasing it  *)
(* are separate steps of the process that holds it, wherever another       *)
(* process can observe the difference.                                     *)
(***************************************************************************)
EXTENDS Naturals, Sequences, FiniteSets

CONSTANTS
  NumThread,    \* the constructor's argument (8 by default)
  Clients,      \* application threads that post jobs
  Owner,        \* the application thread that builds and destroys the pool
  Jobs,         \* identities of the jobs, each posted at most once
  Spawn,        \* the job the body of a job posts, or NoJob
  NoJob, NoProc,
  ScoreMax,     \* UINT32_MAX, the largest PressureScore
  JobCapacity   \* bound: Job objects one ThreadLocalPool has memory for

Threads == 1 .. NumThread
Callers == Clients \cup Threads
Procs   == Callers \cup {Owner}

ASSUME PoolAssumption ==
  /\ NumThread \in Nat
  /\ ScoreMax \in Nat
  /\ JobCapacity \in Nat
  /\ JobCapacity < ScoreMax
  /\ Clients \cap Nat = {}
  /\ Owner \notin Callers
  /\ NoProc \notin Procs
  /\ NoJob \notin Jobs
  /\ Spawn \in [Jobs -> Jobs \cup {NoJob}]

VARIABLES
  lock,      \* holder of each thread's spin lock
  queue,     \* the list behind Sentinel
  running,   \* Running
  pressure,  \* PressureScore
  live,      \* Job objects allocated from ThreadLocalPool and not freed
  wpc, cur,  \* where each worker is and the job it detached
  cpc, cjob, \* where each caller is and the job it is posting
  cidx, cbest, cret, \* fetchOneThread: loop index, PressureScore, Ret
  opc, oidx, \* where the owner is and the thread its loop is at
  result,    \* what became of the call that posts each job
  fault,     \* the first access to a deleted thread: <<caller, thread>>
  accepted,  \* history: jobs appended to each list, in order
  executed   \* history: jobs whose body was entered, in order

workerVars == <<wpc, cur>>
callVars   == <<cpc, cjob, cidx, cbest, cret, result>>
ownerVars  == <<opc, oidx>>
listVars   == <<queue, pressure, live, accepted, executed>>
vars == <<lock, running, fault, workerVars, callVars, ownerVars, listVars>>

WorkerStates == {"none", "sleep", "check", "drain", "run", "relock", "free",
                 "exited", "deleted"}
CallStates   == {"idle", "compare", "take", "lock", "crit"}
OwnerStates  == {"start", "running", "stop", "stopSet", "join", "delete", "done"}
Results      == {"none", "pending", "posted", "EFAULT", "ENOMEM", "null"}

Deleted == {t \in Threads : wpc[t] = "deleted"}

\* Jobs an application thread posts; the others are posted by job bodies.
ClientJobs == {j \in Jobs : \A k \in Jobs : Spawn[k] # j}

\* PressureScore is a uint32_t.
NoDecrement(x) == x  \* mutant: a finished job keeps its weight
Increment(x) == IF x = ScoreMax THEN 0 ELSE x + 1
Decrement(x) == IF x = 0 THEN ScoreMax ELSE x - 1

Init ==
  /\ lock = [t \in Threads |-> NoProc]
  /\ queue = [t \in Threads |-> <<>>]
  /\ running = [t \in Threads |-> TRUE]
  /\ pressure = [t \in Threads |-> 0]
  /\ live = [t \in Threads |-> {}]
  /\ wpc = [t \in Threads |-> "none"]
  /\ cur = [t \in Threads |-> NoJob]
  /\ cpc = [c \in Callers |-> "idle"]
  /\ cjob = [c \in Callers |-> NoJob]
  /\ cidx = [c \in Callers |-> 1]
  /\ cbest = [c \in Callers |-> ScoreMax]
  /\ cret = [c \in Callers |-> 0]
  /\ opc = IF NumThread = 0 THEN "running" ELSE "start"
  /\ oidx = 1
  /\ result = [j \in Jobs |-> "none"]
  /\ fault = <<>>
  /\ accepted = [t \in Threads |-> <<>>]
  /\ executed = [t \in Threads |-> <<>>]

-----------------------------------------------------------------------------
(* Spin lock of thread t. *)
AcquireAnyway(p, t) == lock' = [lock EXCEPT ![t] = p]  \* mutant: no waiting
Acquire(p, t) == lock[t] = NoProc /\ lock' = [lock EXCEPT ![t] = p]
Release(t)    == lock' = [lock EXCEPT ![t] = NoProc]

-----------------------------------------------------------------------------
(* Mutants: plausible errors in the actions below.  Each run's properties     *)
(* are known to detect them.                                                  *)

\* The destructor does not wait for the worker.
JoinNobody ==
  /\ opc = "join"
  /\ opc' = "delete"
  /\ UNCHANGED <<lock, running, fault, oidx, workerVars, callVars, listVars>>

\* fetchOneThread prefers the busiest thread.
CompareInverted(c) ==
  /\ cpc[c] = "compare" /\ cidx[c] <= NumThread
  /\ cidx[c] \notin Deleted
  /\ IF pressure[cidx[c]] > cbest[c]
       THEN cpc' = [cpc EXCEPT ![c] = "take"] /\ cidx' = cidx
       ELSE cpc' = cpc /\ cidx' = [cidx EXCEPT ![c] = @ + 1]
  /\ UNCHANGED <<lock, running, fault, cjob, cbest, cret, result,
                 workerVars, ownerVars, listVars>>

\* fetchOneThread returns the thread after the one it compared.
TakeNext(c) ==
  /\ cpc[c] = "take"
  /\ cidx[c] \notin Deleted
  /\ cbest' = [cbest EXCEPT ![c] = pressure[cidx[c]]]
  /\ cret' = [cret EXCEPT ![c] = cidx[c] + 1]
  /\ cidx' = [cidx EXCEPT ![c] = @ + 1]
  /\ cpc' = [cpc EXCEPT ![c] = "compare"]
  /\ UNCHANGED <<lock, running, fault, cjob, result, workerVars, ownerVars, listVars>>

\* postJob returns r with the lock released.
PostReturns(c, r) ==
  /\ cpc[c] = "crit"
  /\ Release(cret[c])
  /\ cpc' = [cpc EXCEPT ![c] = "idle"]
  /\ result' = [result EXCEPT ![cjob[c]] = r]
  /\ cjob' = [cjob EXCEPT ![c] = NoJob]
  /\ UNCHANGED <<running, fault, cidx, cbest, cret, workerVars, ownerVars>>

\* postJob reports success for a job it turned away.
PostTurnedAway(c) ==
  /\ PostReturns(c, "posted")
  /\ ~running[cret[c]]
  /\ UNCHANGED listVars

\* The job is linked at the wrong side of the sentinel.
PostPrepend(c) ==
  LET t == cret[c] IN
  /\ PostReturns(c, "posted")
  /\ running[t]
  /\ Len(queue[t]) + (IF cur[t] = NoJob THEN 0 ELSE 1) < JobCapacity
  /\ live' = [live EXCEPT ![t] = @ \cup {cjob[c]}]
  /\ queue' = [queue EXCEPT ![t] = <<cjob[c]>> \o @]
  /\ pressure' = [pressure EXCEPT ![t] = Increment(@)]
  /\ accepted' = [accepted EXCEPT ![t] = Append(@, cjob[c])]
  /\ UNCHANGED executed

\* A stopped worker goes on.
CheckNothing(t) ==
  /\ wpc[t] = "check"
  /\ wpc' = [wpc EXCEPT ![t] = "drain"]
  /\ UNCHANGED <<lock, running, fault, cur, callVars, ownerVars, listVars>>

\* The worker leaves although it is not stopped.
ExitAnyway(t) ==
  /\ wpc[t] = "check"
  /\ Release(t)
  /\ wpc' = [wpc EXCEPT ![t] = "exited"]
  /\ UNCHANGED <<running, fault, cur, callVars, ownerVars, listVars>>

\* The inner loop looks at Running, too.
DrainedOnStop(t) ==
  /\ wpc[t] = "drain"
  /\ queue[t] = <<>> \/ ~running[t]
  /\ Release(t)
  /\ wpc' = [wpc EXCEPT ![t] = "sleep"]
  /\ UNCHANGED <<running, fault, cur, callVars, ownerVars, listVars>>

\* The finished job is not given back to the pool.
FreeNothing(t) ==
  /\ wpc[t] = "free"
  /\ pressure' = [pressure EXCEPT ![t] = Decrement(@)]
  /\ cur' = [cur EXCEPT ![t] = NoJob]
  /\ wpc' = [wpc EXCEPT ![t] = "drain"]
  /\ UNCHANGED <<lock, running, fault, live, queue, accepted, executed, callVars, ownerVars>>

-----------------------------------------------------------------------------
(* The owner: constructor and destructor. *)

\* The constructor starts the threads in order; the pool is usable after the
\* last one.
Start ==
  /\ opc = "start"
  /\ running' = [running EXCEPT ![oidx] = TRUE]
  /\ wpc' = [wpc EXCEPT ![oidx] = "sleep"]
  /\ IF oidx = NumThread
       THEN opc' = "running" /\ oidx' = 1
       ELSE opc' = opc /\ oidx' = oidx + 1
  /\ UNCHANGED <<lock, fault, cur, callVars, listVars>>

\* A client inside fetchOneThread uses the pool: its lifetime forbids that the
\* destructor starts.
BeginDestroy ==
  /\ opc = "running"
  /\ \A c \in Clients : cpc[c] \notin {"compare", "take"}
  /\ opc' = IF NumThread = 0 THEN "done" ELSE "stop"
  /\ UNCHANGED <<lock, running, fault, oidx, workerVars, callVars, listVars>>

StopLock ==
  /\ opc = "stop"
  /\ Acquire(Owner, oidx)
  /\ opc' = "stopSet"
  /\ UNCHANGED <<running, fault, oidx, workerVars, callVars, listVars>>

StopSet ==
  /\ opc = "stopSet"
  /\ running' = [running EXCEPT ![oidx] = FALSE]
  /\ Release(oidx)
  /\ opc' = "join"
  /\ UNCHANGED <<fault, oidx, workerVars, callVars, listVars>>

Join ==
  /\ opc = "join"
  /\ wpc[oidx] = "exited"
  /\ opc' = "delete"
  /\ UNCHANGED <<lock, running, fault, oidx, workerVars, callVars, listVars>>

\* No client still holds a call on the thread: it owns that obligation.
Delete ==
  /\ opc = "delete"
  /\ \A c \in Clients : ~(cpc[c] \in {"lock", "crit"} /\ cret[c] = oidx)
  /\ wpc' = [wpc EXCEPT ![oidx] = "deleted"]
  /\ IF oidx = NumThread
       THEN opc' = "done" /\ oidx' = oidx
       ELSE opc' = "stop" /\ oidx' = oidx + 1
  /\ UNCHANGED <<lock, running, fault, cur, callVars, listVars>>

-----------------------------------------------------------------------------
(* Callers: fetchOneThread and postJob. *)

\* A client starts by choosing a thread with fetchOneThread ...
FetchByClient(c) ==
  /\ opc = "running" /\ cpc[c] = "idle"
  /\ \E j \in ClientJobs :
       /\ result[j] = "none"
       /\ result' = [result EXCEPT ![j] = "pending"]
       /\ cjob' = [cjob EXCEPT ![c] = j]
  /\ cpc' = [cpc EXCEPT ![c] = "compare"]
  /\ cidx' = [cidx EXCEPT ![c] = 1]
  /\ cbest' = [cbest EXCEPT ![c] = ScoreMax]
  /\ cret' = [cret EXCEPT ![c] = 0]
  /\ UNCHANGED <<lock, running, fault, workerVars, ownerVars, listVars>>

\* ... or posts to a thread it already holds a pointer to, as
\* EventSubscriber::postEvent does with Worker.
PostByClient(c) ==
  /\ opc # "start" /\ cpc[c] = "idle"
  /\ \E j \in ClientJobs, t \in Threads \ Deleted :
       /\ result[j] = "none"
       /\ result' = [result EXCEPT ![j] = "pending"]
       /\ cjob' = [cjob EXCEPT ![c] = j]
       /\ cret' = [cret EXCEPT ![c] = t]
  /\ cpc' = [cpc EXCEPT ![c] = "lock"]
  /\ UNCHANGED <<lock, running, fault, cidx, cbest, workerVars, ownerVars, listVars>>

\* The body of the job that worker t runs posts another job.
FetchByBody(t) ==
  /\ wpc[t] = "run" /\ cpc[t] = "idle"
  /\ Spawn[cur[t]] # NoJob
  /\ result[Spawn[cur[t]]] = "none"
  /\ result' = [result EXCEPT ![Spawn[cur[t]]] = "pending"]
  /\ cjob' = [cjob EXCEPT ![t] = Spawn[cur[t]]]
  /\ cpc' = [cpc EXCEPT ![t] = "compare"]
  /\ cidx' = [cidx EXCEPT ![t] = 1]
  /\ cbest' = [cbest EXCEPT ![t] = ScoreMax]
  /\ cret' = [cret EXCEPT ![t] = 0]
  /\ UNCHANGED <<lock, running, fault, workerVars, ownerVars, listVars>>

\* if (T->presureScore() < PressureScore): the first unlocked read.
Compare(c) ==
  /\ cpc[c] = "compare" /\ cidx[c] <= NumThread
  /\ cidx[c] \notin Deleted
  /\ IF pressure[cidx[c]] < cbest[c]
       THEN cpc' = [cpc EXCEPT ![c] = "take"] /\ cidx' = cidx
       ELSE cpc' = cpc /\ cidx' = [cidx EXCEPT ![c] = @ + 1]
  /\ UNCHANGED <<lock, running, fault, cjob, cbest, cret, result,
                 workerVars, ownerVars, listVars>>

\* Ret = T, PressureScore = T->presureScore(): the second one, which may see
\* another value than the comparison did.
Take(c) ==
  /\ cpc[c] = "take"
  /\ cidx[c] \notin Deleted
  /\ cbest' = [cbest EXCEPT ![c] = pressure[cidx[c]]]
  /\ cret' = [cret EXCEPT ![c] = cidx[c]]
  /\ cidx' = [cidx EXCEPT ![c] = @ + 1]
  /\ cpc' = [cpc EXCEPT ![c] = "compare"]
  /\ UNCHANGED <<lock, running, fault, cjob, result, workerVars, ownerVars, listVars>>

\* The loop is over: postJob on the thread found, none if Ret is still null.
Chosen(c) ==
  /\ cpc[c] = "compare" /\ cidx[c] > NumThread
  /\ IF cret[c] = 0
       THEN /\ cpc' = [cpc EXCEPT ![c] = "idle"]
            /\ result' = [result EXCEPT ![cjob[c]] = "null"]
            /\ cjob' = [cjob EXCEPT ![c] = NoJob]
       ELSE cpc' = [cpc EXCEPT ![c] = "lock"] /\ UNCHANGED <<result, cjob>>
  /\ UNCHANGED <<lock, running, fault, cidx, cbest, cret,
                 workerVars, ownerVars, listVars>>

PostLock(c) ==
  /\ cpc[c] = "lock"
  /\ cret[c] \notin Deleted
  /\ Acquire(c, cret[c])
  /\ cpc' = [cpc EXCEPT ![c] = "crit"]
  /\ UNCHANGED <<running, fault, cjob, cidx, cbest, cret, result,
                 workerVars, ownerVars, listVars>>

PostNotRunning(c) ==
  /\ PostReturns(c, "EFAULT")
  /\ ~running[cret[c]]
  /\ UNCHANGED listVars

\* Allocation may fail whatever the pool holds, and does at its capacity.
PostNoMemory(c) ==
  /\ PostReturns(c, "ENOMEM")
  /\ running[cret[c]]
  /\ UNCHANGED listVars

PostAppend(c) ==
  LET t == cret[c] IN
  /\ PostReturns(c, "posted")
  /\ running[t]
  /\ Len(queue[t]) + (IF cur[t] = NoJob THEN 0 ELSE 1) < JobCapacity
  /\ live' = [live EXCEPT ![t] = @ \cup {cjob[c]}]
  /\ queue' = [queue EXCEPT ![t] = Append(@, cjob[c])]
  /\ pressure' = [pressure EXCEPT ![t] = Increment(@)]
  /\ accepted' = [accepted EXCEPT ![t] = Append(@, cjob[c])]
  /\ UNCHANGED executed

\* A caller reads the score of a deleted thread or takes its lock: undefined
\* behaviour, after which nothing is said of the program.
TouchDeleted(c) ==
  /\ fault' = <<c, IF cpc[c] = "lock" THEN cret[c] ELSE cidx[c]>>
  /\ \/ cpc[c] \in {"compare", "take"} /\ cidx[c] \in Deleted
     \/ cpc[c] = "lock" /\ cret[c] \in Deleted
  /\ UNCHANGED <<lock, running, workerVars, callVars, ownerVars, listVars>>

-----------------------------------------------------------------------------
(* The worker of thread t: threadProcess. *)

Wake(t) ==
  /\ wpc[t] = "sleep"
  /\ Acquire(t, t)
  /\ wpc' = [wpc EXCEPT ![t] = "check"]
  /\ UNCHANGED <<running, fault, cur, callVars, ownerVars, listVars>>

\* Running is looked at here only: the inner loop does not read it.
CheckRunning(t) ==
  /\ wpc[t] = "check" /\ running[t]
  /\ wpc' = [wpc EXCEPT ![t] = "drain"]
  /\ UNCHANGED <<lock, running, fault, cur, callVars, ownerVars, listVars>>

Exit(t) ==
  /\ wpc[t] = "check" /\ ~running[t]
  /\ Release(t)
  /\ wpc' = [wpc EXCEPT ![t] = "exited"]
  /\ UNCHANGED <<running, fault, cur, callVars, ownerVars, listVars>>

Detach(t) ==
  /\ wpc[t] = "drain" /\ queue[t] # <<>>
  /\ queue' = [queue EXCEPT ![t] = Tail(@)]
  /\ cur' = [cur EXCEPT ![t] = Head(queue[t])]
  /\ executed' = [executed EXCEPT ![t] = Append(@, Head(queue[t]))]
  /\ Release(t)
  /\ wpc' = [wpc EXCEPT ![t] = "run"]
  /\ UNCHANGED <<running, fault, pressure, live, accepted, callVars, ownerVars>>

Drained(t) ==
  /\ wpc[t] = "drain" /\ queue[t] = <<>>
  /\ Release(t)
  /\ wpc' = [wpc EXCEPT ![t] = "sleep"]
  /\ UNCHANGED <<running, fault, cur, callVars, ownerVars, listVars>>

BodyDone(t) ==
  /\ wpc[t] = "run" /\ cpc[t] = "idle"
  /\ Spawn[cur[t]] # NoJob => result[Spawn[cur[t]]] # "none"
  /\ wpc' = [wpc EXCEPT ![t] = "relock"]
  /\ UNCHANGED <<lock, running, fault, cur, callVars, ownerVars, listVars>>

Relock(t) ==
  /\ wpc[t] = "relock"
  /\ Acquire(t, t)
  /\ wpc' = [wpc EXCEPT ![t] = "free"]
  /\ UNCHANGED <<running, fault, cur, callVars, ownerVars, listVars>>

FreeJob(t) ==
  /\ wpc[t] = "free"
  /\ live' = [live EXCEPT ![t] = @ \ {cur[t]}]
  /\ pressure' = [pressure EXCEPT ![t] = Decrement(@)]
  /\ cur' = [cur EXCEPT ![t] = NoJob]
  /\ wpc' = [wpc EXCEPT ![t] = "drain"]
  /\ UNCHANGED <<lock, running, fault, queue, accepted, executed, callVars, ownerVars>>

-----------------------------------------------------------------------------
OwnerStep == Start \/ BeginDestroy \/ StopLock \/ StopSet \/ Join \/ Delete
CallStep(c) ==
  \/ Compare(c) \/ Take(c) \/ Chosen(c) \/ PostLock(c)
  \/ PostNotRunning(c) \/ PostNoMemory(c) \/ PostAppend(c)
WorkerStep(t) ==
  \/ Wake(t) \/ CheckRunning(t) \/ Exit(t) \/ Detach(t) \/ Drained(t)
  \/ FetchByBody(t) \/ BodyDone(t) \/ Relock(t) \/ FreeJob(t)

\* The pool is destroyed, or an undefined access happened.
Terminated == (opc = "done" \/ fault # <<>>) /\ UNCHANGED vars

Next ==
  \/ fault = <<>> /\ OwnerStep
  \/ fault = <<>> /\ \E c \in Clients : FetchByClient(c) \/ PostByClient(c)
  \/ fault = <<>> /\ \E c \in Callers : CallStep(c) \/ TouchDeleted(c)
  \/ fault = <<>> /\ \E t \in Threads : WorkerStep(t)
  \/ Terminated

Spec == Init /\ [][Next]_vars

\* Every thread of the process keeps being scheduled, so a step that stays
\* possible is taken.  The spin lock promises no order among its waiters, but
\* an idle worker sleeps (ForceSleep) between two looks at its list while
\* the others spin: whoever waits for the lock finds it free in one of those
\* sleeps, hence SF for their acquisitions.  The worker itself competes with
\* finitely many posts only and needs no more than WF.  Nobody has to post, or
\* to destroy the pool.
Fairness ==
  /\ WF_vars(fault = <<>> /\ (Start \/ StopSet \/ Join \/ Delete))
  /\ SF_vars(fault = <<>> /\ StopLock)
  /\ \A c \in Callers : /\ WF_vars(fault = <<>> /\ (CallStep(c) \/ TouchDeleted(c)))
                        /\ SF_vars(fault = <<>> /\ PostLock(c))
  /\ \A t \in Threads : WF_vars(fault = <<>> /\ WorkerStep(t))

FairSpec == Spec /\ Fairness

-----------------------------------------------------------------------------
(* Properties. *)

ThreadTypes ==
  /\ lock \in [Threads -> Procs \cup {NoProc}]
  /\ queue \in [Threads -> Seq(Jobs)]
  /\ running \in [Threads -> BOOLEAN]
  /\ pressure \in [Threads -> 0 .. ScoreMax]
  /\ live \in [Threads -> SUBSET Jobs]
WorkerTypes ==
  /\ wpc \in [Threads -> WorkerStates]
  /\ cur \in [Threads -> Jobs \cup {NoJob}]
CallTypes ==
  /\ cpc \in [Callers -> CallStates]
  /\ cjob \in [Callers -> Jobs \cup {NoJob}]
  /\ result \in [Jobs -> Results]
ScanTypes ==
  /\ cidx \in [Callers -> 1 .. NumThread + 1]
  /\ cbest \in [Callers -> 0 .. ScoreMax]
  /\ cret \in [Callers -> 0 .. NumThread]
OwnerTypes ==
  /\ opc \in OwnerStates
  /\ oidx \in 1 .. NumThread + 1
  /\ fault \in {<<>>} \cup (Callers \X Threads)
HistoryTypes ==
  /\ accepted \in [Threads -> Seq(Jobs)]
  /\ executed \in [Threads -> Seq(Jobs)]

\* Every variable has the values its declaration in the code allows.
TypeOK ==
  /\ ThreadTypes /\ WorkerTypes /\ CallTypes /\ ScanTypes /\ OwnerTypes
  /\ HistoryTypes

\* Process p is between lock() and unlock() of thread t.
InCritical(p, t) ==
  \/ p \in Callers /\ cpc[p] = "crit" /\ cret[p] = t
  \/ p = t /\ wpc[t] \in {"check", "drain", "free"}
  \/ p = Owner /\ opc = "stopSet" /\ oidx = t

\* Job list, pool and score of a thread are only used by the process that
\* holds its lock: no two processes are ever inside, and nobody leaves the
\* lock taken behind him.
LockProtects == \A t \in Threads, p \in Procs : InCritical(p, t) <=> lock[t] = p

\* The worker has detached a job and not yet freed it.
InFlight(t) == IF cur[t] = NoJob THEN 0 ELSE 1

\* PressureScore counts the queued jobs and the one being run, so it is never
\* below the real load and never wraps below zero, which would make
\* fetchOneThread avoid an idle thread for ever.
PressureIsLoad == \A t \in Threads : pressure[t] = Len(queue[t]) + InFlight(t)

\* Jobs of one thread are run in the order in which they were accepted, each
\* of them at most once, and none disappears from the list.
FifoPerThread == \A t \in Threads : accepted[t] = executed[t] \o queue[t]

\* The Job object of a queued job, and of the job being run, is allocated, and
\* no other is: no use after free in the worker, no leak.
ObjectsMatchJobs ==
  \A t \in Threads :
    live[t] = {queue[t][i] : i \in 1 .. Len(queue[t])}
                \cup (IF cur[t] = NoJob THEN {} ELSE {cur[t]})

\* A job is in the list of a thread exactly when its postJob returned success,
\* and once only: no error is returned for a job that will run, and no job is
\* accepted twice, by one thread or by two.
AcceptedOnce ==
  /\ \A j \in Jobs : result[j] = "posted" <=>
        \E t \in Threads : \E i \in 1 .. Len(accepted[t]) : accepted[t][i] = j
  /\ \A t, u \in Threads :
        \A i \in 1 .. Len(accepted[t]), k \in 1 .. Len(accepted[u]) :
          accepted[t][i] = accepted[u][k] => t = u /\ i = k

\* With at least one thread, fetchOneThread finds one whatever scores it reads
\* unlocked while others change them.
FetchFindsThread == NumThread > 0 => \A j \in Jobs : result[j] # "null"

\* The destructor deletes thread i while the workers of later threads still
\* run: a deleted thread is only ever reached from the body of a job of such
\* a worker, never from one it has joined.
DeletedOnlyReachedFromLater ==
  fault # <<>> => fault[1] \in Threads /\ fault[1] > fault[2]

\* Every accepted job is run, or its thread is stopped before (or the program
\* touched a deleted thread).
AcceptedIsRun ==
  \A t \in Threads, j \in Jobs :
    (\E i \in 1 .. Len(queue[t]) : queue[t][i] = j)
      ~> (\/ \E i \in 1 .. Len(executed[t]) : executed[t][i] = j
          \/ ~running[t] \/ fault # <<>>)

\* The destructor, once begun, ends: no join waits for ever.
DestructorEnds == (opc = "stop") ~> (opc = "done" \/ fault # <<>>)

\* The worker is inside its list: between the look at Running that let it in
\* and the end of the list.
Draining(t) == wpc[t] \in {"drain", "run", "relock", "free"}

\* A stop() drops jobs only of a worker that is asleep or about to look at
\* Running.  One that is inside its list when Running is cleared runs all that
\* postJob had taken by then, what bodies posted to it included, and leaves
\* nothing behind, however late it comes to its end.
DrainOutlastsStop ==
  \A t \in Threads :
    [](~running[t] /\ Draining(t)
         => [](wpc[t] \in {"exited", "deleted"} => queue[t] = <<>>))

-----------------------------------------------------------------------------
(* What else holds in every reachable state: together with the invariants     *)
(* above it is preserved by every step.                                       *)

\* A worker holds a job exactly while it runs or frees one: the last it began.
WorkerHoldsJob ==
  \A t \in Threads :
    /\ cur[t] # NoJob <=> wpc[t] \in {"run", "relock", "free"}
    /\ cur[t] # NoJob => executed[t] # <<>> /\ executed[t][Len(executed[t])] = cur[t]

\* A body's call is made while the worker runs the body.
CallsFromBodies == \A t \in Threads : cpc[t] # "idle" => wpc[t] = "run"

\* What a caller knows at each point of fetchOneThread and postJob.
CallShape ==
  \A c \in Callers :
    /\ cpc[c] = "take" => cidx[c] \in Threads
    /\ cpc[c] \in {"lock", "crit"} => cret[c] \in Threads
    /\ cpc[c] = "idle" <=> cjob[c] = NoJob
    /\ cjob[c] # NoJob => result[cjob[c]] = "pending"

\* Two callers never post the same job.
DistinctCalls ==
  \A c, d \in Callers : c # d /\ cjob[c] # NoJob => cjob[c] # cjob[d]

\* Where the owner's loops stand, and what they have done.
OwnerShape ==
  /\ opc \in {"start", "stop", "stopSet", "join", "delete"} => oidx \in Threads
  /\ opc = "running" => oidx = 1
  /\ opc = "start" => \A t \in Threads : running[t]
  /\ opc = "start" => \A t \in Threads : t >= oidx => wpc[t] = "none"
  /\ opc = "delete" => wpc[oidx] = "exited"

Inv ==
  /\ TypeOK /\ LockProtects /\ PressureIsLoad /\ FifoPerThread
  /\ ObjectsMatchJobs /\ AcceptedOnce
  /\ WorkerHoldsJob /\ CallsFromBodies /\ CallShape /\ DistinctCalls /\ OwnerShape

-----------------------------------------------------------------------------
\* The pool implements the service its callers rely on: the abstract state is
\* read off the lists and the workers.
Service == INSTANCE JobService WITH
  pending <- queue,
  current <- cur,
  open    <- running,
  retired <- {t \in Threads : wpc[t] \in {"exited", "deleted"}},
  taken   <- {j \in Jobs : result[j] = "posted"}

\* Every step of the pool is a step of the service or is invisible in it.
ImplementsServiceSafety == Service!ServiceSafety
=============================================================================

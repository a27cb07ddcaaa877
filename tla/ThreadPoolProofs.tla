--------------------------- MODULE ThreadPoolProofs ---------------------------
(***************************************************************************)
(* Proofs about ThreadPool, for every number of threads, clients and jobs  *)
(* and every way job bodies post further jobs.                             *)
(***************************************************************************)
EXTENDS ThreadPool, SequenceTheorems, TLAPS

\* Appending to the second of two sequences appends to the whole.
LEMMA AppendConcat ==
  ASSUME NEW s \in Seq(Jobs), NEW q \in Seq(Jobs), NEW e \in Jobs
  PROVE  Append(s \o q, e) = s \o Append(q, e)
<1>1. /\ s \o q \in Seq(Jobs) /\ Append(q, e) \in Seq(Jobs)
      /\ Append(s \o q, e) \in Seq(Jobs) /\ s \o Append(q, e) \in Seq(Jobs)
  OBVIOUS
<1> QED
  BY <1>1, SeqEqual

\* Moving the head of the second sequence to the end of the first keeps the whole.
LEMMA ShiftHead ==
  ASSUME NEW S, NEW s \in Seq(S), NEW q \in Seq(S), q # <<>>
  PROVE  s \o q = Append(s, Head(q)) \o Tail(q)
OBVIOUS

USE DEF Threads, Callers, Procs

LEMMA InitInv == Init => Inv
<1> SUFFICES ASSUME Init PROVE Inv
  OBVIOUS
<1> USE PoolAssumption DEF Init
<1>1. TypeOK
  BY DEF TypeOK, ThreadTypes, WorkerTypes, CallTypes, ScanTypes, OwnerTypes,
         HistoryTypes, WorkerStates, CallStates, OwnerStates, Results
<1>2. LockProtects
  BY DEF LockProtects, InCritical
<1>3. PressureIsLoad
  BY DEF PressureIsLoad, InFlight
<1>4. FifoPerThread
  BY DEF FifoPerThread
<1>5. ObjectsMatchJobs
  BY DEF ObjectsMatchJobs
<1>6. AcceptedOnce
  BY DEF AcceptedOnce
<1>7. WorkerHoldsJob /\ CallsFromBodies /\ CallShape /\ DistinctCalls
  BY DEF WorkerHoldsJob, CallsFromBodies, CallShape, DistinctCalls
<1>8. OwnerShape
  BY DEF OwnerShape
<1> QED
  BY <1>1, <1>2, <1>3, <1>4, <1>5, <1>6, <1>7, <1>8 DEF Inv

-----------------------------------------------------------------------------
(* Type correctness, group by group. *)

LEMMA ThreadTypesStep == ASSUME Inv, [Next]_vars PROVE ThreadTypes'
<1> USE PoolAssumption DEF ThreadTypes, vars, workerVars, callVars, ownerVars, listVars
<1>0. ThreadTypes /\ WorkerTypes /\ OwnerShape /\ CallShape /\ CallTypes
  BY DEF Inv, TypeOK
<1>1. CASE OwnerStep
  BY <1>0, <1>1 DEF OwnerShape, OwnerStep, Start, BeginDestroy, StopLock, StopSet,
     Join, Delete, Acquire, Release
<1>2. ASSUME NEW c \in Clients, FetchByClient(c) \/ PostByClient(c) PROVE ThreadTypes'
  BY <1>0, <1>2 DEF FetchByClient, PostByClient
<1>3. ASSUME NEW c \in Callers, CallStep(c) \/ TouchDeleted(c) PROVE ThreadTypes'
  <2>1. CASE PostAppend(c)
    <3>1. cjob[c] \in Jobs /\ cret[c] \in Threads
      BY <1>0, <2>1 DEF CallTypes, CallShape, PostAppend, PostReturns
    <3>2. queue' \in [Threads -> Seq(Jobs)] /\ live' \in [Threads -> SUBSET Jobs]
      BY <1>0, <2>1, <3>1 DEF PostAppend
    <3>3. pressure' \in [Threads -> 0 .. ScoreMax]
      <4>1. pressure' = [pressure EXCEPT ![cret[c]] = Increment(@)]
        BY <2>1 DEF PostAppend
      <4>2. ScoreMax \in Nat /\ \A x \in 0 .. ScoreMax : Increment(x) \in 0 .. ScoreMax
        BY DEF Increment
      <4> QED
        BY <1>0, <3>1, <4>1, <4>2
    <3>4. lock' \in [Threads -> Procs \cup {NoProc}] /\ running' = running
      BY <1>0, <2>1, <3>1 DEF PostAppend, PostReturns, Release
    <3> QED
      BY <1>0, <3>2, <3>3, <3>4
  <2>2. CASE PostLock(c)
    BY <1>0, <2>2 DEF PostLock, CallShape, Acquire
  <2>3. CASE PostNotRunning(c) \/ PostNoMemory(c)
    <3>1. cret[c] \in Threads /\ lock' = [lock EXCEPT ![cret[c]] = NoProc]
          /\ UNCHANGED <<queue, running, pressure, live>>
      BY <1>0, <2>3 DEF PostNotRunning, PostNoMemory, PostReturns, CallShape, Release
    <3> QED
      BY <1>0, <3>1
  <2>4. CASE TouchDeleted(c) \/ Compare(c) \/ Take(c) \/ Chosen(c)
    BY <1>0, <2>4 DEF TouchDeleted, Compare, Take, Chosen
  <2> QED
    BY <1>3, <2>1, <2>2, <2>3, <2>4 DEF CallStep
<1>4. ASSUME NEW t \in Threads, WorkerStep(t) PROVE ThreadTypes'
  <2>1. CASE Detach(t)
    BY <1>0, <2>1 DEF Detach, Release
  <2>2. CASE FreeJob(t)
    <3>1. pressure' = [pressure EXCEPT ![t] = Decrement(@)] /\ queue' = queue
          /\ live' = [live EXCEPT ![t] = @ \ {cur[t]}] /\ UNCHANGED <<lock, running>>
      BY <2>2 DEF FreeJob
    <3>2. \A x \in 0 .. ScoreMax : Decrement(x) \in 0 .. ScoreMax
      BY DEF Decrement
    <3>3. pressure' \in [Threads -> 0 .. ScoreMax]
      BY <1>0, <3>1, <3>2
    <3> QED
      BY <1>0, <3>1, <3>3
  <2>3. CASE ~Detach(t) /\ ~FreeJob(t)
    BY <1>0, <1>4, <2>3 DEF WorkerStep, Wake, CheckRunning, Exit, Drained, FetchByBody,
       BodyDone, Relock, Acquire, Release
  <2> QED
    BY <2>1, <2>2, <2>3
<1>5. CASE UNCHANGED vars
  BY <1>0, <1>5
<1> QED
  BY <1>1, <1>2, <1>3, <1>4, <1>5 DEF Next, Terminated

LEMMA WorkerTypesStep == ASSUME Inv, [Next]_vars PROVE WorkerTypes'
<1> USE DEF WorkerTypes, WorkerStates, vars, workerVars, callVars, ownerVars, listVars
<1>0. WorkerTypes /\ ThreadTypes /\ OwnerShape
  BY DEF Inv, TypeOK
<1>1. CASE OwnerStep
  BY <1>0, <1>1 DEF OwnerShape, OwnerStep, Start, BeginDestroy, StopLock, StopSet,
     Join, Delete
<1>2. ASSUME NEW c \in Clients, FetchByClient(c) \/ PostByClient(c) PROVE WorkerTypes'
  BY <1>0, <1>2 DEF FetchByClient, PostByClient
<1>3. ASSUME NEW c \in Callers, CallStep(c) \/ TouchDeleted(c) PROVE WorkerTypes'
  BY <1>0, <1>3 DEF CallStep, TouchDeleted, Compare, Take, Chosen, PostLock,
       PostNotRunning, PostNoMemory, PostAppend, PostReturns
<1>4. ASSUME NEW t \in Threads, WorkerStep(t) PROVE WorkerTypes'
  <2>1. CASE Detach(t)
    <3>1. Head(queue[t]) \in Jobs
      BY <1>0, <2>1 DEF Detach, ThreadTypes
    <3> QED
      BY <1>0, <2>1, <3>1 DEF Detach
  <2>2. CASE ~Detach(t)
    BY <1>0, <1>4, <2>2 DEF WorkerStep, Wake, CheckRunning, Exit, Drained, FetchByBody,
       BodyDone, Relock, FreeJob
  <2> QED
    BY <2>1, <2>2
<1>5. CASE UNCHANGED vars
  BY <1>0, <1>5
<1> QED
  BY <1>1, <1>2, <1>3, <1>4, <1>5 DEF Next, Terminated

LEMMA CallTypesStep == ASSUME Inv, [Next]_vars PROVE CallTypes'
<1> USE PoolAssumption DEF CallTypes, CallStates, Results, vars, workerVars, callVars,
        ownerVars, listVars
<1>0. CallTypes /\ WorkerTypes /\ WorkerHoldsJob /\ CallShape
  BY DEF Inv, TypeOK
<1>1. CASE OwnerStep
  BY <1>0, <1>1 DEF OwnerStep, Start, BeginDestroy, StopLock, StopSet, Join, Delete
<1>2. ASSUME NEW c \in Clients, FetchByClient(c) \/ PostByClient(c) PROVE CallTypes'
  <2>1. PICK j \in Jobs : /\ result' = [result EXCEPT ![j] = "pending"]
                          /\ cjob' = [cjob EXCEPT ![c] = j]
    BY <1>2 DEF FetchByClient, PostByClient, ClientJobs
  <2>2. \/ cpc' = [cpc EXCEPT ![c] = "compare"]
        \/ cpc' = [cpc EXCEPT ![c] = "lock"]
    BY <1>2 DEF FetchByClient, PostByClient
  <2>3. cpc' \in [Callers -> CallStates]
    BY <1>0, <2>2
  <2>4. cjob' \in [Callers -> Jobs \cup {NoJob}] /\ result' \in [Jobs -> Results]
    BY <1>0, <2>1
  <2> QED
    BY <2>3, <2>4
<1>3. ASSUME NEW c \in Callers, CallStep(c) \/ TouchDeleted(c) PROVE CallTypes'
  <2>1. CASE Compare(c) \/ Take(c) \/ PostLock(c) \/ TouchDeleted(c)
    BY <1>0, <2>1 DEF Compare, Take, PostLock, TouchDeleted
  <2>2. CASE Chosen(c)
    BY <1>0, <2>2 DEF Chosen, CallShape
  <2>3. ASSUME NEW r \in Results, PostReturns(c, r) PROVE CallTypes'
    BY <1>0, <2>3 DEF PostReturns, CallShape
  <2> QED
    BY <1>3, <2>1, <2>2, <2>3 DEF CallStep, PostNotRunning, PostNoMemory, PostAppend
<1>4. ASSUME NEW t \in Threads, WorkerStep(t) PROVE CallTypes'
  <2>1. CASE FetchByBody(t)
    <3>1. Spawn[cur[t]] \in Jobs
      BY <1>0, <2>1 DEF FetchByBody, WorkerHoldsJob, WorkerTypes
    <3> QED
      BY <1>0, <2>1, <3>1 DEF FetchByBody
  <2>2. CASE ~FetchByBody(t)
    BY <1>0, <1>4, <2>2 DEF WorkerStep, Wake, CheckRunning, Exit, Drained, Detach,
       BodyDone, Relock, FreeJob
  <2> QED
    BY <2>1, <2>2
<1>5. CASE UNCHANGED vars
  BY <1>0, <1>5
<1> QED
  BY <1>1, <1>2, <1>3, <1>4, <1>5 DEF Next, Terminated

LEMMA ScanTypesStep == ASSUME Inv, [Next]_vars PROVE ScanTypes'
<1> USE PoolAssumption DEF ScanTypes, vars, workerVars, callVars, ownerVars, listVars
<1>0. ScanTypes /\ ThreadTypes /\ CallShape
  BY DEF Inv, TypeOK
<1>1. CASE OwnerStep
  BY <1>0, <1>1 DEF OwnerStep, Start, BeginDestroy, StopLock, StopSet, Join, Delete
<1>2. ASSUME NEW c \in Clients, FetchByClient(c) \/ PostByClient(c) PROVE ScanTypes'
  BY <1>0, <1>2 DEF FetchByClient, PostByClient, Deleted
<1>3. ASSUME NEW c \in Callers, CallStep(c) \/ TouchDeleted(c) PROVE ScanTypes'
  <2>1. CASE Compare(c)
    <3>1. cidx[c] \in 1 .. NumThread
      BY <1>0, <2>1 DEF Compare
    <3> QED
      BY <1>0, <2>1, <3>1 DEF Compare
  <2>2. CASE Take(c)
    <3>1. cidx[c] \in 1 .. NumThread
      BY <1>0, <2>2 DEF Take, CallShape
    <3>2. pressure[cidx[c]] \in 0 .. ScoreMax
      BY <1>0, <3>1 DEF ThreadTypes
    <3>3. cidx' \in [Callers -> 1 .. NumThread + 1]
      BY <1>0, <2>2, <3>1 DEF Take
    <3>4. cbest' \in [Callers -> 0 .. ScoreMax] /\ cret' \in [Callers -> 0 .. NumThread]
      BY <1>0, <2>2, <3>1, <3>2 DEF Take
    <3> QED
      BY <3>3, <3>4
  <2>3. CASE ~Compare(c) /\ ~Take(c)
    BY <1>0, <1>3, <2>3 DEF CallStep, TouchDeleted, Chosen, PostLock,
       PostNotRunning, PostNoMemory, PostAppend, PostReturns
  <2> QED
    BY <2>1, <2>2, <2>3
<1>4. ASSUME NEW t \in Threads, WorkerStep(t) PROVE ScanTypes'
  <2>1. CASE FetchByBody(t)
    BY <1>0, <2>1 DEF FetchByBody
  <2>2. CASE ~FetchByBody(t)
    BY <1>0, <1>4, <2>2 DEF WorkerStep, Wake, CheckRunning, Exit, Drained,
       Detach, BodyDone, Relock, FreeJob
  <2> QED
    BY <2>1, <2>2
<1>5. CASE UNCHANGED vars
  BY <1>0, <1>5
<1> QED
  BY <1>1, <1>2, <1>3, <1>4, <1>5 DEF Next, Terminated

LEMMA OwnerTypesStep == ASSUME Inv, [Next]_vars PROVE OwnerTypes'
<1> USE PoolAssumption DEF OwnerTypes, OwnerStates, vars, workerVars, callVars,
        ownerVars, listVars
<1>0. OwnerTypes /\ OwnerShape /\ CallShape
  BY DEF Inv, TypeOK
<1>1. CASE OwnerStep
  BY <1>0, <1>1 DEF OwnerShape, OwnerStep, Start, BeginDestroy, StopLock, StopSet,
     Join, Delete
<1>2. ASSUME NEW c \in Clients, FetchByClient(c) \/ PostByClient(c) PROVE OwnerTypes'
  BY <1>0, <1>2 DEF FetchByClient, PostByClient
<1>3. ASSUME NEW c \in Callers, CallStep(c) \/ TouchDeleted(c) PROVE OwnerTypes'
  <2>1. CASE TouchDeleted(c)
    BY <1>0, <2>1 DEF TouchDeleted, Deleted
  <2>2. CASE ~TouchDeleted(c)
    BY <1>0, <1>3, <2>2 DEF CallStep, Compare, Take, Chosen, PostLock,
       PostNotRunning, PostNoMemory, PostAppend, PostReturns
  <2> QED
    BY <2>1, <2>2
<1>4. ASSUME NEW t \in Threads, WorkerStep(t) PROVE OwnerTypes'
  BY <1>0, <1>4 DEF WorkerStep, Wake, CheckRunning, Exit, Drained, FetchByBody,
     Detach, BodyDone, Relock, FreeJob
<1>5. CASE UNCHANGED vars
  BY <1>0, <1>5
<1> QED
  BY <1>1, <1>2, <1>3, <1>4, <1>5 DEF Next, Terminated

LEMMA HistoryTypesStep == ASSUME Inv, [Next]_vars PROVE HistoryTypes'
<1> USE PoolAssumption DEF HistoryTypes, vars, workerVars, callVars, ownerVars, listVars
<1>0. HistoryTypes /\ ThreadTypes /\ CallTypes /\ CallShape
  BY DEF Inv, TypeOK
<1>1. CASE OwnerStep
  BY <1>0, <1>1 DEF OwnerStep, Start, BeginDestroy, StopLock, StopSet, Join, Delete
<1>2. ASSUME NEW c \in Clients, FetchByClient(c) \/ PostByClient(c) PROVE HistoryTypes'
  BY <1>0, <1>2 DEF FetchByClient, PostByClient
<1>3. ASSUME NEW c \in Callers, CallStep(c) \/ TouchDeleted(c) PROVE HistoryTypes'
  <2>1. CASE PostAppend(c)
    <3>1. cjob[c] \in Jobs /\ cret[c] \in Threads
      BY <1>0, <2>1 DEF CallTypes, CallShape, PostAppend, PostReturns
    <3> QED
      BY <1>0, <2>1, <3>1 DEF PostAppend
  <2>2. CASE ~PostAppend(c)
    BY <1>0, <1>3, <2>2 DEF CallStep, TouchDeleted, Compare, Take, Chosen, PostLock,
       PostNotRunning, PostNoMemory, PostReturns
  <2> QED
    BY <2>1, <2>2
<1>4. ASSUME NEW t \in Threads, WorkerStep(t) PROVE HistoryTypes'
  <2>1. CASE Detach(t)
    <3>1. Head(queue[t]) \in Jobs
      BY <1>0, <2>1 DEF Detach, ThreadTypes
    <3> QED
      BY <1>0, <2>1, <3>1 DEF Detach
  <2>2. CASE ~Detach(t)
    BY <1>0, <1>4, <2>2 DEF WorkerStep, Wake, CheckRunning, Exit, Drained, FetchByBody,
       BodyDone, Relock, FreeJob
  <2> QED
    BY <2>1, <2>2
<1>5. CASE UNCHANGED vars
  BY <1>0, <1>5
<1> QED
  BY <1>1, <1>2, <1>3, <1>4, <1>5 DEF Next, Terminated

LEMMA TypeStep == ASSUME Inv, [Next]_vars PROVE TypeOK'
BY ThreadTypesStep, WorkerTypesStep, CallTypesStep, ScanTypesStep, OwnerTypesStep,
   HistoryTypesStep DEF TypeOK

-----------------------------------------------------------------------------
(* The control state: who is where. *)

LEMMA ShapeStep ==
  ASSUME Inv, [Next]_vars
  PROVE  CallShape' /\ CallsFromBodies' /\ DistinctCalls' /\ OwnerShape'
<1> USE PoolAssumption DEF vars, workerVars, callVars, ownerVars, listVars
<1>0. /\ CallTypes /\ ScanTypes /\ WorkerTypes /\ OwnerTypes /\ ThreadTypes
      /\ CallShape /\ CallsFromBodies /\ DistinctCalls /\ OwnerShape /\ WorkerHoldsJob
  BY DEF Inv, TypeOK
<1>1. CallShape'
  <2> USE DEF CallShape
  <2>1. CASE OwnerStep
    BY <1>0, <2>1 DEF OwnerStep, Start, BeginDestroy, StopLock, StopSet, Join, Delete
  <2>2. ASSUME NEW c \in Clients, FetchByClient(c) PROVE CallShape'
    BY <1>0, <2>2 DEF FetchByClient, ClientJobs, CallTypes, ScanTypes
  <2>3. ASSUME NEW c \in Clients, PostByClient(c) PROVE CallShape'
    BY <1>0, <2>3 DEF PostByClient, ClientJobs, CallTypes, ScanTypes, Deleted
  <2>4. ASSUME NEW c \in Callers, CallStep(c) PROVE CallShape'
    <3>1. CASE Compare(c)
      BY <1>0, <3>1 DEF Compare, CallTypes, ScanTypes
    <3>2. CASE Take(c)
      BY <1>0, <3>2 DEF Take, CallTypes, ScanTypes
    <3>3. CASE Chosen(c)
      BY <1>0, <3>3 DEF Chosen, CallTypes, ScanTypes, DistinctCalls
    <3>4. CASE PostLock(c)
      BY <1>0, <3>4 DEF PostLock, CallTypes
    <3>5. ASSUME NEW r, PostReturns(c, r) PROVE CallShape'
      BY <1>0, <3>5 DEF PostReturns, CallTypes, DistinctCalls
    <3> QED
      BY <2>4, <3>1, <3>2, <3>3, <3>4, <3>5
      DEF CallStep, PostNotRunning, PostNoMemory, PostAppend
  <2>5. ASSUME NEW c \in Callers, TouchDeleted(c) PROVE CallShape'
    BY <1>0, <2>5 DEF TouchDeleted
  <2>6. ASSUME NEW t \in Threads, WorkerStep(t) PROVE CallShape'
    <3>1. CASE FetchByBody(t)
      <4>1. Spawn[cur[t]] \in Jobs /\ result[Spawn[cur[t]]] = "none"
        BY <1>0, <3>1 DEF FetchByBody, WorkerHoldsJob, WorkerTypes
      <4> QED
        BY <1>0, <3>1, <4>1 DEF FetchByBody, CallTypes, ScanTypes
    <3>2. CASE ~FetchByBody(t)
      BY <1>0, <2>6, <3>2 DEF WorkerStep, Wake, CheckRunning, Exit, Drained, Detach,
         BodyDone, Relock, FreeJob
    <3> QED
      BY <3>1, <3>2
  <2>7. CASE UNCHANGED vars
    BY <1>0, <2>7
  <2> QED
    BY <2>1, <2>2, <2>3, <2>4, <2>5, <2>6, <2>7 DEF Next, Terminated
<1>2. CallsFromBodies'
  <2> USE DEF CallsFromBodies
  <2>1. CASE OwnerStep
    BY <1>0, <2>1 DEF OwnerStep, Start, BeginDestroy, StopLock, StopSet, Join, Delete,
       OwnerShape, WorkerTypes
  <2>2. ASSUME NEW c \in Clients, FetchByClient(c) \/ PostByClient(c) PROVE CallsFromBodies'
    BY <1>0, <2>2 DEF FetchByClient, PostByClient, CallTypes
  <2>4. ASSUME NEW c \in Callers, CallStep(c) \/ TouchDeleted(c) PROVE CallsFromBodies'
    BY <1>0, <2>4 DEF CallStep, TouchDeleted, Compare, Take, Chosen, PostLock, CallTypes,
       PostNotRunning, PostNoMemory, PostAppend, PostReturns
  <2>6. ASSUME NEW t \in Threads, WorkerStep(t) PROVE CallsFromBodies'
    BY <1>0, <2>6 DEF WorkerStep, Wake, CheckRunning, Exit, Drained, Detach,
         BodyDone, Relock, FreeJob, FetchByBody, WorkerTypes, CallTypes
  <2>7. CASE UNCHANGED vars
    BY <1>0, <2>7
  <2> QED
    BY <2>1, <2>2, <2>4, <2>6, <2>7 DEF Next, Terminated
<1>3. DistinctCalls'
  <2> USE DEF DistinctCalls
  <2>1. CASE OwnerStep
    BY <1>0, <2>1 DEF OwnerStep, Start, BeginDestroy, StopLock, StopSet, Join, Delete
  <2>2. ASSUME NEW c \in Clients, FetchByClient(c) \/ PostByClient(c) PROVE DistinctCalls'
    <3>1. PICK j \in Jobs : result[j] = "none" /\ cjob' = [cjob EXCEPT ![c] = j]
      BY <2>2 DEF FetchByClient, PostByClient, ClientJobs
    <3> QED
      BY <1>0, <3>1 DEF CallTypes, CallShape
  <2>4. ASSUME NEW c \in Callers, CallStep(c) \/ TouchDeleted(c) PROVE DistinctCalls'
    <3>1. cjob' = cjob \/ cjob' = [cjob EXCEPT ![c] = NoJob]
      BY <2>4 DEF CallStep, TouchDeleted, Compare, Take, Chosen, PostLock,
         PostNotRunning, PostNoMemory, PostAppend, PostReturns
    <3> QED
      BY <1>0, <3>1 DEF CallTypes
  <2>6. ASSUME NEW t \in Threads, WorkerStep(t) PROVE DistinctCalls'
    <3>1. CASE FetchByBody(t)
      <4>1. Spawn[cur[t]] \in Jobs /\ result[Spawn[cur[t]]] = "none"
        BY <1>0, <3>1 DEF FetchByBody, WorkerHoldsJob, WorkerTypes
      <4> QED
        BY <1>0, <3>1, <4>1 DEF FetchByBody, CallTypes, CallShape
    <3>2. CASE ~FetchByBody(t)
      BY <1>0, <2>6, <3>2 DEF WorkerStep, Wake, CheckRunning, Exit, Drained, Detach,
         BodyDone, Relock, FreeJob
    <3> QED
      BY <3>1, <3>2
  <2>7. CASE UNCHANGED vars
    BY <1>0, <2>7
  <2> QED
    BY <2>1, <2>2, <2>4, <2>6, <2>7 DEF Next, Terminated
<1>4. OwnerShape'
  <2> USE DEF OwnerShape
  <2>1. CASE OwnerStep
    <3>1. CASE Start
      <4>1. oidx \in Threads /\ oidx' \in Threads
        BY <1>0, <3>1 DEF Start
      <4>2. \A t \in Threads : running'[t]
        BY <1>0, <3>1, <4>1 DEF Start, ThreadTypes
      <4>3. opc' = "start" => \A t \in Threads : t >= oidx' => wpc'[t] = "none"
        BY <1>0, <3>1, <4>1 DEF Start, WorkerTypes
      <4>4. opc' \in {"start", "running"} /\ (opc' = "running" => oidx' = 1)
        BY <3>1 DEF Start
      <4> QED
        BY <4>1, <4>2, <4>3, <4>4
    <3>2. CASE BeginDestroy
      BY <1>0, <3>2 DEF BeginDestroy
    <3>3. CASE StopLock \/ StopSet \/ Join
      BY <1>0, <3>3 DEF StopLock, StopSet, Join
    <3>4. CASE Delete
      BY <1>0, <3>4 DEF Delete
    <3> QED
      BY <2>1, <3>1, <3>2, <3>3, <3>4 DEF OwnerStep
  <2>2. ASSUME NEW c \in Clients, FetchByClient(c) \/ PostByClient(c) PROVE OwnerShape'
    BY <1>0, <2>2 DEF FetchByClient, PostByClient
  <2>4. ASSUME NEW c \in Callers, CallStep(c) \/ TouchDeleted(c) PROVE OwnerShape'
    BY <1>0, <2>4 DEF CallStep, TouchDeleted, Compare, Take, Chosen, PostLock,
       PostNotRunning, PostNoMemory, PostAppend, PostReturns
  <2>6. ASSUME NEW t \in Threads, WorkerStep(t) PROVE OwnerShape'
    BY <1>0, <2>6 DEF WorkerStep, Wake, CheckRunning, Exit, Drained, Detach,
         BodyDone, Relock, FreeJob, FetchByBody, WorkerTypes
  <2>7. CASE UNCHANGED vars
    BY <1>0, <2>7
  <2> QED
    BY <2>1, <2>2, <2>4, <2>6, <2>7 DEF Next, Terminated
<1> QED
  BY <1>1, <1>2, <1>3, <1>4

-----------------------------------------------------------------------------
(* The lock, the list and its histories. *)

\* A critical section is entered with a free lock and left by its holder.
LEMMA LockStep == ASSUME Inv, [Next]_vars PROVE LockProtects'
<1> USE PoolAssumption DEF LockProtects, InCritical, vars, workerVars, callVars,
        ownerVars, listVars
<1>0. /\ CallTypes /\ ScanTypes /\ WorkerTypes /\ OwnerTypes /\ ThreadTypes
      /\ CallShape /\ CallsFromBodies /\ OwnerShape /\ LockProtects
  BY DEF Inv, TypeOK
<1>1. CASE OwnerStep
  <2>1. CASE Start
    BY <1>0, <2>1 DEF Start, OwnerShape, WorkerTypes
  <2>2. CASE BeginDestroy
    BY <1>0, <2>2 DEF BeginDestroy
  <2>3. CASE StopLock
    BY <1>0, <2>3 DEF StopLock, OwnerShape, ThreadTypes, Acquire
  <2>4. CASE StopSet
    BY <1>0, <2>4 DEF StopSet, OwnerShape, ThreadTypes, Release
  <2>5. CASE Join
    BY <1>0, <2>5 DEF Join
  <2>6. CASE Delete
    BY <1>0, <2>6 DEF Delete, OwnerShape, WorkerTypes
  <2> QED
    BY <1>1, <2>1, <2>2, <2>3, <2>4, <2>5, <2>6 DEF OwnerStep
<1>2. ASSUME NEW c \in Clients, FetchByClient(c) \/ PostByClient(c) PROVE LockProtects'
  <2>1. CASE FetchByClient(c)
    BY <1>0, <2>1 DEF FetchByClient, CallTypes, ScanTypes
  <2>2. CASE PostByClient(c)
    BY <1>0, <2>2 DEF PostByClient, CallTypes, ScanTypes
  <2> QED
    BY <1>2, <2>1, <2>2
<1>3. ASSUME NEW c \in Callers, CallStep(c) \/ TouchDeleted(c) PROVE LockProtects'
  <2>1. CASE Compare(c) \/ Chosen(c) \/ TouchDeleted(c)
    BY <1>0, <2>1 DEF Compare, Chosen, TouchDeleted, CallTypes
  <2>2. CASE Take(c)
    <3>1. /\ cpc[c] = "take" /\ cpc' = [cpc EXCEPT ![c] = "compare"]
          /\ cret' = [cret EXCEPT ![c] = cidx[c]]
          /\ UNCHANGED <<lock, wpc, opc, oidx>>
      BY <2>2 DEF Take, workerVars, ownerVars
    <3>2. \A d \in Callers : cpc'[d] = "crit" <=> cpc[d] = "crit"
      BY <1>0, <3>1 DEF CallTypes
    <3>3. \A d \in Callers : d # c => cret'[d] = cret[d]
      BY <1>0, <3>1 DEF ScanTypes
    <3>4. ASSUME NEW t \in Threads, NEW p \in Procs
          PROVE  InCritical(p, t)' <=> InCritical(p, t)
      BY <3>1, <3>2, <3>3
    <3> QED
      BY <1>0, <3>1, <3>4
  <2>3. CASE PostLock(c)
    <3>1. /\ cret[c] \in Threads /\ lock[cret[c]] = NoProc
          /\ cpc' = [cpc EXCEPT ![c] = "crit"]
          /\ lock' = [lock EXCEPT ![cret[c]] = c]
          /\ UNCHANGED <<cret, wpc, opc, oidx>>
      BY <1>0, <2>3 DEF PostLock, Acquire, CallShape
    <3>2. c \in Procs /\ NoProc \notin Procs
      BY DEF Procs
    <3>3. \A p \in Procs : ~InCritical(p, cret[c])
      BY <1>0, <3>1, <3>2
    <3>4. ASSUME NEW t \in Threads, NEW p \in Procs
          PROVE  (InCritical(p, t) <=> lock[t] = p)'
      <4>1. CASE t = cret[c]
        BY <1>0, <3>1, <3>2, <3>3, <4>1 DEF CallTypes, ThreadTypes
      <4>2. CASE t # cret[c]
        BY <1>0, <3>1, <4>2 DEF CallTypes, ThreadTypes
      <4> QED
        BY <4>1, <4>2
    <3> QED
      BY <3>4
  <2>4. ASSUME NEW r, PostReturns(c, r) PROVE LockProtects'
    <3>1. cret[c] \in Threads /\ lock[cret[c]] = c
      BY <1>0, <2>4 DEF PostReturns, CallShape
    <3>2. /\ cpc' = [cpc EXCEPT ![c] = "idle"]
          /\ lock' = [lock EXCEPT ![cret[c]] = NoProc]
          /\ UNCHANGED <<cret, wpc, opc, oidx>>
      BY <2>4 DEF PostReturns, Release
    <3>3. c \notin Threads \/ wpc[c] = "run"
      BY <1>0, <2>4 DEF PostReturns, CallsFromBodies
    <3>4. ASSUME NEW t \in Threads, NEW p \in Procs
          PROVE  (InCritical(p, t) <=> lock[t] = p)'
      <4>1. CASE t = cret[c]
        BY <1>0, <3>1, <3>2, <3>3, <4>1 DEF CallTypes, ThreadTypes
      <4>2. CASE t # cret[c]
        BY <1>0, <3>1, <3>2, <4>2 DEF CallTypes, ThreadTypes
      <4> QED
        BY <4>1, <4>2
    <3> QED
      BY <3>4
  <2> QED
    BY <1>3, <2>1, <2>2, <2>3, <2>4
    DEF CallStep, PostNotRunning, PostNoMemory, PostAppend
<1>4. ASSUME NEW t \in Threads, WorkerStep(t) PROVE LockProtects'
  <2>1. CASE Wake(t) \/ Relock(t)
    <3>1. /\ lock[t] = NoProc /\ lock' = [lock EXCEPT ![t] = t]
          /\ UNCHANGED <<cpc, cret, opc, oidx>>
          /\ \E s \in {"check", "free"} : wpc' = [wpc EXCEPT ![t] = s]
      BY <2>1 DEF Wake, Relock, Acquire
    <3>2. ASSUME NEW u \in Threads, NEW p \in Procs
          PROVE  (InCritical(p, u) <=> lock[u] = p)'
      <4>1. CASE u = t
        <5>1. lock'[u] = t /\ wpc'[u] \in {"check", "drain", "free"}
          BY <1>0, <3>1, <4>1 DEF WorkerTypes, ThreadTypes
        <5>2. \A q \in Procs : ~ InCritical(q, t)
          BY <1>0, <3>1
        <5> QED
          BY <3>1, <4>1, <5>1, <5>2
      <4>2. CASE u # t
        <5>1. lock'[u] = lock[u] /\ wpc'[u] = wpc[u]
          BY <1>0, <3>1, <4>2 DEF WorkerTypes, ThreadTypes
        <5> QED
          BY <1>0, <3>1, <5>1
      <4> QED
        BY <4>1, <4>2
    <3> QED
      BY <3>2
  <2>2. CASE CheckRunning(t) \/ BodyDone(t) \/ FreeJob(t)
    <3>1. /\ UNCHANGED <<lock, cpc, cret, opc, oidx>>
          /\ \/ /\ wpc[t] \in {"check", "drain", "free"}
                /\ wpc' = [wpc EXCEPT ![t] = "drain"]
             \/ wpc[t] = "run" /\ wpc' = [wpc EXCEPT ![t] = "relock"]
      BY <2>2 DEF CheckRunning, BodyDone, FreeJob
    <3> QED
      BY <1>0, <3>1 DEF WorkerTypes
  <2>3. CASE Exit(t) \/ Drained(t) \/ Detach(t)
    <3>1. /\ wpc[t] \in {"check", "drain"} /\ lock' = [lock EXCEPT ![t] = NoProc]
          /\ UNCHANGED <<cpc, cret, opc, oidx>>
          /\ \E s \in {"exited", "sleep", "run"} : wpc' = [wpc EXCEPT ![t] = s]
      BY <2>3 DEF Exit, Drained, Detach, Release
    <3>2. lock[t] = t /\ cpc[t] = "idle"
      BY <1>0, <3>1 DEF CallsFromBodies
    <3>3. ASSUME NEW u \in Threads, NEW p \in Procs
          PROVE  (InCritical(p, u) <=> lock[u] = p)'
      <4>1. CASE u = t
        <5>1. lock'[u] = NoProc /\ wpc'[u] \notin {"check", "drain", "free"}
          BY <1>0, <3>1, <4>1 DEF WorkerTypes, ThreadTypes
        <5>2. \A q \in Procs \ {t} : ~ InCritical(q, t)
          BY <1>0, <3>2
        <5>3. t \notin Clients /\ t # Owner /\ t \in Callers
          BY DEF Callers, Threads
        <5>4. ~ InCritical(p, u)'
          <6>1. CASE p = t
            BY <3>1, <3>2, <4>1, <5>1, <5>3, <6>1
          <6>2. CASE p # t
            BY <3>1, <4>1, <5>2, <6>2
          <6> QED
            BY <6>1, <6>2
        <5> QED
          BY <5>1, <5>4
      <4>2. CASE u # t
        <5>1. lock'[u] = lock[u] /\ wpc'[u] = wpc[u]
          BY <1>0, <3>1, <4>2 DEF WorkerTypes, ThreadTypes
        <5> QED
          BY <1>0, <3>1, <5>1
      <4> QED
        BY <4>1, <4>2
    <3> QED
      BY <3>3
  <2>4. CASE FetchByBody(t)
    BY <1>0, <2>4 DEF FetchByBody, CallTypes, ScanTypes
  <2> QED
    BY <1>4, <2>1, <2>2, <2>3, <2>4 DEF WorkerStep
<1>5. CASE UNCHANGED vars
  BY <1>0, <1>5
<1> QED
  BY <1>1, <1>2, <1>3, <1>4, <1>5 DEF Next, Terminated

\* What one step can do to the list of a thread and to what is kept with it:
\* append the job of a posting caller, begin the first one, free the one that
\* was run, or nothing.
Appends(c) ==
  /\ cpc[c] = "crit" /\ cret[c] \in Threads /\ cjob[c] \in Jobs
  /\ PostAppend(c)

LEMMA ListStep ==
  ASSUME Inv, [Next]_vars
  PROVE  \/ \E c \in Callers : Appends(c)
         \/ \E t \in Threads : Detach(t)
         \/ \E t \in Threads : FreeJob(t)
         \/ UNCHANGED <<listVars, cur>>
<1> USE DEF vars, workerVars, callVars, ownerVars, listVars
<1>0. CallShape /\ CallTypes
  BY DEF Inv, TypeOK
<1>1. CASE OwnerStep
  BY <1>1 DEF OwnerStep, Start, BeginDestroy, StopLock, StopSet, Join, Delete
<1>2. ASSUME NEW c \in Clients, FetchByClient(c) \/ PostByClient(c)
      PROVE UNCHANGED <<listVars, cur>>
  BY <1>2 DEF FetchByClient, PostByClient
<1>3. ASSUME NEW c \in Callers, CallStep(c) \/ TouchDeleted(c), ~PostAppend(c)
      PROVE UNCHANGED <<listVars, cur>>
  BY <1>3 DEF CallStep, TouchDeleted, Compare, Take, Chosen, PostLock,
     PostNotRunning, PostNoMemory, PostReturns
<1>4. ASSUME NEW c \in Callers, PostAppend(c) PROVE Appends(c)
  BY <1>0, <1>4 DEF Appends, PostAppend, PostReturns, CallShape, CallTypes
<1>5. ASSUME NEW t \in Threads, WorkerStep(t), ~Detach(t), ~FreeJob(t)
      PROVE UNCHANGED <<listVars, cur>>
  BY <1>5 DEF WorkerStep, Wake, CheckRunning, Exit, Drained, FetchByBody, BodyDone, Relock
<1>6. CASE UNCHANGED vars
  BY <1>6
<1> QED
  BY <1>1, <1>2, <1>3, <1>4, <1>5, <1>6 DEF Next, Terminated

LEMMA WorkerHoldsJobStep == ASSUME Inv, [Next]_vars PROVE WorkerHoldsJob'
<1> USE PoolAssumption DEF WorkerHoldsJob, vars, workerVars, callVars, ownerVars, listVars
<1>0. WorkerTypes /\ ThreadTypes /\ HistoryTypes /\ WorkerHoldsJob /\ OwnerShape
  BY DEF Inv, TypeOK
<1>1. CASE OwnerStep
  <2>1. UNCHANGED <<cur, executed>>
    BY <1>1 DEF OwnerStep, Start, BeginDestroy, StopLock, StopSet, Join, Delete
  <2>2. \/ wpc' = wpc
        \/ /\ oidx \in Threads /\ wpc[oidx] \in {"none", "exited"}
           /\ \E s \in {"sleep", "deleted"} : wpc' = [wpc EXCEPT ![oidx] = s]
    BY <1>0, <1>1 DEF OwnerStep, Start, BeginDestroy, StopLock, StopSet, Join, Delete,
       OwnerShape
  <2> QED
    BY <1>0, <2>1, <2>2 DEF WorkerTypes
<1>2. ASSUME NEW c \in Clients, FetchByClient(c) \/ PostByClient(c) PROVE WorkerHoldsJob'
  BY <1>0, <1>2 DEF FetchByClient, PostByClient
<1>3. ASSUME NEW c \in Callers, CallStep(c) \/ TouchDeleted(c) PROVE WorkerHoldsJob'
  BY <1>0, <1>3 DEF CallStep, TouchDeleted, Compare, Take, Chosen, PostLock,
     PostNotRunning, PostNoMemory, PostAppend, PostReturns
<1>4. ASSUME NEW t \in Threads, WorkerStep(t) PROVE WorkerHoldsJob'
  <2>1. CASE Detach(t)
    <3>1. Head(queue[t]) \in Jobs
      BY <1>0, <2>1 DEF Detach, ThreadTypes
    <3>2. /\ executed'[t] = Append(executed[t], Head(queue[t]))
          /\ \A u \in Threads \ {t} : executed'[u] = executed[u]
      BY <1>0, <2>1 DEF Detach, HistoryTypes
    <3>3. executed'[t] # <<>> /\ executed'[t][Len(executed'[t])] = Head(queue[t])
      <4>1. executed[t] \in Seq(Jobs)
        BY <1>0 DEF HistoryTypes
      <4>2. /\ Append(executed[t], Head(queue[t])) # <<>>
            /\ Len(Append(executed[t], Head(queue[t]))) = Len(executed[t]) + 1
            /\ Append(executed[t], Head(queue[t]))[Len(executed[t]) + 1] = Head(queue[t])
        BY <3>1, <4>1, AppendProperties
      <4> QED
        BY <3>2, <4>2
    <3>4. /\ wpc' = [wpc EXCEPT ![t] = "run"]
          /\ cur' = [cur EXCEPT ![t] = Head(queue[t])]
      BY <2>1 DEF Detach
    <3> QED
      BY <1>0, <3>1, <3>2, <3>3, <3>4 DEF WorkerTypes
  <2>2. CASE FreeJob(t)
    BY <1>0, <2>2 DEF FreeJob, WorkerTypes
  <2>3. CASE ~Detach(t) /\ ~FreeJob(t)
    BY <1>0, <1>4, <2>3 DEF WorkerStep, Wake, CheckRunning, Exit, Drained, FetchByBody,
       BodyDone, Relock, WorkerTypes
  <2> QED
    BY <2>1, <2>2, <2>3
<1>5. CASE UNCHANGED vars
  BY <1>0, <1>5
<1> QED
  BY <1>1, <1>2, <1>3, <1>4, <1>5 DEF Next, Terminated

LEMMA PressureStep == ASSUME Inv, [Next]_vars PROVE PressureIsLoad'
<1> USE DEF PressureIsLoad, InFlight, listVars
<1>0. /\ WorkerTypes /\ ThreadTypes /\ WorkerHoldsJob /\ PressureIsLoad
      /\ \A t \in Threads : queue[t] \in Seq(Jobs) /\ Len(queue[t]) \in Nat
  BY LenProperties DEF Inv, TypeOK, ThreadTypes
<1>1. ASSUME NEW c \in Callers, Appends(c) PROVE PressureIsLoad'
  <2>1. PICK t \in Threads :
          /\ cjob[c] \in Jobs
          /\ queue' = [queue EXCEPT ![t] = Append(@, cjob[c])]
          /\ pressure' = [pressure EXCEPT ![t] = Increment(@)]
          /\ cur' = cur
          /\ Len(queue[t]) + (IF cur[t] = NoJob THEN 0 ELSE 1) < JobCapacity
    BY <1>1 DEF Appends, PostAppend, PostReturns, workerVars
  <2>2. queue'[t] = Append(queue[t], cjob[c]) /\ pressure'[t] = Increment(pressure[t])
    BY <1>0, <2>1 DEF ThreadTypes
  <2>3. Len(queue'[t]) = Len(queue[t]) + 1
    BY <1>0, <2>1, <2>2, AppendProperties
  <2>4. pressure[t] < JobCapacity
    BY <1>0, <2>1
  <2>5. pressure[t] \in Nat /\ pressure[t] # ScoreMax
    BY <1>0, <2>4, PoolAssumption DEF ThreadTypes
  <2>6. pressure'[t] = pressure[t] + 1
    BY <2>2, <2>5 DEF Increment
  <2>7. \A u \in Threads \ {t} : queue'[u] = queue[u] /\ pressure'[u] = pressure[u]
    BY <1>0, <2>1 DEF ThreadTypes
  <2>8. pressure'[t] = Len(queue'[t]) + (IF cur'[t] = NoJob THEN 0 ELSE 1)
    <3>1. pressure[t] = Len(queue[t]) + (IF cur[t] = NoJob THEN 0 ELSE 1)
      BY <1>0
    <3>2. cur'[t] = cur[t]
      BY <2>1
    <3>3. Len(queue[t]) \in Nat
      BY <1>0
    <3>4. CASE cur[t] = NoJob
      BY <2>3, <2>6, <3>1, <3>2, <3>3, <3>4
    <3>5. CASE cur[t] # NoJob
      BY <2>3, <2>6, <3>1, <3>2, <3>3, <3>5
    <3> QED
      BY <3>4, <3>5
  <2> QED
    BY <1>0, <2>1, <2>7, <2>8
<1>2. ASSUME NEW t \in Threads, Detach(t) PROVE PressureIsLoad'
  <2>1. /\ queue[t] # <<>> /\ cur[t] = NoJob /\ pressure' = pressure
        /\ queue' = [queue EXCEPT ![t] = Tail(@)]
        /\ cur' = [cur EXCEPT ![t] = Head(queue[t])]
    BY <1>0, <1>2 DEF Detach, WorkerHoldsJob
  <2>2. queue'[t] = Tail(queue[t]) /\ cur'[t] = Head(queue[t])
    BY <1>0, <2>1 DEF ThreadTypes, WorkerTypes
  <2>3. Head(queue[t]) \in Jobs /\ Len(Tail(queue[t])) = Len(queue[t]) - 1
    BY <1>0, <2>1, HeadTailProperties
  <2>4. cur'[t] # NoJob
    BY <2>2, <2>3, PoolAssumption
  <2>5. \A u \in Threads \ {t} : queue'[u] = queue[u] /\ cur'[u] = cur[u]
    BY <1>0, <2>1 DEF ThreadTypes, WorkerTypes
  <2>6. pressure'[t] = Len(queue'[t]) + (IF cur'[t] = NoJob THEN 0 ELSE 1)
    <3>1. pressure'[t] = Len(queue[t])
      <4>1. pressure[t] = Len(queue[t]) + (IF cur[t] = NoJob THEN 0 ELSE 1)
        BY <1>0
      <4>2. Len(queue[t]) \in Nat
        BY <1>0
      <4> QED
        BY <2>1, <4>1, <4>2
    <3> QED
      BY <1>0, <2>2, <2>3, <2>4, <3>1
  <2> QED
    BY <1>0, <2>1, <2>5, <2>6
<1>3. ASSUME NEW t \in Threads, FreeJob(t) PROVE PressureIsLoad'
  <2>1. /\ cur[t] # NoJob /\ queue' = queue
        /\ pressure' = [pressure EXCEPT ![t] = Decrement(@)]
        /\ cur' = [cur EXCEPT ![t] = NoJob]
    BY <1>0, <1>3 DEF FreeJob, WorkerHoldsJob
  <2>2. pressure[t] = Len(queue[t]) + 1
    BY <1>0, <2>1
  <2>3. pressure'[t] = Len(queue[t]) /\ cur'[t] = NoJob
    BY <1>0, <2>1, <2>2 DEF Decrement, ThreadTypes, WorkerTypes
  <2>4. \A u \in Threads \ {t} : pressure'[u] = pressure[u] /\ cur'[u] = cur[u]
    BY <1>0, <2>1 DEF ThreadTypes, WorkerTypes
  <2>5. ASSUME NEW u \in Threads, u # t
        PROVE  pressure'[u] = Len(queue'[u]) + (IF cur'[u] = NoJob THEN 0 ELSE 1)
    BY <1>0, <2>1, <2>4, <2>5
  <2>6. queue'[t] = queue[t] /\ Len(queue[t]) \in Nat
    BY <1>0, <2>1
  <2>7. pressure'[t] = Len(queue'[t]) + (IF cur'[t] = NoJob THEN 0 ELSE 1)
    BY <2>3, <2>6
  <2> QED
    BY <2>5, <2>7
<1>4. CASE UNCHANGED <<listVars, cur>>
  BY <1>0, <1>4
<1> QED
  BY <1>1, <1>2, <1>3, <1>4, ListStep

LEMMA FifoStep == ASSUME Inv, [Next]_vars PROVE FifoPerThread'
<1> USE DEF FifoPerThread, listVars
<1>0. /\ ThreadTypes /\ HistoryTypes /\ FifoPerThread
      /\ \A t \in Threads : /\ queue[t] \in Seq(Jobs) /\ executed[t] \in Seq(Jobs)
                            /\ accepted[t] \in Seq(Jobs)
  BY DEF Inv, TypeOK, ThreadTypes, HistoryTypes
<1>1. ASSUME NEW c \in Callers, Appends(c) PROVE FifoPerThread'
  <2>1. PICK t \in Threads, j \in Jobs :
          /\ executed' = executed
          /\ queue' = [queue EXCEPT ![t] = Append(@, j)]
          /\ accepted' = [accepted EXCEPT ![t] = Append(@, j)]
    BY <1>1 DEF Appends, PostAppend
  <2>2. Append(executed[t] \o queue[t], j) = executed[t] \o Append(queue[t], j)
    <3>1. executed[t] \in Seq(Jobs) /\ queue[t] \in Seq(Jobs)
      BY <1>0
    <3> QED
      BY <3>1, AppendConcat
  <2>3. accepted'[t] = executed'[t] \o queue'[t]
    BY <1>0, <2>1, <2>2 DEF ThreadTypes, HistoryTypes
  <2>4. \A u \in Threads \ {t} : queue'[u] = queue[u] /\ accepted'[u] = accepted[u]
    BY <1>0, <2>1 DEF ThreadTypes, HistoryTypes
  <2> QED
    BY <1>0, <2>1, <2>3, <2>4
<1>2. ASSUME NEW t \in Threads, Detach(t) PROVE FifoPerThread'
  <2>1. /\ queue[t] # <<>> /\ accepted' = accepted
        /\ queue' = [queue EXCEPT ![t] = Tail(@)]
        /\ executed' = [executed EXCEPT ![t] = Append(@, Head(queue[t]))]
    BY <1>2 DEF Detach
  <2>2. executed[t] \o queue[t] = Append(executed[t], Head(queue[t])) \o Tail(queue[t])
    BY <1>0, <2>1, ShiftHead
  <2>3. accepted'[t] = executed'[t] \o queue'[t]
    BY <1>0, <2>1, <2>2 DEF ThreadTypes, HistoryTypes
  <2>4. \A u \in Threads \ {t} : queue'[u] = queue[u] /\ executed'[u] = executed[u]
    BY <1>0, <2>1 DEF ThreadTypes, HistoryTypes
  <2> QED
    BY <1>0, <2>1, <2>3, <2>4
<1>3. ASSUME NEW t \in Threads, FreeJob(t) PROVE FifoPerThread'
  BY <1>0, <1>3 DEF FreeJob
<1>4. CASE UNCHANGED <<listVars, cur>>
  BY <1>0, <1>4
<1> QED
  BY <1>1, <1>2, <1>3, <1>4, ListStep

\* The elements of a list after its head is removed, and after an append.
LEMMA TailElements ==
  ASSUME NEW S, NEW q \in Seq(S), q # <<>>
  PROVE  {q[i] : i \in 1 .. Len(q)}
           = {Tail(q)[i] : i \in 1 .. Len(Tail(q))} \cup {Head(q)}
OBVIOUS

LEMMA AppendElements ==
  ASSUME NEW S, NEW q \in Seq(S), NEW e \in S
  PROVE  {Append(q, e)[i] : i \in 1 .. Len(Append(q, e))}
           = {q[i] : i \in 1 .. Len(q)} \cup {e}
OBVIOUS

\* Only an append makes a call return success.
LEMMA PostedStep ==
  ASSUME Inv, [Next]_vars, \A c \in Callers : ~Appends(c)
  PROVE  \A j \in Jobs : result'[j] = "posted" <=> result[j] = "posted"
<1> USE DEF vars, workerVars, callVars, ownerVars, listVars
<1>0. CallTypes /\ CallShape /\ WorkerHoldsJob /\ WorkerTypes
  BY DEF Inv, TypeOK
<1>1. CASE OwnerStep
  BY <1>1 DEF OwnerStep, Start, BeginDestroy, StopLock, StopSet, Join, Delete
<1>2. ASSUME NEW c \in Clients, FetchByClient(c) \/ PostByClient(c)
      PROVE  \E j \in Jobs : result[j] = "none" /\ result' = [result EXCEPT ![j] = "pending"]
  BY <1>2 DEF FetchByClient, PostByClient, ClientJobs
<1>3. ASSUME NEW c \in Callers, CallStep(c) \/ TouchDeleted(c), ~PostAppend(c)
      PROVE  \/ result' = result
             \/ \E r \in {"null", "EFAULT", "ENOMEM"} :
                  /\ result[cjob[c]] = "pending"
                  /\ result' = [result EXCEPT ![cjob[c]] = r]
  <2>1. CASE Chosen(c)
    BY <1>0, <2>1 DEF Chosen, CallTypes, CallShape
  <2>2. CASE PostNotRunning(c) \/ PostNoMemory(c)
    BY <1>0, <2>2 DEF PostNotRunning, PostNoMemory, PostReturns, CallTypes, CallShape
  <2>3. CASE Compare(c) \/ Take(c) \/ PostLock(c) \/ TouchDeleted(c)
    BY <2>3 DEF Compare, Take, PostLock, TouchDeleted
  <2> QED
    BY <1>3, <2>1, <2>2, <2>3 DEF CallStep
<1>4. ASSUME NEW c \in Callers, PostAppend(c) PROVE Appends(c)
  BY <1>0, <1>4 DEF Appends, PostAppend, PostReturns, CallShape, CallTypes
<1>5. ASSUME NEW t \in Threads, WorkerStep(t)
      PROVE  \/ result' = result
             \/ \E j \in Jobs : result[j] = "none" /\ result' = [result EXCEPT ![j] = "pending"]
  <2>1. CASE FetchByBody(t)
    BY <1>0, <2>1, PoolAssumption DEF FetchByBody, WorkerHoldsJob, WorkerTypes
  <2>2. CASE ~FetchByBody(t)
    BY <1>5, <2>2 DEF WorkerStep, Wake, CheckRunning, Exit, Drained, Detach, FreeJob,
       BodyDone, Relock
  <2> QED
    BY <2>1, <2>2
<1>6. CASE UNCHANGED vars
  BY <1>6
<1>7. \/ result' = result
      \/ \E j \in Jobs : result[j] = "none" /\ result' = [result EXCEPT ![j] = "pending"]
      \/ \E c \in Callers, r \in {"null", "EFAULT", "ENOMEM"} :
            result[cjob[c]] = "pending" /\ result' = [result EXCEPT ![cjob[c]] = r]
  <2>1. CASE OwnerStep
    BY <2>1 DEF OwnerStep, Start, BeginDestroy, StopLock, StopSet, Join, Delete
  <2>2. CASE \E c \in Clients : FetchByClient(c) \/ PostByClient(c)
    BY <1>2, <2>2
  <2>3. CASE \E c \in Callers : CallStep(c) \/ TouchDeleted(c)
    BY <1>3, <1>4, <2>3
  <2>4. CASE \E t \in Threads : WorkerStep(t)
    BY <1>5, <2>4
  <2> QED
    BY <1>6, <2>1, <2>2, <2>3, <2>4 DEF Next, Terminated
<1> QED
  BY <1>0, <1>7 DEF CallTypes

\* An element that ends the first of two sequences and occurs in the second
\* occurs twice in the whole.
LEMMA LastAndLater ==
  ASSUME NEW s \in Seq(Jobs), s # <<>>, NEW q \in Seq(Jobs), NEW i \in 1 .. Len(q),
         q[i] = s[Len(s)]
  PROVE  \E n, m \in 1 .. Len(s \o q) :
           n # m /\ (s \o q)[n] = s[Len(s)] /\ (s \o q)[m] = s[Len(s)]
<1>1. /\ Len(s) \in 1 .. Len(s \o q) /\ Len(s) + i \in 1 .. Len(s \o q)
      /\ Len(s) # Len(s) + i
  OBVIOUS
<1>2. (s \o q)[Len(s)] = s[Len(s)] /\ (s \o q)[Len(s) + i] = q[i]
  OBVIOUS
<1> QED
  BY <1>1, <1>2

LEMMA AcceptedStep == ASSUME Inv, [Next]_vars PROVE AcceptedOnce'
<1> USE DEF AcceptedOnce
<1>0. /\ CallTypes /\ HistoryTypes /\ CallShape /\ AcceptedOnce
      /\ \A t \in Threads : accepted[t] \in Seq(Jobs) /\ Len(accepted[t]) \in Nat
  BY LenProperties DEF Inv, TypeOK, HistoryTypes
<1>1. ASSUME NEW c \in Callers, Appends(c) PROVE AcceptedOnce'
  <2>1. PICK t \in Threads, j \in Jobs :
          /\ result[j] = "pending"
          /\ result' = [result EXCEPT ![j] = "posted"]
          /\ accepted' = [accepted EXCEPT ![t] = Append(@, j)]
    BY <1>0, <1>1, PoolAssumption DEF Appends, PostAppend, PostReturns, CallShape
  <2>2. /\ \A u \in Threads \ {t} : accepted'[u] = accepted[u]
        /\ Len(accepted'[t]) = Len(accepted[t]) + 1
        /\ \A i \in 1 .. Len(accepted[t]) : accepted'[t][i] = accepted[t][i]
        /\ accepted'[t][Len(accepted[t]) + 1] = j
    <3>1. accepted'[t] = Append(accepted[t], j)
      BY <1>0, <2>1 DEF HistoryTypes
    <3> QED
      BY <1>0, <2>1, <3>1, AppendProperties DEF HistoryTypes
  <2>3. \A u \in Threads : \A i \in 1 .. Len(accepted[u]) : accepted[u][i] # j
    BY <1>0, <2>1
  <2>4. ASSUME NEW k \in Jobs
        PROVE  result'[k] = "posted" <=>
                 \E u \in Threads : \E i \in 1 .. Len(accepted'[u]) : accepted'[u][i] = k
    <3>1. CASE k = j
      <4>1. result'[k] = "posted"
        BY <1>0, <2>1, <3>1 DEF CallTypes
      <4>2. Len(accepted[t]) + 1 \in 1 .. Len(accepted'[t])
        BY <1>0, <2>2
      <4> QED
        BY <2>1, <2>2, <3>1, <4>1, <4>2
    <3>2. CASE k # j
      <4>1. result'[k] = result[k]
        BY <1>0, <2>1, <3>2 DEF CallTypes
      <4>2. ASSUME NEW u \in Threads
            PROVE  (\E i \in 1 .. Len(accepted'[u]) : accepted'[u][i] = k)
                     <=> \E i \in 1 .. Len(accepted[u]) : accepted[u][i] = k
        <5>1. CASE u = t
          <6>1. \A i \in 1 .. Len(accepted'[t]) :
                  i \in 1 .. Len(accepted[t]) \/ accepted'[t][i] = j
            BY <1>0, <2>2
          <6>2. \A i \in 1 .. Len(accepted[t]) : i \in 1 .. Len(accepted'[t])
            BY <1>0, <2>2
          <6> QED
            BY <2>2, <3>2, <5>1, <6>1, <6>2
        <5>2. CASE u # t
          BY <2>2, <5>2
        <5> QED
          BY <5>1, <5>2
      <4>3. result[k] = "posted" <=>
              \E u \in Threads : \E i \in 1 .. Len(accepted[u]) : accepted[u][i] = k
        BY <1>0
      <4> QED
        BY <4>1, <4>2, <4>3
    <3> QED
      BY <3>1, <3>2
  <2>5. ASSUME NEW u \in Threads, NEW v \in Threads,
               NEW i \in 1 .. Len(accepted'[u]), NEW k \in 1 .. Len(accepted'[v]),
               accepted'[u][i] = accepted'[v][k]
        PROVE  u = v /\ i = k
    <3>1. \A w \in Threads : \A m \in 1 .. Len(accepted'[w]) :
            \/ m \in 1 .. Len(accepted[w]) /\ accepted'[w][m] = accepted[w][m]
            \/ w = t /\ m = Len(accepted[t]) + 1 /\ accepted'[w][m] = j
      <4>1. Len(accepted[t]) \in Nat
        BY <1>0
      <4>2. ASSUME NEW m \in 1 .. Len(accepted'[t])
            PROVE  \/ m \in 1 .. Len(accepted[t]) /\ accepted'[t][m] = accepted[t][m]
                   \/ m = Len(accepted[t]) + 1 /\ accepted'[t][m] = j
        BY <2>2, <4>1
      <4> QED
        BY <2>2, <4>2
    <3>2. CASE accepted'[u][i] = j
      <4>1. ~(i \in 1 .. Len(accepted[u]) /\ accepted[u][i] = j)
        BY <2>3
      <4>2. ~(k \in 1 .. Len(accepted[v]) /\ accepted[v][k] = j)
        BY <2>3
      <4>3. u = t /\ i = Len(accepted[t]) + 1
        BY <3>1, <3>2, <4>1
      <4>4. accepted'[v][k] = j
        BY <2>5, <3>2
      <4>5. v = t /\ k = Len(accepted[t]) + 1
        BY <3>1, <4>2, <4>4
      <4> QED
        BY <4>3, <4>5
    <3>3. CASE accepted'[u][i] # j
      <4>1. i \in 1 .. Len(accepted[u]) /\ accepted'[u][i] = accepted[u][i]
        BY <3>1, <3>3
      <4>2. k \in 1 .. Len(accepted[v]) /\ accepted'[v][k] = accepted[v][k]
        BY <2>5, <3>1, <3>3
      <4>3. accepted[u][i] = accepted[v][k]
        BY <2>5, <4>1, <4>2
      <4> QED
        BY <1>0, <4>1, <4>2, <4>3
    <3> QED
      BY <3>2, <3>3
  <2> QED
    BY <2>4, <2>5
<1>2. CASE \A c \in Callers : ~Appends(c)
  <2>1. accepted' = accepted
    BY <1>2, ListStep DEF Detach, FreeJob, listVars
  <2>2. \A j \in Jobs : result'[j] = "posted" <=> result[j] = "posted"
    BY <1>2, PostedStep
  <2> QED
    BY <1>0, <2>1, <2>2
<1> QED
  BY <1>1, <1>2

LEMMA ObjectsStep == ASSUME Inv, [Next]_vars PROVE ObjectsMatchJobs'
<1> USE DEF ObjectsMatchJobs, listVars
<1>0. /\ ThreadTypes /\ WorkerTypes /\ ObjectsMatchJobs /\ WorkerHoldsJob
      /\ \A t \in Threads : queue[t] \in Seq(Jobs)
  BY DEF Inv, TypeOK, ThreadTypes
<1>1. ASSUME NEW c \in Callers, Appends(c) PROVE ObjectsMatchJobs'
  <2>1. PICK t \in Threads, j \in Jobs :
          /\ cur' = cur
          /\ queue' = [queue EXCEPT ![t] = Append(@, j)]
          /\ live' = [live EXCEPT ![t] = @ \cup {j}]
    BY <1>1 DEF Appends, PostAppend, PostReturns, workerVars
  <2>2. queue'[t] = Append(queue[t], j) /\ live'[t] = live[t] \cup {j}
    BY <1>0, <2>1 DEF ThreadTypes
  <2>3. {queue'[t][i] : i \in 1 .. Len(queue'[t])} = {queue[t][i] : i \in 1 .. Len(queue[t])} \cup {j}
    BY <1>0, <2>2, AppendElements
  <2>4. \A u \in Threads \ {t} : queue'[u] = queue[u] /\ live'[u] = live[u]
    BY <1>0, <2>1 DEF ThreadTypes
  <2> QED
    BY <1>0, <2>1, <2>2, <2>3, <2>4
<1>2. ASSUME NEW t \in Threads, Detach(t) PROVE ObjectsMatchJobs'
  <2>1. /\ queue[t] # <<>> /\ cur[t] = NoJob /\ live' = live
        /\ queue' = [queue EXCEPT ![t] = Tail(@)]
        /\ cur' = [cur EXCEPT ![t] = Head(queue[t])]
    BY <1>0, <1>2 DEF Detach, WorkerHoldsJob
  <2>2. queue'[t] = Tail(queue[t]) /\ cur'[t] = Head(queue[t])
    BY <1>0, <2>1 DEF ThreadTypes, WorkerTypes
  <2>3. cur'[t] # NoJob
    BY <1>0, <2>1, <2>2, HeadTailProperties, PoolAssumption
  <2>4. {queue[t][i] : i \in 1 .. Len(queue[t])}
          = {queue'[t][i] : i \in 1 .. Len(queue'[t])} \cup {cur'[t]}
    <3>1. queue[t] \in Seq(Jobs) /\ queue[t] # <<>>
      BY <1>0, <2>1
    <3>2. {queue[t][i] : i \in 1 .. Len(queue[t])}
            = {Tail(queue[t])[i] : i \in 1 .. Len(Tail(queue[t]))} \cup {Head(queue[t])}
      BY <3>1, TailElements
    <3> QED
      BY <2>2, <3>2
  <2>5. \A u \in Threads \ {t} : queue'[u] = queue[u] /\ cur'[u] = cur[u]
    BY <1>0, <2>1 DEF ThreadTypes, WorkerTypes
  <2>6. live'[t] = {queue'[t][i] : i \in 1 .. Len(queue'[t])} \cup {cur'[t]}
    <3>1. live[t] = {queue[t][i] : i \in 1 .. Len(queue[t])}
      BY <1>0, <2>1
    <3> QED
      BY <2>1, <2>4, <3>1
  <2>7. ASSUME NEW u \in Threads
        PROVE  live'[u] = {queue'[u][i] : i \in 1 .. Len(queue'[u])}
                            \cup (IF cur'[u] = NoJob THEN {} ELSE {cur'[u]})
    <3>1. CASE u = t
      BY <2>3, <2>6, <3>1
    <3>2. CASE u # t
      BY <1>0, <2>1, <2>5, <3>2
    <3> QED
      BY <3>1, <3>2
  <2> QED
    BY <2>7
<1>3. ASSUME NEW t \in Threads, FreeJob(t) PROVE ObjectsMatchJobs'
  <2>1. /\ cur[t] # NoJob /\ queue' = queue
        /\ live' = [live EXCEPT ![t] = @ \ {cur[t]}]
        /\ cur' = [cur EXCEPT ![t] = NoJob]
    BY <1>0, <1>3 DEF FreeJob, WorkerHoldsJob
  \* The job being freed is not in the list: it was accepted once only.
  <2>2. \A i \in 1 .. Len(queue[t]) : queue[t][i] # cur[t]
    <3>1. /\ executed[t] \in Seq(Jobs) /\ executed[t] # <<>> /\ queue[t] \in Seq(Jobs)
          /\ executed[t][Len(executed[t])] = cur[t]
          /\ accepted[t] = executed[t] \o queue[t]
      BY <1>0, <2>1 DEF Inv, TypeOK, HistoryTypes, WorkerHoldsJob, FifoPerThread
    <3>2. SUFFICES ASSUME NEW i \in 1 .. Len(queue[t]), queue[t][i] = cur[t] PROVE FALSE
      OBVIOUS
    <3>3. PICK n, m \in 1 .. Len(accepted[t]) :
            n # m /\ accepted[t][n] = cur[t] /\ accepted[t][m] = cur[t]
      <4>1. queue[t][i] = executed[t][Len(executed[t])]
        BY <3>1, <3>2
      <4>2. \E n, m \in 1 .. Len(executed[t] \o queue[t]) :
              /\ n # m
              /\ (executed[t] \o queue[t])[n] = executed[t][Len(executed[t])]
              /\ (executed[t] \o queue[t])[m] = executed[t][Len(executed[t])]
        BY <3>1, <4>1, LastAndLater
      <4> QED
        BY <3>1, <4>2
    <3> QED
      BY <3>3 DEF Inv, AcceptedOnce
  <2>3. \A u \in Threads \ {t} : live'[u] = live[u] /\ cur'[u] = cur[u]
    BY <1>0, <2>1 DEF ThreadTypes, WorkerTypes
  <2>4. live'[t] = live[t] \ {cur[t]} /\ cur'[t] = NoJob
    BY <1>0, <2>1 DEF ThreadTypes, WorkerTypes
  <2> QED
    BY <1>0, <2>1, <2>2, <2>3, <2>4
<1>4. CASE UNCHANGED <<listVars, cur>>
  BY <1>0, <1>4
<1> QED
  BY <1>1, <1>2, <1>3, <1>4, ListStep

-----------------------------------------------------------------------------
(* The theorems. *)

\* Inv holds initially and is preserved by every step.
THEOREM Invariance == Spec => []Inv
<1>1. Inv /\ [Next]_vars => Inv'
  BY TypeStep, LockStep, PressureStep, FifoStep, ObjectsStep, AcceptedStep,
     WorkerHoldsJobStep, ShapeStep DEF Inv
<1> QED
  BY InitInv, <1>1, PTL DEF Spec

\* Type correctness (ThreadPool.h, the members of Thread and ThreadPool).
THEOREM TypeCorrect == Spec => []TypeOK
<1>1. Inv => TypeOK
  BY DEF Inv
<1> QED
  BY <1>1, Invariance, PTL

\* Thread::Lock is mutual exclusion for the list, the pool and the score of its
\* thread, for any number of threads and callers.
THEOREM MutualExclusion == Spec => []LockProtects
<1>1. Inv => LockProtects
  BY DEF Inv
<1> QED
  BY <1>1, Invariance, PTL

\* PressureScore is the number of queued and running jobs of the thread.
THEOREM PressureCorrect == Spec => []PressureIsLoad
<1>1. Inv => PressureIsLoad
  BY DEF Inv
<1> QED
  BY <1>1, Invariance, PTL

\* Every thread runs its jobs in the order of acceptance and loses none.
THEOREM Fifo == Spec => []FifoPerThread
<1>1. Inv => FifoPerThread
  BY DEF Inv
<1> QED
  BY <1>1, Invariance, PTL

\* No job object is used after it is freed, none is leaked.
THEOREM JobMemory == Spec => []ObjectsMatchJobs
<1>1. Inv => ObjectsMatchJobs
  BY DEF Inv
<1> QED
  BY <1>1, Invariance, PTL

\* postJob's result tells exactly whether the job is in one list, once.
THEOREM AtMostOnce == Spec => []AcceptedOnce
<1>1. Inv => AcceptedOnce
  BY DEF Inv
<1> QED
  BY <1>1, Invariance, PTL

-----------------------------------------------------------------------------
(* The pool implements JobService. *)

Retired == {t \in Threads : wpc[t] \in {"exited", "deleted"}}
Taken   == {j \in Jobs : result[j] = "posted"}

LEMMA ServiceInitially == Init => Service!ServiceInit
BY DEF Init, Service!ServiceInit

LEMMA ServiceStep ==
  ASSUME Inv, [Next]_vars
  PROVE  [Service!ServiceNext]_(Service!serviceVars)
<1> USE DEF vars, workerVars, callVars, ownerVars, listVars
<1>0. /\ ThreadTypes /\ WorkerTypes /\ CallTypes /\ CallShape /\ OwnerShape
      /\ WorkerHoldsJob
  BY DEF Inv, TypeOK
<1>1. ASSUME NEW c \in Callers, Appends(c) PROVE Service!ServiceNext
  <2>1. PICK t \in Threads, j \in Jobs :
          /\ running[t] /\ result[j] = "pending"
          /\ queue' = [queue EXCEPT ![t] = Append(@, j)]
          /\ result' = [result EXCEPT ![j] = "posted"]
          /\ UNCHANGED <<cur, running, wpc>>
    BY <1>0, <1>1, PoolAssumption DEF Appends, PostAppend, PostReturns, CallShape
  <2>2. j \notin Taken /\ Taken' = Taken \cup {j}
    BY <1>0, <2>1 DEF Taken, CallTypes
  <2>3. Service!Accept(t, j)
    BY <2>1, <2>2 DEF Service!Accept, Taken
  <2> QED
    BY <2>3 DEF Service!ServiceNext
<1>2. CASE \A c \in Callers : ~Appends(c)
  <2>0. Taken' = Taken
    BY <1>2, PostedStep DEF Taken
  <2>1. CASE OwnerStep
    <3>1. UNCHANGED <<queue, cur>>
      BY <2>1 DEF OwnerStep, Start, BeginDestroy, StopLock, StopSet, Join, Delete
    <3>2. CASE StopSet
      <4>1. UNCHANGED wpc /\ oidx \in Threads
            /\ running' = [running EXCEPT ![oidx] = FALSE]
        BY <1>0, <3>2 DEF StopSet, OwnerShape
      <4>2. CASE running[oidx]
        <5>1. Service!Close(oidx)
          BY <2>0, <3>1, <4>1, <4>2 DEF Service!Close, Taken
        <5> QED
          BY <4>1, <5>1 DEF Service!ServiceNext
      <4>3. CASE ~running[oidx]
        <5>1. running' = running
          BY <1>0, <4>1, <4>3 DEF ThreadTypes
        <5> QED
          BY <2>0, <3>1, <4>1, <5>1 DEF Service!serviceVars, Taken
      <4> QED
        BY <4>2, <4>3
    <3>3. CASE ~StopSet
      <4>1. running' = running
        BY <1>0, <2>1, <3>3 DEF OwnerStep, Start, BeginDestroy, StopLock, Join, Delete,
           OwnerShape, ThreadTypes
      <4>2. Retired' = Retired
        <5>1. \/ wpc' = wpc
              \/ /\ oidx \in Threads /\ wpc[oidx] = "none"
                 /\ wpc' = [wpc EXCEPT ![oidx] = "sleep"]
              \/ /\ oidx \in Threads /\ wpc[oidx] = "exited"
                 /\ wpc' = [wpc EXCEPT ![oidx] = "deleted"]
          <6>1. CASE Start
            BY <1>0, <6>1 DEF Start, OwnerShape
          <6>2. CASE Delete
            BY <1>0, <6>2 DEF Delete, OwnerShape
          <6>3. CASE ~Start /\ ~Delete
            BY <2>1, <3>3, <6>3 DEF OwnerStep, BeginDestroy, StopLock, Join
          <6> QED
            BY <6>1, <6>2, <6>3
        <5> QED
          BY <1>0, <5>1 DEF WorkerTypes, Retired
      <4> QED
        BY <2>0, <3>1, <4>1, <4>2 DEF Service!serviceVars, Taken, Retired
    <3> QED
      BY <3>2, <3>3
  <2>2. CASE \E c \in Clients : FetchByClient(c) \/ PostByClient(c)
    <3>1. UNCHANGED <<queue, cur, running, wpc>>
      BY <2>2 DEF FetchByClient, PostByClient
    <3> QED
      BY <2>0, <3>1 DEF Service!serviceVars, Taken
  <2>3. ASSUME NEW c \in Callers, CallStep(c) \/ TouchDeleted(c)
        PROVE  UNCHANGED Service!serviceVars
    <3>1. ~PostAppend(c)
      BY <1>0, <1>2 DEF Appends, PostAppend, PostReturns, CallShape, CallTypes
    <3>2. UNCHANGED <<queue, cur, running, wpc>>
      BY <2>3, <3>1 DEF CallStep, TouchDeleted, Compare, Take, Chosen, PostLock,
         PostNotRunning, PostNoMemory, PostReturns
    <3> QED
      BY <2>0, <3>2 DEF Service!serviceVars, Taken
  <2>4. ASSUME NEW t \in Threads, WorkerStep(t)
        PROVE  [Service!ServiceNext]_(Service!serviceVars)
    <3>1. CASE Detach(t)
      <4>1. /\ wpc[t] = "drain" /\ queue[t] # <<>>
            /\ queue' = [queue EXCEPT ![t] = Tail(@)]
            /\ cur' = [cur EXCEPT ![t] = Head(queue[t])]
            /\ wpc' = [wpc EXCEPT ![t] = "run"] /\ running' = running
        BY <3>1 DEF Detach
      <4>2. cur[t] = NoJob /\ t \notin Retired /\ Retired' = Retired
        BY <1>0, <4>1 DEF WorkerHoldsJob, WorkerTypes, Retired
      <4>3. Service!Begin(t)
        BY <2>0, <4>1, <4>2 DEF Service!Begin, Retired, Taken
      <4> QED
        BY <4>3 DEF Service!ServiceNext, Service!Work
    <3>2. CASE FreeJob(t)
      <4>1. /\ cur[t] # NoJob /\ cur' = [cur EXCEPT ![t] = NoJob]
            /\ wpc[t] = "free" /\ wpc' = [wpc EXCEPT ![t] = "drain"]
            /\ UNCHANGED <<queue, running>>
        BY <1>0, <3>2 DEF FreeJob, WorkerHoldsJob
      <4>2. Retired' = Retired
        BY <1>0, <4>1 DEF WorkerTypes, Retired
      <4>3. Service!Finish(t)
        BY <2>0, <4>1, <4>2 DEF Service!Finish, Retired, Taken
      <4> QED
        BY <4>3 DEF Service!ServiceNext, Service!Work
    <3>3. CASE Exit(t)
      <4>1. /\ wpc[t] = "check" /\ ~running[t]
            /\ wpc' = [wpc EXCEPT ![t] = "exited"]
            /\ UNCHANGED <<queue, running, cur>>
        BY <3>3 DEF Exit
      <4>2. cur[t] = NoJob /\ t \notin Retired
        BY <1>0, <4>1 DEF WorkerHoldsJob, Retired
      <4>4. wpc'[t] = "exited" /\ \A u \in Threads \ {t} : wpc'[u] = wpc[u]
        BY <1>0, <4>1 DEF WorkerTypes
      <4>5. Retired' = Retired \cup {t}
        BY <4>4 DEF Retired
      <4>3. Service!Retire(t)
        BY <2>0, <4>1, <4>2, <4>5 DEF Service!Retire, Retired, Taken
      <4> QED
        BY <4>3 DEF Service!ServiceNext, Service!Work
    <3>4. CASE ~Detach(t) /\ ~FreeJob(t) /\ ~Exit(t)
      <4>1. UNCHANGED <<queue, cur, running>>
        BY <2>4, <3>4 DEF WorkerStep, Wake, CheckRunning, Drained, FetchByBody, BodyDone,
           Relock
      <4>2. \/ wpc' = wpc
            \/ /\ wpc[t] \in {"sleep", "check", "drain", "run", "relock"}
               /\ \E s \in {"check", "drain", "sleep", "relock", "free"} :
                    wpc' = [wpc EXCEPT ![t] = s]
        BY <2>4, <3>4 DEF WorkerStep, Wake, CheckRunning, Drained, FetchByBody, BodyDone,
           Relock
      <4>3. Retired' = Retired
        BY <1>0, <4>2 DEF WorkerTypes, Retired
      <4> QED
        BY <2>0, <4>1, <4>3 DEF Service!serviceVars, Taken, Retired
    <3> QED
      BY <3>1, <3>2, <3>3, <3>4
  <2>5. CASE UNCHANGED vars
    BY <2>5 DEF Service!serviceVars
  <2> QED
    BY <2>1, <2>2, <2>3, <2>4, <2>5 DEF Next, Terminated
<1> QED
  BY <1>1, <1>2

\* Every behaviour of the pool is one of the service: each job is begun at most
\* once, in the order of acceptance and one at a time per thread, none is
\* accepted after stop() and none begun after the worker has left.
THEOREM ImplementsServiceTheorem == Spec => ImplementsServiceSafety
BY ServiceInitially, ServiceStep, Invariance, PTL
   DEF Spec, ImplementsServiceSafety, Service!ServiceSafety

-----------------------------------------------------------------------------
(* What calls on a thread reach: a search finds a thread, a deleted thread *)
(* is only reached from the body of a later one, and a worker leaves no    *)
(* job behind when it sleeps or ends.                                      *)

\* The jobs of a thread fit in the memory of its pool.
LoadFits == \A t \in Threads : Len(queue[t]) + InFlight(t) <= JobCapacity

\* A search that has found no thread yet stands at the first.
ScanStarts ==
  \A c \in Callers :
    cpc[c] = "compare" /\ cret[c] = 0 => cidx[c] = 1 /\ cbest[c] = ScoreMax

\* The deleted threads are those the destructor has passed.
DeletedPassed ==
  /\ opc \in {"start", "running"} => \A t \in Threads : wpc[t] # "deleted"
  /\ opc \in {"stop", "stopSet", "join", "delete"} =>
       \A t \in Threads : wpc[t] = "deleted" <=> t < oidx
  /\ opc = "done" => \A t \in Threads : wpc[t] = "deleted"

\* An application thread searches only in a pool that is not being destroyed,
\* and posts only to a thread that is there.
ClientCallsLive ==
  \A c \in Clients :
    /\ cpc[c] \in {"compare", "take"} => opc = "running"
    /\ cpc[c] \in {"lock", "crit"} => wpc[cret[c]] # "deleted"

Reach ==
  /\ Inv /\ LoadFits /\ ScanStarts /\ FetchFindsThread
  /\ DeletedPassed /\ ClientCallsLive /\ DeletedOnlyReachedFromLater

LEMMA InitReach == Init => Reach
<1> SUFFICES ASSUME Init PROVE Reach
  OBVIOUS
<1>1. Inv
  BY InitInv
<1>2. LoadFits
  BY PoolAssumption DEF Init, LoadFits, InFlight
<1>3. ScanStarts /\ FetchFindsThread /\ ClientCallsLive
  BY PoolAssumption DEF Init, ScanStarts, FetchFindsThread, ClientCallsLive
<1>4. DeletedPassed /\ DeletedOnlyReachedFromLater
  BY PoolAssumption DEF Init, DeletedPassed, DeletedOnlyReachedFromLater
<1> QED
  BY <1>1, <1>2, <1>3, <1>4 DEF Reach

-----------------------------------------------------------------------------
(* The search of fetchOneThread. *)

\* A job is appended while there is room, and moved from the list to the worker
\* or freed otherwise.
LEMMA LoadStep == ASSUME Inv, LoadFits, [Next]_vars PROVE LoadFits'
<1>0. /\ ThreadTypes /\ WorkerTypes /\ WorkerHoldsJob /\ CallShape /\ CallTypes
      /\ JobCapacity \in Nat
  BY PoolAssumption DEF Inv, TypeOK
<1>1. ASSUME NEW t \in Threads
      PROVE  /\ Len(queue[t]) \in Nat /\ InFlight(t) \in {0, 1}
             /\ Len(queue[t]) + InFlight(t) <= JobCapacity
  BY <1>0 DEF ThreadTypes, InFlight, LoadFits
<1>2. ASSUME NEW c \in Callers, Appends(c) PROVE LoadFits'
  <2>1. cret[c] \in Threads /\ cjob[c] \in Jobs
    BY <1>2 DEF Appends
  <2>2. /\ queue' = [queue EXCEPT ![cret[c]] = Append(@, cjob[c])] /\ cur' = cur
        /\ Len(queue[cret[c]]) + InFlight(cret[c]) < JobCapacity
    BY <1>2 DEF Appends, PostAppend, PostReturns, workerVars, InFlight
  <2>3. \A t \in Threads : /\ queue[t] \in Seq(Jobs)
                           /\ t # cret[c] => queue'[t] = queue[t]
    BY <1>0, <2>1, <2>2 DEF ThreadTypes
  <2>4. Len(queue'[cret[c]]) = Len(queue[cret[c]]) + 1
    BY <1>0, <2>1, <2>2, <2>3 DEF ThreadTypes
  <2>5. \A t \in Threads : InFlight(t)' = InFlight(t)
    BY <2>2 DEF InFlight
  <2>6. ASSUME NEW t \in Threads PROVE (Len(queue[t]) + InFlight(t) <= JobCapacity)'
    <3>1. CASE t = cret[c]
      <4>1. Len(queue[t]) + InFlight(t) < JobCapacity /\ Len(queue'[t]) = Len(queue[t]) + 1
        BY <2>2, <2>4, <3>1
      <4>2. InFlight(t)' = InFlight(t)
        BY <2>5
      <4> QED
        BY <1>0, <1>1, <4>1, <4>2
    <3>2. CASE t # cret[c]
      BY <1>1, <2>3, <2>5, <3>2
    <3> QED
      BY <3>1, <3>2
  <2> QED
    BY <2>6 DEF LoadFits
<1>3. ASSUME NEW t \in Threads, Detach(t) PROVE LoadFits'
  <2>1. InFlight(t) = 0 /\ queue[t] # <<>> /\ queue[t] \in Seq(Jobs)
    BY <1>0, <1>3 DEF Detach, WorkerHoldsJob, ThreadTypes, InFlight
  <2>2. /\ queue' = [queue EXCEPT ![t] = Tail(@)]
        /\ cur' = [cur EXCEPT ![t] = Head(queue[t])]
    BY <1>3 DEF Detach
  <2>3. Len(queue'[t]) = Len(queue[t]) - 1
    BY <1>0, <2>1, <2>2 DEF ThreadTypes
  <2>4. \A u \in Threads : u # t => queue'[u] = queue[u] /\ InFlight(u)' = InFlight(u)
    BY <1>0, <2>2 DEF ThreadTypes, WorkerTypes, InFlight
  <2>5. InFlight(t)' \in {0, 1}
    BY DEF InFlight
  <2>6. ASSUME NEW u \in Threads PROVE (Len(queue[u]) + InFlight(u) <= JobCapacity)'
    <3>1. CASE u = t
      <4>1. Len(queue[t]) \in Nat /\ Len(queue[t]) + InFlight(t) <= JobCapacity
        BY <1>1
      <4> QED
        BY <1>0, <2>1, <2>3, <2>5, <3>1, <4>1
    <3>2. CASE u # t
      BY <1>1, <2>4, <3>2
    <3> QED
      BY <3>1, <3>2
  <2> QED
    BY <2>6 DEF LoadFits
<1>4. ASSUME NEW t \in Threads, FreeJob(t) PROVE LoadFits'
  <2>1. queue' = queue /\ cur' = [cur EXCEPT ![t] = NoJob]
    BY <1>4 DEF FreeJob
  <2>2. InFlight(t)' = 0 /\ \A u \in Threads : u # t => InFlight(u)' = InFlight(u)
    BY <1>0, <2>1 DEF WorkerTypes, InFlight
  <2>3. ASSUME NEW u \in Threads PROVE (Len(queue[u]) + InFlight(u) <= JobCapacity)'
    <3>1. /\ Len(queue[u]) \in Nat /\ InFlight(u) \in {0, 1}
          /\ Len(queue[u]) + InFlight(u) <= JobCapacity
      BY <1>1
    <3> QED
      BY <1>0, <2>1, <2>2, <3>1
  <2> QED
    BY <2>3 DEF LoadFits
<1>5. CASE UNCHANGED <<listVars, cur>>
  BY <1>5 DEF listVars, LoadFits, InFlight
<1> QED
  BY <1>2, <1>3, <1>4, <1>5, ListStep

\* A score fits the first comparison of a search, so the first thread is taken.
LEMMA ScanStep ==
  ASSUME Inv, LoadFits, ScanStarts, FetchFindsThread, [Next]_vars
  PROVE  ScanStarts' /\ FetchFindsThread'
<1> USE PoolAssumption DEF ScanStarts, FetchFindsThread, vars, workerVars, callVars,
        ownerVars, listVars
<1>0. /\ CallTypes /\ ScanTypes /\ ThreadTypes /\ WorkerTypes /\ CallShape /\ WorkerHoldsJob
      /\ PressureIsLoad
  BY DEF Inv, TypeOK
<1>1. CASE OwnerStep
  BY <1>0, <1>1 DEF OwnerStep, Start, BeginDestroy, StopLock, StopSet, Join, Delete
<1>2. ASSUME NEW c \in Clients, FetchByClient(c) \/ PostByClient(c)
      PROVE  ScanStarts' /\ FetchFindsThread'
  <2>1. CASE FetchByClient(c)
    BY <1>0, <2>1 DEF FetchByClient, CallTypes, ScanTypes
  <2>2. CASE PostByClient(c)
    BY <1>0, <2>2 DEF PostByClient, CallTypes, ScanTypes
  <2> QED
    BY <1>2, <2>1, <2>2
<1>3. ASSUME NEW c \in Callers, CallStep(c) \/ TouchDeleted(c)
      PROVE  ScanStarts' /\ FetchFindsThread'
  <2>1. CASE Compare(c)
    <3>1. cidx[c] \in Threads /\ pressure[cidx[c]] < ScoreMax
      BY <1>0, <2>1 DEF Compare, ScanTypes, PressureIsLoad, LoadFits, ThreadTypes
    <3>2. cret[c] = 0 => cpc' = [cpc EXCEPT ![c] = "take"]
      BY <2>1, <3>1 DEF Compare
    <3>3. /\ cret' = cret /\ cbest' = cbest /\ result' = result
          /\ \A d \in Callers \ {c} : cpc'[d] = cpc[d] /\ cidx'[d] = cidx[d]
      BY <1>0, <2>1 DEF Compare, CallTypes, ScanTypes
    <3> QED
      BY <1>0, <3>2, <3>3 DEF CallTypes
  <2>2. CASE Take(c)
    BY <1>0, <2>2 DEF Take, CallTypes, ScanTypes, CallShape
  <2>3. CASE Chosen(c)
    <3>1. NumThread > 0 => cret[c] # 0
      BY <1>0, <2>3 DEF Chosen
    <3> QED
      BY <1>0, <2>3, <3>1 DEF Chosen, CallTypes, ScanTypes
  <2>4. CASE PostLock(c) \/ TouchDeleted(c)
    BY <1>0, <2>4 DEF PostLock, TouchDeleted, CallTypes, ScanTypes
  <2>5. ASSUME NEW r \in Results \ {"null"}, PostReturns(c, r)
        PROVE  ScanStarts' /\ FetchFindsThread'
    BY <1>0, <2>5 DEF PostReturns, CallTypes, ScanTypes
  <2> QED
    BY <1>3, <2>1, <2>2, <2>3, <2>4, <2>5
    DEF CallStep, PostNotRunning, PostNoMemory, PostAppend, Results
<1>4. ASSUME NEW t \in Threads, WorkerStep(t) PROVE ScanStarts' /\ FetchFindsThread'
  <2>1. CASE FetchByBody(t)
    BY <1>0, <2>1 DEF FetchByBody, CallTypes, ScanTypes
  <2>2. CASE ~FetchByBody(t)
    BY <1>0, <1>4, <2>2 DEF WorkerStep, Wake, CheckRunning, Exit, Drained,
       Detach, BodyDone, Relock, FreeJob
  <2> QED
    BY <2>1, <2>2
<1>5. CASE UNCHANGED vars
  BY <1>0, <1>5
<1> QED
  BY <1>1, <1>2, <1>3, <1>4, <1>5 DEF Next, Terminated

-----------------------------------------------------------------------------
(* Deleted threads. *)

LEMMA DeletedStep == ASSUME Inv, DeletedPassed, [Next]_vars PROVE DeletedPassed'
<1> USE PoolAssumption DEF DeletedPassed, vars, workerVars, callVars, ownerVars, listVars
<1>0. WorkerTypes /\ OwnerTypes /\ OwnerShape
  BY DEF Inv, TypeOK
<1>1. CASE OwnerStep
  <2>1. CASE Start
    BY <1>0, <2>1 DEF Start, OwnerShape, WorkerTypes
  <2>2. CASE BeginDestroy
    BY <1>0, <2>2 DEF BeginDestroy, OwnerShape
  <2>3. CASE StopLock \/ StopSet \/ Join
    BY <1>0, <2>3 DEF StopLock, StopSet, Join
  <2>4. CASE Delete
    <3>1. oidx \in Threads /\ \A t \in Threads : wpc'[t] = "deleted" <=> t <= oidx
      BY <1>0, <2>4 DEF Delete, OwnerShape, WorkerTypes
    <3> QED
      BY <1>0, <2>4, <3>1 DEF Delete
  <2> QED
    BY <1>1, <2>1, <2>2, <2>3, <2>4 DEF OwnerStep
<1>2. ASSUME NEW c \in Clients, FetchByClient(c) \/ PostByClient(c) PROVE DeletedPassed'
  BY <1>0, <1>2 DEF FetchByClient, PostByClient
<1>3. ASSUME NEW c \in Callers, CallStep(c) \/ TouchDeleted(c) PROVE DeletedPassed'
  BY <1>0, <1>3 DEF CallStep, TouchDeleted, Compare, Take, Chosen, PostLock,
     PostNotRunning, PostNoMemory, PostAppend, PostReturns
<1>4. ASSUME NEW t \in Threads, WorkerStep(t) PROVE DeletedPassed'
  <2>1. /\ wpc[t] # "deleted" /\ UNCHANGED <<opc, oidx>>
        /\ \E s \in WorkerStates \ {"deleted"} : wpc' = [wpc EXCEPT ![t] = s]
    BY <1>0, <1>4 DEF WorkerStep, Wake, CheckRunning, Exit, Drained, FetchByBody,
       Detach, BodyDone, Relock, FreeJob, WorkerTypes, WorkerStates
  <2> QED
    BY <1>0, <2>1 DEF WorkerTypes
<1>5. CASE UNCHANGED vars
  BY <1>0, <1>5
<1> QED
  BY <1>1, <1>2, <1>3, <1>4, <1>5 DEF Next, Terminated

LEMMA ClientStep ==
  ASSUME Inv, DeletedPassed, ClientCallsLive, [Next]_vars PROVE ClientCallsLive'
<1> USE PoolAssumption DEF ClientCallsLive, vars, workerVars, callVars, ownerVars, listVars
<1>0. /\ CallTypes /\ ScanTypes /\ WorkerTypes /\ OwnerTypes /\ CallShape /\ OwnerShape
      /\ \A c \in Clients : c \in Callers
  BY DEF Inv, TypeOK
<1>1. CASE OwnerStep
  <2>1. CASE Start
    BY <1>0, <2>1 DEF Start, OwnerShape, WorkerTypes
  <2>2. CASE BeginDestroy
    BY <1>0, <2>2 DEF BeginDestroy
  <2>3. CASE StopLock \/ StopSet \/ Join
    BY <1>0, <2>3 DEF StopLock, StopSet, Join
  <2>4. CASE Delete
    BY <1>0, <2>4 DEF Delete, OwnerShape, WorkerTypes, CallShape
  <2> QED
    BY <1>1, <2>1, <2>2, <2>3, <2>4 DEF OwnerStep
<1>2. ASSUME NEW c \in Clients, FetchByClient(c) \/ PostByClient(c) PROVE ClientCallsLive'
  BY <1>0, <1>2 DEF FetchByClient, PostByClient, CallTypes, ScanTypes, Deleted
<1>3. ASSUME NEW c \in Callers, CallStep(c) \/ TouchDeleted(c) PROVE ClientCallsLive'
  <2>1. CASE Compare(c) \/ Take(c)
    BY <1>0, <2>1 DEF Compare, Take, CallTypes, ScanTypes
  <2>2. CASE Chosen(c)
    BY <1>0, <2>2 DEF Chosen, CallTypes, ScanTypes, DeletedPassed
  <2>3. CASE PostLock(c) \/ TouchDeleted(c)
    BY <1>0, <2>3 DEF PostLock, TouchDeleted, CallTypes
  <2>4. ASSUME NEW r, PostReturns(c, r) PROVE ClientCallsLive'
    BY <1>0, <2>4 DEF PostReturns, CallTypes
  <2> QED
    BY <1>3, <2>1, <2>2, <2>3, <2>4
    DEF CallStep, PostNotRunning, PostNoMemory, PostAppend
<1>4. ASSUME NEW t \in Threads, WorkerStep(t) PROVE ClientCallsLive'
  <2>1. \A c \in Clients : cpc'[c] = cpc[c] /\ cret'[c] = cret[c]
    BY <1>0, <1>4 DEF WorkerStep, Wake, CheckRunning, Exit, Drained, FetchByBody,
       Detach, BodyDone, Relock, FreeJob, CallTypes, ScanTypes
  <2>2. opc' = opc /\ \E s \in WorkerStates \ {"deleted"} :
                        wpc' = [wpc EXCEPT ![t] = s]
    BY <1>0, <1>4 DEF WorkerStep, Wake, CheckRunning, Exit, Drained, FetchByBody,
       Detach, BodyDone, Relock, FreeJob, WorkerTypes, WorkerStates
  <2>3. \A u \in Threads : wpc[u] # "deleted" => wpc'[u] # "deleted"
    BY <1>0, <2>2 DEF WorkerTypes
  <2>4. \A c \in Clients : cpc[c] \in {"lock", "crit"} => cret[c] \in Threads
    BY <1>0 DEF CallShape
  <2> QED
    BY <2>1, <2>2, <2>3, <2>4
<1>5. CASE UNCHANGED vars
  BY <1>0, <1>5
<1> QED
  BY <1>1, <1>2, <1>3, <1>4, <1>5 DEF Next, Terminated

\* Whoever reaches a deleted thread is a worker that is not deleted, so its
\* thread comes after those that are.
LEMMA TouchStep ==
  ASSUME Inv, DeletedPassed, ClientCallsLive, DeletedOnlyReachedFromLater, [Next]_vars
  PROVE  DeletedOnlyReachedFromLater'
<1> USE PoolAssumption DEF DeletedOnlyReachedFromLater, vars, workerVars, callVars,
        ownerVars, listVars
<1>0. /\ CallTypes /\ ScanTypes /\ WorkerTypes /\ OwnerTypes
      /\ CallShape /\ CallsFromBodies /\ OwnerShape
  BY DEF Inv, TypeOK
<1>1. ASSUME NEW c \in Callers, TouchDeleted(c) PROVE DeletedOnlyReachedFromLater'
  <2>1. PICK t \in Threads : wpc[t] = "deleted" /\ fault' = <<c, t>>
    BY <1>1 DEF TouchDeleted, Deleted
  <2>2. c \notin Clients
    BY <1>0, <1>1 DEF TouchDeleted, Deleted, ClientCallsLive, DeletedPassed
  <2>3. c \in Threads /\ wpc[c] = "run"
    BY <1>0, <1>1, <2>2 DEF TouchDeleted, CallsFromBodies
  <2>4. c > t
    BY <1>0, <2>1, <2>3 DEF DeletedPassed, OwnerTypes, OwnerStates, OwnerShape
  <2> QED
    BY <2>1, <2>3, <2>4
<1>2. CASE fault' = fault
  BY <1>2
<1> QED
  BY <1>1, <1>2 DEF Next, Terminated, OwnerStep, Start, BeginDestroy, StopLock, StopSet,
     Join, Delete, FetchByClient, PostByClient, CallStep, Compare, Take, Chosen, PostLock,
     PostNotRunning, PostNoMemory, PostAppend, PostReturns, WorkerStep, Wake, CheckRunning,
     Exit, Drained, FetchByBody, Detach, BodyDone, Relock, FreeJob

-----------------------------------------------------------------------------
(* The theorems. *)

\* Reach holds initially and is preserved by every step.
THEOREM ReachInvariance == Spec => []Reach
<1>1. Reach /\ [Next]_vars => Reach'
  <2>1. Inv /\ [Next]_vars => Inv'
    BY TypeStep, LockStep, PressureStep, FifoStep, ObjectsStep, AcceptedStep,
       WorkerHoldsJobStep, ShapeStep DEF Inv
  <2> QED
    BY <2>1, LoadStep, ScanStep, DeletedStep, ClientStep, TouchStep DEF Reach
<1> QED
  BY InitReach, <1>1, PTL DEF Spec

\* fetchOneThread finds a thread in a pool that has one, whatever scores it
\* reads unlocked (ThreadPool.cpp, fetchOneThread).
THEOREM SearchSucceeds == Spec => []FetchFindsThread
<1>1. Reach => FetchFindsThread
  BY DEF Reach
<1> QED
  BY <1>1, ReachInvariance, PTL

\* While the destructor deletes the threads in order, only bodies that run on a
\* later thread can still reach a deleted one (ThreadPool::~ThreadPool).
THEOREM OnlyLaterBodiesTouch == Spec => []DeletedOnlyReachedFromLater
<1>1. Reach => DeletedOnlyReachedFromLater
  BY DEF Reach
<1> QED
  BY <1>1, ReachInvariance, PTL

\* What stays true of a thread stopped while its worker was inside the list.
OutlastsStop(t) == ~running[t] /\ (Draining(t) \/ queue[t] = <<>>)

\* Running is not set again once the pool is built, nothing is appended to a
\* stopped thread, and the worker leaves its list only when that is empty.
LEMMA OutlastsStep ==
  ASSUME Inv, [Next]_vars, NEW t \in Threads, OutlastsStop(t)
  PROVE  OutlastsStop(t)'
<1> USE PoolAssumption DEF vars, workerVars, callVars, ownerVars, listVars, OutlastsStop, Draining
<1>1. ThreadTypes /\ WorkerTypes /\ OwnerShape
  BY DEF Inv, TypeOK
<1>2. CASE OwnerStep
  <2>1. opc # "start"
    BY <1>1 DEF OwnerShape
  <2>2. ~running'[t] /\ queue' = queue
    BY <1>1, <1>2, <2>1 DEF OwnerStep, Start, BeginDestroy, StopLock, StopSet, Join, Delete,
       ThreadTypes
  <2>3. Draining(t) => Draining(t)' \/ queue[t] = <<>>
    BY <1>1, <1>2, <2>1 DEF OwnerStep, Start, BeginDestroy, StopLock, StopSet, Join, Delete,
       WorkerTypes, OwnerShape
  <2> QED
    BY <2>2, <2>3
<1>3. ASSUME NEW c \in Clients, FetchByClient(c) \/ PostByClient(c)
      PROVE  UNCHANGED <<wpc, running, queue>>
  BY <1>3 DEF FetchByClient, PostByClient
<1>4. ASSUME NEW c \in Callers, CallStep(c) \/ TouchDeleted(c)
      PROVE  UNCHANGED <<wpc, running>> /\ queue'[t] = queue[t]
  <2>1. UNCHANGED <<wpc, running>>
    BY <1>4 DEF CallStep, TouchDeleted, Compare, Take, Chosen, PostLock,
       PostNotRunning, PostNoMemory, PostAppend, PostReturns
  <2>2. CASE PostAppend(c)
    BY <1>1, <2>2 DEF PostAppend, PostReturns, ThreadTypes
  <2>3. CASE ~PostAppend(c)
    BY <1>4, <2>3 DEF CallStep, TouchDeleted, Compare, Take, Chosen, PostLock,
       PostNotRunning, PostNoMemory, PostReturns
  <2> QED
    BY <2>1, <2>2, <2>3
<1>5. ASSUME NEW u \in Threads, WorkerStep(u)
      PROVE  OutlastsStop(t)'
  <2>1. CASE u # t
    BY <1>1, <1>5, <2>1 DEF WorkerStep, Wake, CheckRunning, Exit, Drained, FetchByBody,
       Detach, BodyDone, Relock, FreeJob, WorkerTypes, ThreadTypes
  <2>2. CASE u = t
    BY <1>1, <1>5, <2>2 DEF WorkerStep, Wake, CheckRunning, Exit, Drained, FetchByBody,
       Detach, BodyDone, Relock, FreeJob, WorkerTypes, ThreadTypes
  <2> QED
    BY <2>1, <2>2
<1>6. CASE UNCHANGED vars
  BY <1>6
<1> QED
  BY <1>2, <1>3, <1>4, <1>5, <1>6 DEF Next, Terminated

\* For any number of threads, clients and jobs: a worker that stop() finds
\* inside its list (ThreadPool.cpp:81-94, :113) leaves no job of it unrun.
THEOREM StopDropsNothingInHand == Spec => DrainOutlastsStop
<1>1. ASSUME NEW t \in Threads
      PROVE  Spec => [](~running[t] /\ Draining(t)
                          => [](wpc[t] \in {"exited", "deleted"} => queue[t] = <<>>))
  <2>1. ~running[t] /\ Draining(t) => OutlastsStop(t)
    BY DEF OutlastsStop
  <2>2. Inv /\ [Next]_vars /\ OutlastsStop(t) => OutlastsStop(t)'
    BY OutlastsStep
  <2>3. OutlastsStop(t) => (wpc[t] \in {"exited", "deleted"} => queue[t] = <<>>)
    BY DEF OutlastsStop, Draining
  <2> QED
    BY <2>1, <2>2, <2>3, Invariance, PTL DEF Spec
<1> QED
  BY <1>1 DEF DrainOutlastsStop
=============================================================================

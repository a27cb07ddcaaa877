------------------------------ MODULE JobService ------------------------------
(***************************************************************************)
(* What a set of worker threads promises to those who post jobs, without   *)
(* locks, memory or scores: a thread that is open accepts jobs, runs them  *)
(* one at a time in the order of acceptance, each once, and once closed    *)
(* accepts none; a closed thread may retire when it runs no job and then   *)
(* never runs another, whatever it still holds.                            *)
(***************************************************************************)
EXTENDS Sequences

CONSTANTS Threads, Jobs, NoJob

VARIABLES
  pending,  \* accepted jobs a thread has not begun
  current,  \* the job it is running, or NoJob
  open,     \* does it accept jobs
  retired,  \* threads that will run nothing more
  taken     \* jobs accepted by some thread so far

serviceVars == <<pending, current, open, retired, taken>>

ServiceInit ==
  /\ pending = [t \in Threads |-> <<>>]
  /\ current = [t \in Threads |-> NoJob]
  /\ open = [t \in Threads |-> TRUE]
  /\ retired = {}
  /\ taken = {}

Accept(t, j) ==
  /\ open[t] /\ j \notin taken
  /\ pending' = [pending EXCEPT ![t] = Append(@, j)]
  /\ taken' = taken \cup {j}
  /\ UNCHANGED <<current, open, retired>>

Begin(t) ==
  /\ t \notin retired /\ current[t] = NoJob /\ pending[t] # <<>>
  /\ current' = [current EXCEPT ![t] = Head(pending[t])]
  /\ pending' = [pending EXCEPT ![t] = Tail(@)]
  /\ UNCHANGED <<open, retired, taken>>

Finish(t) ==
  /\ current[t] # NoJob
  /\ current' = [current EXCEPT ![t] = NoJob]
  /\ UNCHANGED <<pending, open, retired, taken>>

Close(t) ==
  /\ open[t]
  /\ open' = [open EXCEPT ![t] = FALSE]
  /\ UNCHANGED <<pending, current, retired, taken>>

Retire(t) ==
  /\ ~open[t] /\ current[t] = NoJob /\ t \notin retired
  /\ retired' = retired \cup {t}
  /\ UNCHANGED <<pending, current, open, taken>>

Work(t) == Begin(t) \/ Finish(t) \/ Retire(t)

ServiceNext ==
  \E t \in Threads : Work(t) \/ Close(t) \/ \E j \in Jobs : Accept(t, j)

ServiceSafety == ServiceInit /\ [][ServiceNext]_serviceVars
=============================================================================

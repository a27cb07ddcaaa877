----------------------------- MODULE Connections -----------------------------
(* Connections and listening sockets in an event domain: bindDomain,          *)
(* unbindDomain and close of HTTPConnection and HTTPListen, the registrations *)
(* of EPollEventDomain, and the events it collects and dispatches meanwhile.  *)
(* The application thread opens and binds; what a connection does otherwise   *)
(* it does in its handler, on its worker.  Nothing in the library locks one   *)
(* against the other, or either against the loop.                             *)
EXTENDS Naturals, Sequences, FiniteSets

CONSTANTS
    Conns, Listeners,   \* HTTPConnection and HTTPListen objects
    FDs,                \* numbers the kernel gives to descriptors, and again after close
    MaxJobs,            \* bound: jobs the worker's thread has memory for
    None

ASSUME ConnectionsAssumption ==
    /\ Conns \cap Listeners = {}
    /\ MaxJobs \in Nat \ {0}
    /\ None \notin FDs \cup Conns \cup Listeners

Subs == Conns \cup Listeners

VARIABLES
    opened,       \* objects that were constructed
    fd,           \* FD, None for -1
    domain,       \* Domain: "null", "bound", or the "junk" of a constructor that leaves it
    armed,        \* is the timer of the object in the domain's tree
    bypassed,     \* closed by the base class, which does not unbind, when bound
    early,        \* closed by a handler for which bindDomain had yet to set Domain
    reg,          \* epoll: the object registered for each descriptor
    edge,         \* descriptors with an event that epoll has not reported
    waiting,      \* descriptors with peers the application has not accepted
    lpc, batch,   \* the loop: its place, the objects whose events it collected
    jobs,         \* events posted to the worker
    wpc, cur, closing,    \* the worker: its place, the object it handles, does it close it,
    seen,         \* and what unbindDomain last knew of its Domain
    apc, asub     \* the application: its place in bindDomain, the object it binds

kernel == <<reg, edge, waiting>>
object == <<opened, fd, domain, armed, bypassed, early>>
loop == <<lpc, batch>>
worker == <<wpc, cur, closing, seen>>
app == <<apc, asub>>
vars == <<object, kernel, loop, jobs, worker, app>>

Registered(s) == fd[s] # None /\ reg[fd[s]] = s

Init ==
    /\ opened = {}
    /\ fd = [s \in Subs |-> None]
    /\ domain = [s \in Subs |-> "null"]
    /\ armed = [s \in Subs |-> FALSE]
    /\ bypassed = [s \in Subs |-> FALSE]
    /\ early = [s \in Subs |-> FALSE]
    /\ reg = [f \in FDs |-> None]
    /\ edge = {} /\ waiting = {}
    /\ lpc = "out" /\ batch = {}
    /\ jobs = <<>>
    /\ wpc = "idle" /\ cur = None /\ closing = FALSE /\ seen = "null"
    /\ apc = "idle" /\ asub = None

-------------------------------------------------------------------------------
(* The application thread. *)

\* An object is constructed with a socket of its own, or with an accepted one.
\* HTTPListen clears Domain, HTTPConnection leaves what was there
Open(s) ==
    /\ apc = "idle" /\ s \notin opened
    /\ \E f \in FDs : (\A r \in Subs : fd[r] # f) /\ fd' = [fd EXCEPT ![s] = f]
    /\ \E d \in IF s \in Conns THEN {"null", "junk"} ELSE {"null"} : domain' = [domain EXCEPT ![s] = d]
    /\ opened' = opened \cup {s}
    /\ UNCHANGED <<armed, bypassed, early, kernel, loop, jobs, worker, app>>

\* bindDomain: a Domain that is set answers EALREADY ...
BindBegin(s) ==
    /\ apc = "idle" /\ s \in opened
    /\ domain[s] = "null"
    /\ apc' = "attach" /\ asub' = s
    /\ UNCHANGED <<object, kernel, loop, jobs, worker>>

\* ... attachFD, which fails for a closed or a registered descriptor ...
BindAttach ==
    /\ apc = "attach"
    /\ IF fd[asub] = None \/ reg[fd[asub]] # None
       THEN apc' = "idle" /\ asub' = None /\ UNCHANGED reg
       ELSE /\ reg' = [reg EXCEPT ![fd[asub]] = asub]
            /\ apc' = "set" /\ UNCHANGED asub
    /\ UNCHANGED <<object, edge, waiting, loop, jobs, worker>>

\* ... and Domain = &D, though events may have been handled since
BindSet ==
    /\ apc = "set"
    /\ domain' = [domain EXCEPT ![asub] = "bound"]
    /\ early' = [early EXCEPT ![asub] = @ \/ ~Registered(asub)]
    /\ apc' = "idle" /\ asub' = None
    /\ UNCHANGED <<opened, fd, armed, bypassed, kernel, loop, jobs, worker>>

-------------------------------------------------------------------------------
(* epoll and the loop. *)

Arrive(f) ==
    /\ reg[f] # None
    /\ edge' = edge \cup {f}
    /\ waiting' = waiting \cup {f}
    /\ UNCHANGED <<object, reg, loop, jobs, worker, app>>

\* A listening socket is reported as long as a peer waits, a connection, which
\* is attached with EPOLLET, once per event; a bug: EPOLLET for both
EdgeTriggered(s) == FALSE
LevelTriggered(s) == s \in Listeners

Poll ==
    /\ lpc = "out"
    /\ batch' = {reg[f] : f \in edge \cup {w \in waiting : reg[w] # None /\ LevelTriggered(reg[w])}}
    /\ edge' = {}
    /\ lpc' = "dispatch"
    /\ UNCHANGED <<object, reg, waiting, jobs, worker, app>>

\* postEvent: the event is lost when the thread has no memory for a job
PostEvent(s) == jobs' = IF Len(jobs) < MaxJobs THEN Append(jobs, s) ELSE jobs

\* The domain's lock is not held, and the object may be gone from epoll
Dispatch(s) ==
    /\ lpc = "dispatch" /\ s \in batch
    /\ PostEvent(s)
    /\ batch' = batch \ {s}
    /\ UNCHANGED <<object, kernel, lpc, worker, app>>

EmitBegin ==
    /\ lpc = "dispatch" /\ batch = {}
    /\ lpc' = "emit"
    /\ UNCHANGED <<object, kernel, batch, jobs, worker, app>>

\* emitExpiredTimer, with the domain's lock: any armed timer may have expired,
\* and one with an interval is armed again
EmitTimer(s) ==
    /\ lpc = "emit" /\ armed[s]
    /\ \E isInterval \in BOOLEAN : armed' = [armed EXCEPT ![s] = isInterval]
    /\ PostEvent(s)
    /\ UNCHANGED <<opened, fd, domain, bypassed, early, kernel, loop, worker, app>>

EmitEnd ==
    /\ lpc = "emit"
    /\ lpc' = "out"
    /\ UNCHANGED <<object, kernel, batch, jobs, worker, app>>

-------------------------------------------------------------------------------
(* The worker, in the handler of cur. *)

Handle ==
    /\ wpc = "idle" /\ jobs # <<>>
    /\ wpc' = "run" /\ cur' = Head(jobs) /\ jobs' = Tail(jobs)
    /\ UNCHANGED <<object, kernel, loop, closing, seen, app>>

Accept ==
    /\ wpc = "run" /\ Registered(cur)
    /\ waiting' = waiting \ {fd[cur]}
    /\ UNCHANGED <<object, reg, edge, loop, jobs, worker, app>>

\* A timer is set through Domain, which must be there; its operations take the
\* lock the loop holds while it expires timers
ArmTimer ==
    /\ wpc = "run" /\ domain[cur] = "bound" /\ lpc # "emit"
    /\ armed' = [armed EXCEPT ![cur] = TRUE]
    /\ UNCHANGED <<opened, fd, domain, bypassed, early, kernel, loop, jobs, worker, app>>

\* What epoll forgets with a registration or a descriptor
Forget(f) ==
    /\ reg' = [reg EXCEPT ![f] = None]
    /\ edge' = edge \ {f} /\ waiting' = waiting \ {f}

\* unbindDomain, by itself or for HTTPConnection::close, which goes on whatever
\* it answers: nothing to do without a Domain, an error when detachFD fails.
\* A bug: close does not unbind
CloseOnly(close) ==
    /\ wpc = "run" /\ close
    /\ wpc' = "close" /\ closing' = close /\ seen' = domain[cur]
    /\ UNCHANGED <<object, kernel, loop, jobs, cur, app>>

Unbind(close) ==
    /\ wpc = "run"
    /\ close => cur \in Conns
    /\ closing' = close /\ seen' = domain[cur]
    /\ IF domain[cur] = "bound" /\ Registered(cur)
       THEN Forget(fd[cur]) /\ wpc' = "stop"
       ELSE wpc' = (IF close THEN "close" ELSE "run") /\ UNCHANGED kernel
    /\ UNCHANGED <<object, loop, jobs, cur, app>>

\* stopTimer; a bug: it is left out
StopNothing ==
    /\ wpc = "stop" /\ lpc # "emit"
    /\ wpc' = "clear"
    /\ UNCHANGED <<object, kernel, loop, jobs, cur, closing, seen, app>>

StopTimer ==
    /\ wpc = "stop" /\ lpc # "emit"
    /\ armed' = [armed EXCEPT ![cur] = FALSE]
    /\ wpc' = "clear"
    /\ UNCHANGED <<opened, fd, domain, bypassed, early, kernel, loop, jobs, cur, closing, seen, app>>

ClearDomain ==
    /\ wpc = "clear"
    /\ domain' = [domain EXCEPT ![cur] = "null"] /\ seen' = "null"
    /\ wpc' = IF closing THEN "close" ELSE "run"
    /\ UNCHANGED <<opened, fd, armed, bypassed, early, kernel, loop, jobs, cur, closing, app>>

\* Connection::close: the kernel drops the registration with the descriptor
CloseFD ==
    /\ IF fd[cur] = None THEN UNCHANGED kernel ELSE Forget(fd[cur])
    /\ fd' = [fd EXCEPT ![cur] = None]
    /\ wpc' = "run"

Close ==
    /\ wpc = "close"
    /\ CloseFD
    /\ early' = [early EXCEPT ![cur] = @ \/ (domain[cur] = "bound" /\ seen # "bound")]
    /\ UNCHANGED <<opened, domain, armed, bypassed, loop, jobs, cur, closing, seen, app>>

\* Listen::close, which HTTPListen inherits, and Connection::close, which is not
\* virtual, through a reference to the base class
CloseBase ==
    /\ wpc = "run"
    /\ CloseFD
    /\ bypassed' = [bypassed EXCEPT ![cur] = @ \/ domain[cur] = "bound"]
    /\ UNCHANGED <<opened, domain, armed, early, loop, jobs, cur, closing, seen, app>>

HandlerEnds ==
    /\ wpc = "run"
    /\ wpc' = "idle" /\ cur' = None /\ closing' = FALSE /\ seen' = "null"
    /\ UNCHANGED <<object, kernel, loop, jobs, app>>

-------------------------------------------------------------------------------
AppStep == BindAttach \/ BindSet
LoopStep == Poll \/ (\E s \in Subs : Dispatch(s)) \/ EmitBegin \/ EmitEnd
WorkerStep == Handle \/ StopTimer \/ ClearDomain \/ Close \/ HandlerEnds

Next ==
    \/ \E s \in Subs : Open(s) \/ BindBegin(s) \/ EmitTimer(s)
    \/ AppStep
    \/ \E f \in FDs : Arrive(f)
    \/ LoopStep
    \/ WorkerStep \/ Accept \/ ArmTimer \/ CloseBase \/ \E close \in BOOLEAN : Unbind(close)

\* The application keeps calling eventLoop and every thread keeps being
\* scheduled; stopTimer gets the lock, which the loop releases every round
Fairness ==
    /\ WF_vars(AppStep) /\ WF_vars(LoopStep) /\ WF_vars(WorkerStep) /\ SF_vars(StopTimer)
    /\ SF_vars(HandlerEnds)

Spec == Init /\ [][Next]_vars /\ Fairness

-------------------------------------------------------------------------------
\* Every variable has the values its declaration in the code allows
TypeOK ==
    /\ opened \subseteq Subs
    /\ fd \in [Subs -> FDs \cup {None}]
    /\ domain \in [Subs -> {"null", "bound", "junk"}]
    /\ armed \in [Subs -> BOOLEAN] /\ bypassed \in [Subs -> BOOLEAN] /\ early \in [Subs -> BOOLEAN]
    /\ reg \in [FDs -> Subs \cup {None}]
    /\ edge \subseteq FDs /\ waiting \subseteq FDs
    /\ lpc \in {"out", "dispatch", "emit"} /\ batch \subseteq Subs
    /\ jobs \in Seq(Subs)
    /\ wpc \in {"idle", "run", "stop", "clear", "close"} /\ cur \in Subs \cup {None} /\ closing \in BOOLEAN
    /\ seen \in {"null", "bound", "junk"}
    /\ apc \in {"idle", "attach", "set"} /\ asub \in Subs \cup {None}

\* No two objects hold a descriptor, though the kernel gives its number again,
\* and epoll names for each descriptor the object that holds it
DescriptorsOwned ==
    /\ \A r, s \in Subs : fd[r] # None /\ fd[r] = fd[s] => r = s
    /\ \A f \in FDs : reg[f] # None => fd[reg[f]] = f

\* Domain tells whether epoll knows the object, but between the two steps of
\* bindDomain and of unbindDomain, or when the base class closed the object
\* (HTTPConnection.cpp:9-11, Listen.cpp:27) or a handler did before bindDomain
\* had set Domain (HTTPConnection.cpp:23-29): then Domain stays set, and the
\* object can be neither bound nor unbound again.  A timer is armed for objects
\* with a Domain only, whichever way they were closed
BoundMeansRegistered ==
    /\ DescriptorsOwned
    /\ \A s \in Subs :
         /\ Registered(s) => domain[s] = "bound" \/ (apc = "set" /\ asub = s)
         /\ domain[s] = "bound" =>
              Registered(s) \/ early[s] \/ bypassed[s] \/ (cur = s /\ wpc \in {"stop", "clear"})
         /\ armed[s] => domain[s] = "bound"

\* An operation on s is under way
Busy(s) == (apc # "idle" /\ asub = s) \/ (cur = s /\ wpc \in {"stop", "clear", "close"})

\* An object that is closed and unbound and of which no event is under way gets
\* no further event, neither from its descriptor, whose number another object
\* may have by now, nor from its timer: it may be deleted.  Events are dispatched
\* without the lock under which they were collected (EPollEventDomain.cpp:91-113)
Gone(s) ==
    /\ s \in opened /\ fd[s] = None /\ domain[s] = "null" /\ ~Busy(s)
    /\ cur # s /\ s \notin batch
    /\ \A k \in 1..Len(jobs) : jobs[k] # s

Deletable == [][\A s \in Subs : Gone(s) /\ apc' = "idle" => Gone(s)']_vars

\* A peer that waits at a bound listening socket is noticed although its event
\* may be lost with a job there was no memory for (EventDomain.h:42-51), unless
\* that happens again and again: epoll reports the socket anew in every round.
\* The events of a connection are reported once (EPollEventDomain.cpp:63-75)
Lost(s) == Dispatch(s) /\ jobs' = jobs
Peer(s) == Registered(s) /\ fd[s] \in waiting
ListenerServed ==
    \A s \in Listeners :
        (Peer(s) ~> (~Peer(s) \/ (cur = s /\ wpc = "run"))) \/ []<><<Lost(s)>>_vars
===============================================================================

--------------------------- MODULE ConnectionsProofs ---------------------------
(* Proofs about Connections, for any number of connections, listening sockets *)
(* and descriptors.                                                           *)
EXTENDS Connections, TLAPS

USE DEF Subs

\* Whatever is handled, posted, collected or bound was constructed; an object
\* that was not has no descriptor and no timer.
Constructed ==
    /\ batch \subseteq opened
    /\ \A k \in 1..Len(jobs) : jobs[k] \in opened
    /\ wpc # "idle" => cur \in opened
    /\ apc # "idle" => asub \in opened
    /\ \A s \in Subs \ opened : fd[s] = None /\ ~armed[s]

\* epoll has events of registered descriptors only.
EventsOfRegistered == \A f \in edge : reg[f] # None

\* bindDomain runs on an object without a Domain.
BindShape == apc # "idle" => domain[asub] = "null"

\* How far unbindDomain and close have come.
UnbindShape ==
    /\ wpc \in {"stop", "clear"} => domain[cur] = "bound" /\ ~Registered(cur)
    /\ wpc = "clear" => ~armed[cur]
    /\ wpc = "close" => seen # "bound" \/ early[cur] \/ bypassed[cur]

ConnInv ==
    /\ TypeOK /\ BoundMeansRegistered
    /\ Constructed /\ EventsOfRegistered /\ BindShape /\ UnbindShape

LEMMA InitConn == Init => ConnInv
<1> SUFFICES ASSUME Init PROVE ConnInv
  OBVIOUS
<1>1. TypeOK
  <2>1. jobs \in Seq(Subs) /\ batch \subseteq Subs /\ opened \subseteq Subs
    BY DEF Init
  <2>2. /\ fd \in [Subs -> FDs \cup {None}] /\ reg \in [FDs -> Subs \cup {None}]
        /\ domain \in [Subs -> {"null", "bound", "junk"}] /\ armed \in [Subs -> BOOLEAN]
        /\ bypassed \in [Subs -> BOOLEAN] /\ early \in [Subs -> BOOLEAN]
    BY DEF Init
  <2> QED
    BY <2>1, <2>2 DEF Init, TypeOK
<1>2. BoundMeansRegistered
  BY DEF Init, BoundMeansRegistered, DescriptorsOwned, Registered
<1>3. Constructed /\ EventsOfRegistered /\ BindShape /\ UnbindShape
  BY DEF Init, Constructed, EventsOfRegistered, BindShape, UnbindShape
<1> QED
  BY <1>1, <1>2, <1>3 DEF ConnInv

-------------------------------------------------------------------------------
(* Type correctness. *)

LEMMA TypeStep == ASSUME ConnInv, [Next]_vars PROVE TypeOK'
<1> USE ConnectionsAssumption DEF TypeOK, vars, object, kernel, loop, worker, app
<1>0. TypeOK /\ Constructed /\ EventsOfRegistered
  BY DEF ConnInv
<1>1. ASSUME NEW s \in Subs, Open(s) PROVE TypeOK'
  BY <1>0, <1>1 DEF Open
<1>2. ASSUME NEW s \in Subs, BindBegin(s) PROVE TypeOK'
  BY <1>0, <1>2 DEF BindBegin
<1>3. ASSUME NEW s \in Subs, EmitTimer(s) PROVE TypeOK'
  BY <1>0, <1>3 DEF EmitTimer, PostEvent
<1>4. CASE BindAttach
  BY <1>0, <1>4 DEF BindAttach
<1>5. CASE BindSet
  BY <1>0, <1>5 DEF BindSet, Registered
<1>6. ASSUME NEW f \in FDs, Arrive(f) PROVE TypeOK'
  BY <1>0, <1>6 DEF Arrive
<1>7. CASE Poll
  <2>1. batch' \subseteq Subs
    BY <1>0, <1>7 DEF Poll, EventsOfRegistered
  <2> QED
    BY <1>0, <1>7, <2>1 DEF Poll
<1>8. ASSUME NEW s \in Subs, Dispatch(s) PROVE TypeOK'
  BY <1>0, <1>8 DEF Dispatch, PostEvent
<1>9. CASE EmitBegin \/ EmitEnd
  BY <1>0, <1>9 DEF EmitBegin, EmitEnd
<1>10. CASE Handle
  BY <1>0, <1>10 DEF Handle
<1>11. CASE StopTimer \/ ClearDomain
  <2>1. CASE StopTimer
    BY <1>0, <2>1 DEF StopTimer
  <2>2. CASE ClearDomain
    BY <1>0, <2>2 DEF ClearDomain
  <2> QED
    BY <1>11, <2>1, <2>2
<1>12. CASE Close \/ CloseBase
  <2>1. /\ reg' \in [FDs -> Subs \cup {None}] /\ edge' \subseteq FDs /\ waiting' \subseteq FDs
        /\ fd' \in [Subs -> FDs \cup {None}] /\ wpc' = "run"
    BY <1>0, <1>12 DEF Close, CloseBase, CloseFD, Forget
  <2>2. early' \in [Subs -> BOOLEAN] /\ bypassed' \in [Subs -> BOOLEAN]
    <3>1. CASE Close
      BY <1>0, <3>1 DEF Close, Constructed
    <3>2. CASE CloseBase
      BY <1>0, <3>2 DEF CloseBase, Constructed
    <3> QED
      BY <1>12, <3>1, <3>2
  <2> QED
    BY <1>0, <1>12, <2>1, <2>2 DEF Close, CloseBase
<1>13. CASE HandlerEnds \/ Accept \/ ArmTimer
  BY <1>0, <1>13 DEF HandlerEnds, Accept, ArmTimer
<1>14. ASSUME NEW close \in BOOLEAN, Unbind(close) PROVE TypeOK'
  <2>1. reg' \in [FDs -> Subs \cup {None}] /\ edge' \subseteq FDs /\ waiting' \subseteq FDs
    BY <1>0, <1>14 DEF Unbind, Forget
  <2>2. closing' \in BOOLEAN /\ seen' \in {"null", "bound", "junk"}
        /\ wpc' \in {"stop", "close", "run"}
    BY <1>0, <1>14 DEF Unbind, Constructed
  <2> QED
    BY <1>0, <1>14, <2>1, <2>2 DEF Unbind
<1>15. CASE UNCHANGED vars
  BY <1>0, <1>15
<1> QED
  BY <1>1, <1>2, <1>3, <1>4, <1>5, <1>6, <1>7, <1>8, <1>9, <1>10, <1>11, <1>12, <1>13, <1>14,
     <1>15 DEF Next, AppStep, LoopStep, WorkerStep

-------------------------------------------------------------------------------
(* Descriptors and registrations. *)

\* The steps that change them.
LEMMA KernelSteps ==
  ASSUME [Next]_vars
  PROVE  \/ \E s \in Subs : Open(s)
         \/ BindAttach \/ Close \/ CloseBase
         \/ \E close \in BOOLEAN : Unbind(close)
         \/ UNCHANGED <<fd, reg>>
BY DEF Next, AppStep, LoopStep, WorkerStep, BindBegin, EmitTimer, BindSet, Arrive, Poll,
   Dispatch, EmitBegin, EmitEnd, Handle, StopTimer, ClearDomain, HandlerEnds, Accept, ArmTimer,
   vars, object, kernel, loop, worker, app

\* A registration that is forgotten is the one of the object alone.
LEMMA ForgetOwn ==
  ASSUME TypeOK, DescriptorsOwned, NEW r \in Subs,
         reg' = IF fd[r] = None THEN reg ELSE [reg EXCEPT ![fd[r]] = None],
         fd' = fd \/ fd' = [fd EXCEPT ![r] = None]
  PROVE  /\ DescriptorsOwned' /\ ~Registered(r)'
         /\ \A s \in Subs : s # r => (Registered(s)' <=> Registered(s))
BY ConnectionsAssumption DEF TypeOK, DescriptorsOwned, Registered

LEMMA ClosedNotRegistered ==
  ASSUME ConnInv, Close \/ CloseBase
  PROVE  cur \in Subs /\ ~Registered(cur)'
<1>1. TypeOK /\ cur \in Subs
  BY DEF ConnInv, Constructed, Close, CloseBase, TypeOK
<1> QED
  BY <1>1 DEF Close, CloseBase, CloseFD, TypeOK, Registered

LEMMA OwnedStep ==
  ASSUME ConnInv, [Next]_vars
  PROVE  /\ DescriptorsOwned'
         /\ \A s \in Subs :
              /\ Registered(s)' => Registered(s) \/ (BindAttach /\ asub = s)
              /\ Registered(s) =>
                   \/ Registered(s)'
                   \/ cur = s /\ (Close \/ CloseBase \/ \E close \in BOOLEAN : Unbind(close))
<1> USE ConnectionsAssumption
<1>0. TypeOK /\ DescriptorsOwned /\ Constructed
  BY DEF ConnInv, BoundMeansRegistered
<1>1. ASSUME NEW s \in Subs, Open(s)
      PROVE  DescriptorsOwned' /\ \A r \in Subs : Registered(r)' <=> Registered(r)
  <2>1. PICK f \in FDs : (\A r \in Subs : fd[r] # f) /\ fd' = [fd EXCEPT ![s] = f]
    BY <1>1 DEF Open
  <2>2. fd[s] = None /\ reg' = reg
    BY <1>0, <1>1 DEF Open, Constructed, kernel
  <2>3. reg[f] = None /\ \A g \in FDs : reg[g] # s
    BY <1>0, <2>1, <2>2 DEF DescriptorsOwned, TypeOK
  <2> QED
    BY <1>0, <2>1, <2>2, <2>3 DEF TypeOK, DescriptorsOwned, Registered
<1>2. CASE BindAttach
  <2>1. asub \in Subs /\ fd' = fd
    BY <1>0, <1>2 DEF BindAttach, Constructed, TypeOK, object
  <2>2. CASE reg' = reg
    BY <1>0, <2>1, <2>2 DEF DescriptorsOwned, Registered
  <2>3. CASE reg' # reg
    <3>1. fd[asub] # None /\ reg[fd[asub]] = None /\ reg' = [reg EXCEPT ![fd[asub]] = asub]
      BY <1>2, <2>3 DEF BindAttach
    <3> QED
      BY <1>0, <1>2, <2>1, <3>1 DEF TypeOK, DescriptorsOwned, Registered
  <2> QED
    BY <2>2, <2>3
<1>3. CASE Close \/ CloseBase
  <2>1. cur \in Subs
    BY <1>0, <1>3 DEF Close, CloseBase, Constructed, TypeOK
  <2>2. reg' = (IF fd[cur] = None THEN reg ELSE [reg EXCEPT ![fd[cur]] = None])
        /\ fd' = [fd EXCEPT ![cur] = None]
    BY <1>3 DEF Close, CloseBase, CloseFD, Forget, kernel
  <2> QED
    BY <1>0, <1>3, <2>1, <2>2, ForgetOwn
<1>4. ASSUME NEW close \in BOOLEAN, Unbind(close)
      PROVE  /\ DescriptorsOwned'
             /\ \A s \in Subs : /\ Registered(s)' => Registered(s)
                                /\ Registered(s) => Registered(s)' \/ cur = s
  <2>1. cur \in Subs /\ fd' = fd
    BY <1>0, <1>4 DEF Unbind, Constructed, TypeOK, object
  <2>2. CASE reg' = reg
    BY <1>0, <2>1, <2>2 DEF DescriptorsOwned, Registered
  <2>3. CASE reg' # reg
    <3>1. reg' = (IF fd[cur] = None THEN reg ELSE [reg EXCEPT ![fd[cur]] = None])
      BY <1>4, <2>3 DEF Unbind, Forget, Registered, kernel
    <3> QED
      BY <1>0, <2>1, <3>1, ForgetOwn
  <2> QED
    BY <2>2, <2>3
<1>5. CASE UNCHANGED <<fd, reg>>
  BY <1>0, <1>5 DEF DescriptorsOwned, Registered
<1> QED
  BY <1>1, <1>2, <1>3, <1>4, <1>5, KernelSteps

-------------------------------------------------------------------------------
(* Objects under way, and events. *)

LEMMA ConstructedStep == ASSUME ConnInv, [Next]_vars PROVE Constructed'
<1> USE ConnectionsAssumption DEF Constructed, vars, object, kernel, loop, worker, app
<1>0. TypeOK /\ DescriptorsOwned /\ Constructed /\ EventsOfRegistered
  BY DEF ConnInv, BoundMeansRegistered
<1>1. ASSUME NEW s \in Subs, Open(s) PROVE Constructed'
  BY <1>0, <1>1 DEF Open, TypeOK
<1>2. ASSUME NEW s \in Subs, BindBegin(s) PROVE Constructed'
  BY <1>0, <1>2 DEF BindBegin
<1>3. ASSUME NEW s \in Subs, EmitTimer(s) PROVE Constructed'
  <2>1. s \in opened /\ opened' = opened /\ UNCHANGED <<batch, wpc, cur, apc, asub, fd>>
    BY <1>0, <1>3 DEF EmitTimer
  <2>2. \A k \in 1..Len(jobs') : jobs'[k] \in opened
    BY <1>0, <1>3, <2>1 DEF EmitTimer, PostEvent, TypeOK
  <2>3. \A r \in Subs : armed'[r] => armed[r]
    BY <1>0, <1>3 DEF EmitTimer, TypeOK
  <2> QED
    BY <1>0, <2>1, <2>2, <2>3
<1>4. CASE BindAttach \/ BindSet
  BY <1>0, <1>4 DEF BindAttach, BindSet
<1>5. ASSUME NEW f \in FDs, Arrive(f) PROVE Constructed'
  BY <1>0, <1>5 DEF Arrive
<1>6. CASE Poll
  <2>1. \A f \in FDs : reg[f] # None => reg[f] \in opened
    BY <1>0 DEF DescriptorsOwned, TypeOK
  <2>2. batch' \subseteq opened
    BY <1>0, <1>6, <2>1 DEF Poll, EventsOfRegistered, TypeOK
  <2> QED
    BY <1>0, <1>6, <2>2 DEF Poll
<1>7. ASSUME NEW s \in Subs, Dispatch(s) PROVE Constructed'
  <2>1. s \in opened /\ opened' = opened /\ UNCHANGED <<armed, wpc, cur, apc, asub, fd>>
        /\ batch' \subseteq batch
    BY <1>0, <1>7 DEF Dispatch
  <2>2. \A k \in 1..Len(jobs') : jobs'[k] \in opened
    BY <1>0, <1>7, <2>1 DEF Dispatch, PostEvent, TypeOK
  <2> QED
    BY <1>0, <2>1, <2>2
<1>8. CASE EmitBegin \/ EmitEnd \/ HandlerEnds \/ Accept
  BY <1>0, <1>8 DEF EmitBegin, EmitEnd, HandlerEnds, Accept
<1>9. CASE Handle
  <2>1. cur' \in opened /\ \A k \in 1..Len(jobs') : jobs'[k] \in opened
    BY <1>0, <1>9 DEF Handle, TypeOK
  <2> QED
    BY <1>0, <1>9, <2>1 DEF Handle
<1>10. CASE StopTimer \/ ClearDomain \/ ArmTimer
  <2>1. cur \in opened /\ UNCHANGED <<opened, batch, jobs, cur, apc, asub, fd>>
        /\ wpc # "idle"
    BY <1>0, <1>10 DEF StopTimer, ClearDomain, ArmTimer
  <2>2. \A r \in Subs \ {cur} : armed'[r] = armed[r]
    BY <1>0, <1>10 DEF StopTimer, ClearDomain, ArmTimer, TypeOK
  <2> QED
    BY <1>0, <2>1, <2>2
<1>11. CASE Close \/ CloseBase
  <2>1. cur \in opened /\ UNCHANGED <<opened, batch, jobs, cur, apc, asub, armed>>
        /\ fd' = [fd EXCEPT ![cur] = None]
    BY <1>0, <1>11 DEF Close, CloseBase, CloseFD
  <2> QED
    BY <1>0, <2>1 DEF TypeOK
<1>12. ASSUME NEW close \in BOOLEAN, Unbind(close) PROVE Constructed'
  BY <1>0, <1>12 DEF Unbind
<1>13. CASE UNCHANGED vars
  BY <1>0, <1>13
<1> QED
  BY <1>1, <1>2, <1>3, <1>4, <1>5, <1>6, <1>7, <1>8, <1>9, <1>10, <1>11, <1>12, <1>13
  DEF Next, AppStep, LoopStep, WorkerStep

LEMMA EventsStep == ASSUME ConnInv, [Next]_vars PROVE EventsOfRegistered'
<1> USE ConnectionsAssumption DEF EventsOfRegistered, vars, object, kernel, loop, worker, app
<1>0. TypeOK /\ EventsOfRegistered /\ Constructed
  BY DEF ConnInv
<1>1. ASSUME NEW f \in FDs, Arrive(f) PROVE EventsOfRegistered'
  BY <1>1, <1>0 DEF Arrive
<1>2. CASE BindAttach
  BY <1>0, <1>2 DEF BindAttach, TypeOK, Constructed
<1>3. CASE Poll
  BY <1>3 DEF Poll
<1>4. CASE Close \/ CloseBase
  BY <1>0, <1>4 DEF Close, CloseBase, CloseFD, Forget, TypeOK
<1>5. ASSUME NEW close \in BOOLEAN, Unbind(close) PROVE EventsOfRegistered'
  BY <1>0, <1>5 DEF Unbind, Forget, TypeOK
<1>6. CASE UNCHANGED <<edge, reg>>
  BY <1>0, <1>6
<1> QED
  BY <1>1, <1>2, <1>3, <1>4, <1>5, <1>6 DEF Next, AppStep, LoopStep, WorkerStep, Open,
     BindBegin, EmitTimer, BindSet, Dispatch, EmitBegin, EmitEnd, Handle, StopTimer,
     ClearDomain, HandlerEnds, Accept, ArmTimer

-------------------------------------------------------------------------------
(* Domain, registration and timer. *)

\* What BoundMeansRegistered says of one object.
DomainTells(s) ==
    /\ Registered(s) => domain[s] = "bound" \/ (apc = "set" /\ asub = s)
    /\ domain[s] = "bound" =>
         Registered(s) \/ early[s] \/ bypassed[s] \/ (cur = s /\ wpc \in {"stop", "clear"})
    /\ armed[s] => domain[s] = "bound"

BindFacts == (\A s \in Subs : DomainTells(s)) /\ BindShape /\ UnbindShape

LEMMA BindStep == ASSUME ConnInv, [Next]_vars PROVE BindFacts'
<1> USE ConnectionsAssumption DEF BindFacts, DomainTells, BindShape, UnbindShape,
        vars, object, kernel, loop, worker, app
<1>0. TypeOK /\ Constructed /\ BindFacts
  BY DEF ConnInv, BoundMeansRegistered
<1>1. /\ apc # "idle" => asub \in Subs /\ asub \in opened
      /\ wpc # "idle" => cur \in Subs /\ cur \in opened
  BY <1>0 DEF TypeOK, Constructed
<1>2. UNCHANGED <<fd, reg>> => \A s \in Subs : Registered(s)' <=> Registered(s)
  BY DEF Registered
<1>3. ASSUME NEW s \in Subs, Open(s) PROVE BindFacts'
  <2>1. PICK d \in {"null", "junk"} : domain' = [domain EXCEPT ![s] = d]
    BY <1>3 DEF Open
  <2>2. s \notin opened /\ ~armed[s] /\ ~Registered(s)
    BY <1>0, <1>3 DEF Open, Constructed, Registered
  <2>3. \A r \in Subs : Registered(r)' => Registered(r)
    BY <1>3, OwnedStep DEF Open, BindAttach
  <2>4. \A r \in Subs : Registered(r) => Registered(r)' \/ r = s
    BY <1>3, OwnedStep DEF Open, Registered, TypeOK
  <2>5. UNCHANGED <<armed, bypassed, early, wpc, cur, seen, apc, asub>> /\ apc = "idle"
    BY <1>3 DEF Open
  <2> QED
    BY <1>0, <1>1, <2>1, <2>2, <2>3, <2>4, <2>5 DEF TypeOK
<1>4. ASSUME NEW s \in Subs, BindBegin(s) PROVE BindFacts'
  BY <1>0, <1>1, <1>2, <1>4 DEF BindBegin
<1>5. ASSUME NEW s \in Subs, EmitTimer(s) PROVE BindFacts'
  BY <1>0, <1>1, <1>2, <1>5 DEF EmitTimer, TypeOK
<1>6. CASE BindAttach
  <2>1. \A s \in Subs : /\ Registered(s)' => Registered(s) \/ asub = s
                        /\ Registered(s) => Registered(s)'
    BY <1>6, OwnedStep DEF BindAttach, Close, CloseBase, Unbind, TypeOK
  <2>2. UNCHANGED <<domain, armed, bypassed, early, wpc, cur, seen, fd>> /\ apc = "attach"
    BY <1>6 DEF BindAttach
  <2>3. \/ apc' = "set" /\ asub' = asub
        \/ apc' = "idle" /\ reg' = reg
    BY <1>6 DEF BindAttach
  <2>4. wpc \in {"stop", "clear"} => cur # asub
    BY <1>0, <2>2
  <2>5. wpc \in {"stop", "clear"} => ~Registered(cur)'
    BY <1>0, <1>1, <2>1, <2>2, <2>4
  <2>6. \A s \in Subs : DomainTells(s)'
    BY <1>0, <1>1, <1>2, <2>1, <2>2, <2>3
  <2> QED
    BY <1>0, <2>2, <2>3, <2>5, <2>6
<1>7. CASE BindSet
  <2>1. /\ domain' = [domain EXCEPT ![asub] = "bound"] /\ apc = "set" /\ apc' = "idle"
        /\ early' = [early EXCEPT ![asub] = @ \/ ~Registered(asub)]
        /\ UNCHANGED <<fd, reg, armed, bypassed, wpc, cur, seen>>
    BY <1>7 DEF BindSet
  <2>2. /\ domain'[asub] = "bound" /\ early'[asub] = (early[asub] \/ ~Registered(asub))
        /\ \A s \in Subs \ {asub} : domain'[s] = domain[s] /\ early'[s] = early[s]
    BY <1>0, <1>1, <2>1 DEF TypeOK
  <2>3. wpc # "idle" => cur \in Subs /\ (early[cur] => early'[cur])
    BY <1>1, <2>2
  <2>4. \A s \in Subs : DomainTells(s)'
    BY <1>0, <1>1, <1>2, <2>1, <2>2
  <2>5. wpc \in {"stop", "clear"} => domain'[cur] = "bound" /\ ~Registered(cur)'
    BY <1>0, <1>1, <1>2, <2>1, <2>2
  <2> QED
    BY <1>0, <2>1, <2>3, <2>4, <2>5
<1>8. CASE Handle
  BY <1>0, <1>1, <1>2, <1>8 DEF Handle
<1>9. CASE ArmTimer
  BY <1>0, <1>1, <1>2, <1>9 DEF ArmTimer, TypeOK
<1>10. CASE StopTimer
  BY <1>0, <1>1, <1>2, <1>10 DEF StopTimer, TypeOK
<1>11. CASE ClearDomain
  <2>1. /\ wpc = "clear" /\ seen' = "null" /\ wpc' \in {"close", "run"}
        /\ domain' = [domain EXCEPT ![cur] = "null"]
        /\ UNCHANGED <<fd, reg, armed, early, bypassed, cur, apc, asub>>
    BY <1>11 DEF ClearDomain
  <2>2. /\ domain[cur] = "bound" /\ ~Registered(cur) /\ ~armed[cur] /\ cur \in Subs
    BY <1>0, <1>1, <2>1
  <2>3. domain'[cur] = "null" /\ \A s \in Subs \ {cur} : domain'[s] = domain[s]
    BY <1>0, <2>1, <2>2 DEF TypeOK
  <2>4. \A s \in Subs : DomainTells(s)'
    BY <1>0, <1>2, <2>1, <2>2, <2>3
  <2> QED
    BY <1>0, <1>1, <2>1, <2>2, <2>3, <2>4
<1>12. CASE Close
  <2>1. /\ wpc = "close" /\ wpc' = "run"
        /\ early' = [early EXCEPT ![cur] = @ \/ (domain[cur] = "bound" /\ seen # "bound")]
        /\ UNCHANGED <<domain, armed, bypassed, cur, apc, asub>>
    BY <1>12 DEF Close, CloseFD
  <2>2. cur \in Subs /\ ~Registered(cur)' /\ (domain[cur] = "bound" => early'[cur] \/ bypassed'[cur])
    BY <1>0, <1>1, <1>12, <2>1, ClosedNotRegistered DEF TypeOK
  <2>3. ASSUME NEW s \in Subs, s # cur
        PROVE  /\ early[s] => early'[s]
               /\ bypassed[s] => bypassed'[s]
               /\ Registered(s)' => Registered(s)
               /\ Registered(s) => Registered(s)'
    <3>1. (early[s] => early'[s]) /\ (bypassed[s] => bypassed'[s])
      BY <1>0, <2>1, <2>3 DEF TypeOK
    <3>2. ~BindAttach
      BY <2>1 DEF BindAttach
    <3>3. (Registered(s)' => Registered(s)) /\ (Registered(s) => Registered(s)')
      BY <2>3, <3>2, OwnedStep
    <3> QED
      BY <3>1, <3>3
  <2>4. ASSUME NEW s \in Subs, s # cur PROVE DomainTells(s)'
    <3>1. /\ early[s] => early'[s]
          /\ bypassed[s] => bypassed'[s]
          /\ Registered(s)' => Registered(s)
          /\ Registered(s) => Registered(s)'
      BY <2>3, <2>4
    <3>2. UNCHANGED <<domain, armed, cur, apc, asub>>
      BY <2>1
    <3>3. DomainTells(s)
      BY <1>0
    <3> QED
      BY <2>4, <3>1, <3>2, <3>3
  <2>5. DomainTells(cur)'
    BY <1>0, <2>1, <2>2
  <2>6. \A s \in Subs : DomainTells(s)'
    <3> SUFFICES ASSUME NEW s \in Subs PROVE DomainTells(s)'
      OBVIOUS
    <3>1. CASE s = cur
      BY <2>1, <2>5, <3>1
    <3> QED
      BY <2>4, <3>1
  <2> QED
    BY <1>0, <2>1, <2>6
<1>13. CASE CloseBase
  <2>1. /\ wpc = "run" /\ wpc' = "run"
        /\ bypassed' = [bypassed EXCEPT ![cur] = @ \/ domain[cur] = "bound"]
        /\ UNCHANGED <<domain, armed, early, cur, apc, asub>>
    BY <1>13 DEF CloseBase, CloseFD
  <2>2. cur \in Subs /\ ~Registered(cur)' /\ (domain[cur] = "bound" => early'[cur] \/ bypassed'[cur])
    BY <1>0, <1>1, <1>13, <2>1, ClosedNotRegistered DEF TypeOK
  <2>3. ASSUME NEW s \in Subs, s # cur
        PROVE  /\ early[s] => early'[s]
               /\ bypassed[s] => bypassed'[s]
               /\ Registered(s)' => Registered(s)
               /\ Registered(s) => Registered(s)'
    <3>1. (early[s] => early'[s]) /\ (bypassed[s] => bypassed'[s])
      BY <1>0, <2>1, <2>3 DEF TypeOK
    <3>2. ~BindAttach
      BY <2>1 DEF BindAttach
    <3>3. (Registered(s)' => Registered(s)) /\ (Registered(s) => Registered(s)')
      BY <2>3, <3>2, OwnedStep
    <3> QED
      BY <3>1, <3>3
  <2>4. ASSUME NEW s \in Subs, s # cur PROVE DomainTells(s)'
    <3>1. /\ early[s] => early'[s]
          /\ bypassed[s] => bypassed'[s]
          /\ Registered(s)' => Registered(s)
          /\ Registered(s) => Registered(s)'
      BY <2>3, <2>4
    <3>2. UNCHANGED <<domain, armed, cur, apc, asub>>
      BY <2>1
    <3>3. DomainTells(s)
      BY <1>0
    <3> QED
      BY <2>4, <3>1, <3>2, <3>3
  <2>5. DomainTells(cur)'
    BY <1>0, <2>1, <2>2
  <2>6. \A s \in Subs : DomainTells(s)'
    <3> SUFFICES ASSUME NEW s \in Subs PROVE DomainTells(s)'
      OBVIOUS
    <3>1. CASE s = cur
      BY <2>1, <2>5, <3>1
    <3> QED
      BY <2>4, <3>1
  <2> QED
    BY <1>0, <2>1, <2>6
<1>14. ASSUME NEW close \in BOOLEAN, Unbind(close) PROVE BindFacts'
  <2>1. /\ wpc = "run" /\ seen' = domain[cur]
        /\ UNCHANGED <<fd, domain, armed, early, bypassed, cur, apc, asub>>
    BY <1>14 DEF Unbind
  <2>2. cur \in Subs
    BY <1>1, <2>1
  <2>3. CASE domain[cur] = "bound" /\ Registered(cur)
    <3>1. wpc' = "stop" /\ reg' = [reg EXCEPT ![fd[cur]] = None] /\ fd[cur] # None
      BY <1>14, <2>3 DEF Unbind, Forget, Registered
    <3>2. ~Registered(cur)'
      BY <1>0, <2>1, <2>2, <3>1 DEF Registered, TypeOK
    <3>3. \A s \in Subs \ {cur} : Registered(s)' <=> Registered(s)
      BY <1>14, <2>1, OwnedStep DEF BindAttach, Close, CloseBase, Unbind
    <3> QED
      BY <1>0, <2>1, <2>2, <2>3, <3>1, <3>2, <3>3
  <2>4. CASE ~(domain[cur] = "bound" /\ Registered(cur))
    <3>1. wpc' \in {"close", "run"} /\ reg' = reg
      BY <1>14, <2>4 DEF Unbind
    <3>2. domain[cur] = "bound" => early[cur] \/ bypassed[cur]
      BY <1>0, <2>1, <2>2, <2>4
    <3>3. \A s \in Subs : DomainTells(s)'
      BY <1>0, <1>2, <2>1, <3>1
    <3> QED
      BY <1>0, <2>1, <3>1, <3>2, <3>3
  <2> QED
    BY <2>3, <2>4
<1>15. CASE HandlerEnds
  BY <1>0, <1>1, <1>2, <1>15 DEF HandlerEnds
<1>16. CASE UNCHANGED <<domain, armed, early, bypassed, apc, asub, wpc, cur, seen, fd, reg>>
  BY <1>0, <1>1, <1>2, <1>16
<1> QED
  BY <1>3, <1>4, <1>5, <1>6, <1>7, <1>8, <1>9, <1>10, <1>11, <1>12, <1>13, <1>14, <1>15, <1>16
  DEF Next, AppStep, LoopStep, WorkerStep, Arrive, Poll, Dispatch, EmitBegin, EmitEnd, Accept

-------------------------------------------------------------------------------
(* The theorems. *)

\* ConnInv holds initially and is preserved by every step.
THEOREM ConnInvariance == Spec => []ConnInv
<1>1. ConnInv /\ [Next]_vars => ConnInv'
  BY TypeStep, OwnedStep, ConstructedStep, EventsStep, BindStep
  DEF ConnInv, BoundMeansRegistered, BindFacts, DomainTells
<1> QED
  BY InitConn, <1>1, PTL DEF Spec

\* Type correctness (the members of HTTPConnection, HTTPListen, EventSubscriber).
THEOREM ConnTypes == Spec => []TypeOK
<1>1. ConnInv => TypeOK
  BY DEF ConnInv
<1> QED
  BY <1>1, ConnInvariance, PTL

\* Domain and the registration in epoll agree, but for the steps and the ways of
\* closing the property names, and timers are armed for bound objects only.
THEOREM DomainIsTruth == Spec => []BoundMeansRegistered
<1>1. ConnInv => BoundMeansRegistered
  BY DEF ConnInv
<1> QED
  BY <1>1, ConnInvariance, PTL

\* An object that is gone gets no further event, neither through a descriptor
\* whose number was given again nor from its timer, until it is bound anew
\* (EPollEventDomain.cpp:91-113, HTTPConnection::close).
THEOREM GoneIsGone == Spec => Deletable
<1>1. ASSUME ConnInv, [Next]_vars, NEW s \in Subs, Gone(s), apc' = "idle" PROVE Gone(s)'
  <2> USE ConnectionsAssumption DEF vars, object, kernel, loop, worker, app
  <2>0. /\ TypeOK /\ DescriptorsOwned /\ Constructed
        /\ \A r \in Subs : armed[r] => domain[r] = "bound"
    BY <1>1 DEF ConnInv, BoundMeansRegistered
  <2>1. /\ s \in opened /\ fd[s] = None /\ domain[s] = "null" /\ cur # s /\ s \notin batch
        /\ apc # "idle" => asub # s
        /\ \A k \in 1..Len(jobs) : jobs[k] # s
    BY <1>1 DEF Gone, Busy
  <2>2. s \in opened' /\ fd'[s] = None
    <3>1. ASSUME NEW r \in Subs, Open(r) PROVE s \in opened' /\ fd'[s] = None
      BY <2>0, <2>1, <3>1 DEF Open, TypeOK
    <3>2. CASE Close \/ CloseBase
      BY <2>0, <2>1, <3>2 DEF Close, CloseBase, CloseFD, TypeOK
    <3>3. CASE UNCHANGED <<opened, fd>>
      BY <2>1, <3>3
    <3> QED
      BY <1>1, <3>1, <3>2, <3>3 DEF Next, AppStep, LoopStep, WorkerStep, BindBegin, EmitTimer,
         BindAttach, BindSet, Arrive, Poll, Dispatch, EmitBegin, EmitEnd, Handle, StopTimer,
         ClearDomain, HandlerEnds, Accept, ArmTimer, Unbind
  <2>3. domain'[s] = "null"
    <3>1. ASSUME NEW r \in Subs, Open(r) PROVE domain'[s] = "null"
      BY <2>0, <2>1, <3>1 DEF Open, TypeOK
    <3>2. CASE BindSet \/ ClearDomain
      BY <2>0, <2>1, <3>2 DEF BindSet, ClearDomain, TypeOK
    <3>3. CASE domain' = domain
      BY <2>1, <3>3
    <3> QED
      BY <1>1, <3>1, <3>2, <3>3 DEF Next, AppStep, LoopStep, WorkerStep, BindBegin, EmitTimer,
         BindAttach, Arrive, Poll, Dispatch, EmitBegin, EmitEnd, Handle, StopTimer, HandlerEnds,
         Close, CloseBase, Accept, ArmTimer, Unbind
  <2>4. cur' # s
    <3>1. CASE Handle
      BY <2>0, <2>1, <3>1 DEF Handle, TypeOK
    <3>2. CASE HandlerEnds
      BY <3>2 DEF HandlerEnds
    <3>3. CASE cur' = cur
      BY <2>1, <3>3
    <3> QED
      BY <1>1, <3>1, <3>2, <3>3 DEF Next, AppStep, LoopStep, WorkerStep, Open, BindBegin,
         EmitTimer, BindAttach, BindSet, Arrive, Poll, Dispatch, EmitBegin, EmitEnd, StopTimer,
         ClearDomain, Close, CloseBase, Accept, ArmTimer, Unbind
  <2>5. s \notin batch'
    <3>1. CASE Poll
      BY <2>0, <2>1, <3>1 DEF Poll, DescriptorsOwned, TypeOK, EventsOfRegistered
    <3>2. CASE batch' \subseteq batch
      BY <2>1, <3>2
    <3> QED
      BY <1>1, <3>1, <3>2 DEF Next, AppStep, LoopStep, WorkerStep, Open, BindBegin, EmitTimer,
         BindAttach, BindSet, Arrive, Dispatch, EmitBegin, EmitEnd, Handle, StopTimer,
         ClearDomain, Close, CloseBase, HandlerEnds, Accept, ArmTimer, Unbind
  <2>6. \A k \in 1..Len(jobs') : jobs'[k] # s
    <3>1. ASSUME NEW r \in Subs, r # s, PostEvent(r) PROVE \A k \in 1..Len(jobs') : jobs'[k] # s
      BY <2>0, <2>1, <3>1 DEF PostEvent, TypeOK
    <3>2. ASSUME NEW r \in Subs, Dispatch(r) PROVE r # s /\ PostEvent(r)
      BY <2>1, <3>2 DEF Dispatch
    <3>3. ASSUME NEW r \in Subs, EmitTimer(r) PROVE r # s /\ PostEvent(r)
      BY <2>0, <2>1, <3>3 DEF EmitTimer
    <3>4. CASE Handle
      BY <2>0, <2>1, <3>4 DEF Handle, TypeOK
    <3>5. CASE jobs' = jobs
      BY <2>1, <3>5
    <3> QED
      BY <1>1, <3>1, <3>2, <3>3, <3>4, <3>5 DEF Next, AppStep, LoopStep, WorkerStep, Open,
         BindBegin, BindAttach, BindSet, Arrive, Poll, EmitBegin, EmitEnd, StopTimer,
         ClearDomain, Close, CloseBase, HandlerEnds, Accept, ArmTimer, Unbind
  <2> QED
    BY <1>1, <2>2, <2>3, <2>4, <2>5, <2>6 DEF Gone, Busy
<1>2. ASSUME ConnInv, [Next]_vars
      PROVE  [\A s \in Subs : Gone(s) /\ apc' = "idle" => Gone(s)']_vars
  BY <1>1, <1>2
<1> QED
  BY <1>2, ConnInvariance, PTL DEF Spec, Deletable
===============================================================================

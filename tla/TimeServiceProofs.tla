--------------------------- MODULE TimeServiceProofs ---------------------------
(* What a thread is answered never goes back and is never in the future; the   *)
(* arithmetic of the texts is the Gregorian calendar; and a text is in one     *)
(* piece: for any number of threads and slots, and any resolution of the clock.*)
EXTENDS TimeService, TLAPS

USE DEF shared, Slots, Current

Fields == {"pc", "kind", "time", "seen", "told", "laps", "copy", "answer", "begun", "asked", "since", "rest"}
Inside == {"clock", "advance", "date", "time", "clear", "fetch"}

\* Only what the other parts need of the types: numbers are compared
Shapes ==
    /\ now \in Nat /\ HighResolutionTimestamp \in Nat
    /\ TimestampVersion \in Slots
    /\ DOMAIN TimeStringRingBuffer = Slots
    /\ \A k \in Slots : /\ DOMAIN TimeStringRingBuffer[k] = {"stamp", "date", "time"}
                        /\ TimeStringRingBuffer[k].stamp \in Int
    /\ DOMAIN thread = Threads
    /\ \A t \in Threads : /\ DOMAIN thread[t] = Fields
                          /\ thread[t].seen \in Slots /\ thread[t].answer \in Int

\* Who updates the ring, or looks up its version, holds the lock
InsideHolds == \A t \in Threads : thread[t].pc \in Inside => Lock = t

\* The clock read last is not ahead of the clock, the second of the current slot
\* is its second, unless a thread is about to write that down, and no slot is
\* ahead of the current one
ClockRead ==
    /\ HighResolutionTimestamp <= now
    /\ Current.stamp <= Second(HighResolutionTimestamp)
    /\ (\A t \in Threads : thread[t].pc # "advance") => Current.stamp = Second(HighResolutionTimestamp)
    /\ \A t \in Threads : thread[t].pc = "advance" => thread[t].time = Second(HighResolutionTimestamp)
    /\ \A k \in Slots : TimeStringRingBuffer[k].stamp <= Current.stamp

\* The last answer of a thread is not ahead of the ring, nor of the slot that the
\* thread was told to read
AnswersBehind ==
    \A t \in Threads :
        /\ thread[t].answer <= Current.stamp
        /\ thread[t].pc \in {"read", "rest"} => thread[t].answer <= TimeStringRingBuffer[thread[t].seen].stamp

TimeInv == Shapes /\ InsideHolds /\ ClockRead /\ AnswersBehind

\* Seconds of later moments are later
LEMMA SecondGrows ==
    ASSUME NEW a \in Nat, NEW b \in Nat, a <= b
    PROVE  Second(a) \in Nat /\ Second(b) \in Nat /\ Second(a) <= Second(b)
<1>1. PerSecond \in Nat \ {0}  BY TimeAssumption
<1>2. (a \div PerSecond) \in Nat /\ (b \div PerSecond) \in Nat  BY <1>1
<1>3. (a \div PerSecond) <= (b \div PerSecond)  BY <1>1
<1> QED  BY <1>2, <1>3 DEF Second

LEMMA FollowingInSlots == ASSUME NEW v \in Slots PROVE Following(v) \in Slots
BY TimeAssumption DEF Following

\* Nothing has been answered when the threads start
LEMMA InitTimeInv == ASSUME Init PROVE TimeInv
<1> USE TimeAssumption
<1>1. TimestampVersion \in Slots  BY DEF Init
<1>2. Second(0) = 0  BY DEF Second
<1>3. DOMAIN TimeStringRingBuffer = Slots  BY DEF Init
<1>4. \A k \in Slots : /\ DOMAIN TimeStringRingBuffer[k] = {"stamp", "date", "time"}
                       /\ TimeStringRingBuffer[k].stamp \in {0, -1}
  BY DEF Init, Blank
<1>5. Current.stamp = 0  BY <1>1 DEF Init
<1>6. \A t \in Threads : /\ DOMAIN thread[t] = Fields /\ thread[t].seen = 0 /\ thread[t].answer = 0
                         /\ thread[t].pc = "idle"
  BY DEF Init, Idle, Fields
<1>7. 0 \in Slots  OBVIOUS
<1>8. DOMAIN thread = Threads /\ now = 0 /\ HighResolutionTimestamp = 0  BY DEF Init
<1>9. Shapes  BY <1>1, <1>3, <1>4, <1>6, <1>7, <1>8 DEF Shapes
<1>10. InsideHolds  BY <1>6 DEF InsideHolds, Inside
<1>11. ClockRead  BY <1>2, <1>4, <1>5, <1>6, <1>8 DEF ClockRead
<1>12. AnswersBehind  BY <1>5, <1>6 DEF AnswersBehind
<1> QED  BY <1>9, <1>10, <1>11, <1>12 DEF TimeInv

\* A step of one thread that leaves the timestamps alone and is not the one that
\* writes a new one down
StampsStay ==
    /\ now' = now /\ HighResolutionTimestamp' = HighResolutionTimestamp
    /\ TimestampVersion' = TimestampVersion
    /\ DOMAIN TimeStringRingBuffer' = Slots
    /\ \A k \in Slots : /\ DOMAIN TimeStringRingBuffer'[k] = {"stamp", "date", "time"}
                        /\ TimeStringRingBuffer'[k].stamp = TimeStringRingBuffer[k].stamp

\* What a thread may become
Allowed(t, r) ==
    /\ DOMAIN r = Fields /\ r.seen \in Slots /\ r.answer \in Int
    /\ r.pc # "advance"
    /\ thread[t].answer <= r.answer /\ r.answer <= Current.stamp
    /\ r.pc \in {"read", "rest"} => r.answer <= TimeStringRingBuffer[r.seen].stamp

LEMMA SameStampsStay ==
    ASSUME TimeInv, now' = now, HighResolutionTimestamp' = HighResolutionTimestamp,
           TimestampVersion' = TimestampVersion, TimeStringRingBuffer' = TimeStringRingBuffer
    PROVE  StampsStay
BY DEF TimeInv, Shapes, StampsStay

\* No answer of any thread goes back in the step
AnswersGrow == \A t \in Threads : thread[t].answer <= thread'[t].answer

LEMMA ThreadMoves ==
    ASSUME TimeInv, StampsStay, InsideHolds', NEW t \in Threads, thread[t].pc # "advance",
           NEW r, Allowed(t, r), thread' = [thread EXCEPT ![t] = r]
    PROVE  TimeInv' /\ AnswersGrow
<1> USE DEF TimeInv
<1>1. DOMAIN thread' = Threads /\ thread'[t] = r /\ \A u \in Threads : u # t => thread'[u] = thread[u]
  BY DEF Shapes
<1>2. Current'.stamp = Current.stamp /\ Current.stamp \in Int  BY DEF StampsStay, Shapes
<1>3. Shapes'
  <2>1. \A u \in Threads : DOMAIN thread'[u] = Fields /\ thread'[u].seen \in Slots /\ thread'[u].answer \in Int
    BY <1>1 DEF Shapes, Allowed
  <2> QED  BY <1>1, <2>1 DEF Shapes, StampsStay
<1>4. ClockRead'
  <2>1. Second(HighResolutionTimestamp') = Second(HighResolutionTimestamp)  BY DEF StampsStay
  <2>2. \A u \in Threads : (thread'[u].pc = "advance") <=> (thread[u].pc = "advance")  BY <1>1 DEF Allowed
  <2>3. \A u \in Threads : thread'[u].pc = "advance" => thread'[u].time = thread[u].time  BY <1>1 DEF Allowed
  <2>4. \A k \in Slots : TimeStringRingBuffer'[k].stamp <= Current'.stamp
    BY <1>2 DEF StampsStay, ClockRead
  <2> QED  BY <1>2, <2>1, <2>2, <2>3, <2>4 DEF ClockRead, StampsStay, Second
<1>5. AnswersBehind'
  <2>1. \A u \in Threads : thread'[u].answer <= Current'.stamp  BY <1>1, <1>2 DEF AnswersBehind, Allowed
  <2>2. ASSUME NEW u \in Threads, thread'[u].pc \in {"read", "rest"}
        PROVE  thread'[u].answer <= TimeStringRingBuffer'[thread'[u].seen].stamp
    BY <1>1, <2>2 DEF AnswersBehind, Allowed, StampsStay, Shapes
  <2> QED  BY <2>1, <2>2 DEF AnswersBehind
<1>6. AnswersGrow
  <2>1. \A u \in Threads : thread[u].answer \in Int  BY DEF Shapes
  <2> QED  BY <1>1, <2>1 DEF AnswersGrow, Allowed
<1> QED  BY <1>3, <1>4, <1>5, <1>6

\* Unless a thread goes to a place where the lock is held, or the lock changes
\* hands, nobody has to look at it
LEMMA OutsideStays ==
    ASSUME TimeInv, Lock' = Lock, NEW t \in Threads, NEW r, thread' = [thread EXCEPT ![t] = r],
           r.pc \in Inside => thread[t].pc \in Inside
    PROVE  InsideHolds'
<1>1. thread'[t] = r /\ \A u \in Threads : u # t => thread'[u] = thread[u]  BY DEF TimeInv, Shapes
<1> QED  BY <1>1 DEF TimeInv, InsideHolds

\* What the record of a thread has at all times
LEMMA OneThread ==
    ASSUME TimeInv, NEW t \in Threads
    PROVE  /\ DOMAIN thread[t] = Fields /\ thread[t].seen \in Slots /\ thread[t].answer \in Int
           /\ thread[t].answer <= Current.stamp /\ thread[t].answer <= thread[t].answer
           /\ Current.stamp \in Int /\ 0 \in Slots /\ DOMAIN Idle = Fields
           /\ Idle.pc = "idle" /\ Idle.seen = 0
<1>1. 0 \in Slots  BY TimeAssumption
<1>2. DOMAIN Idle = Fields /\ Idle.pc = "idle" /\ Idle.seen = 0  BY DEF Idle, Fields
<1> QED  BY <1>1, <1>2 DEF TimeInv, Shapes, AnswersBehind

-------------------------------------------------------------------------------
(* The steps. *)

\* Steps that change what one thread does, and nothing that is shared
LEMMA PrivateSteps ==
    ASSUME TimeInv, NEW t \in Threads,
           \/ \E kind \in Kinds : Call(t, kind)
           \/ \E n \in 1..MaxSleep : Sleep(t, n)
           \/ CopyDate(t) \/ CopyTime(t)
    PROVE  TimeInv' /\ AnswersGrow
<1> USE DEF Allowed
<1>1. StampsStay  BY SameStampsStay DEF Call, Sleep, CopyDate, CopyTime
<1>2. Lock' = Lock  BY DEF Call, Sleep, CopyDate, CopyTime
<1>3. ASSUME NEW kind \in Kinds, Call(t, kind)  PROVE TimeInv' /\ AnswersGrow
  <2> DEFINE r == [thread[t] EXCEPT !.pc = "lock", !.kind = kind]
  <2>1. thread' = [thread EXCEPT ![t] = r] /\ thread[t].pc = "idle"  BY <1>3 DEF Call
  <2>2. Allowed(t, r) /\ r.pc = "lock"  BY OneThread DEF Fields
  <2> HIDE DEF r
  <2>3. InsideHolds'  BY <1>2, <2>1, <2>2, OutsideStays DEF Inside
  <2> QED  BY <1>1, <2>1, <2>2, <2>3, ThreadMoves
<1>4. ASSUME NEW n \in 1..MaxSleep, Sleep(t, n)  PROVE TimeInv' /\ AnswersGrow
  <2> DEFINE r == [thread[t] EXCEPT !.pc = "asleep", !.begun = now, !.asked = n, !.since = now, !.rest = n]
  <2>1. thread' = [thread EXCEPT ![t] = r] /\ thread[t].pc = "idle"  BY <1>4 DEF Sleep
  <2>2. Allowed(t, r) /\ r.pc = "asleep"  BY OneThread DEF Fields
  <2> HIDE DEF r
  <2>3. InsideHolds'  BY <1>2, <2>1, <2>2, OutsideStays DEF Inside
  <2> QED  BY <1>1, <2>1, <2>2, <2>3, ThreadMoves
<1>5. CASE CopyDate(t)
  <2> DEFINE r == [thread[t] EXCEPT !.pc = "rest", !.copy = TimeStringRingBuffer[Told(t)].date]
  <2>1. thread' = [thread EXCEPT ![t] = r] /\ thread[t].pc = "read"  BY <1>5 DEF CopyDate
  <2>2. Allowed(t, r) /\ r.pc = "rest"  BY <2>1, OneThread DEF Fields, TimeInv, AnswersBehind
  <2> HIDE DEF r
  <2>3. InsideHolds'  BY <1>2, <2>1, <2>2, OutsideStays DEF Inside
  <2> QED  BY <1>1, <2>1, <2>2, <2>3, ThreadMoves
<1>6. CASE CopyTime(t)
  <2> DEFINE r == [thread[t] EXCEPT !.pc = "copied",
                      !.copy = [date |-> thread[t].copy, time |-> TimeStringRingBuffer[Told(t)].time]]
  <2>1. thread' = [thread EXCEPT ![t] = r] /\ thread[t].pc = "rest"
    BY <1>6, OneThread DEF CopyTime, Fields, TimeInv, Shapes
  <2>2. Allowed(t, r) /\ r.pc = "copied"  BY <2>1, OneThread DEF Fields
  <2> HIDE DEF r
  <2>3. InsideHolds'  BY <1>2, <2>1, <2>2, OutsideStays DEF Inside
  <2> QED  BY <1>1, <2>1, <2>2, <2>3, ThreadMoves
<1> QED  BY <1>3, <1>4, <1>5, <1>6

\* The slot a thread was told holds a timestamp that is not older than its last
\* answer
LEMMA AnswerSteps ==
    ASSUME TimeInv, NEW t \in Threads, ReadStamp(t) \/ Return(t) \/ Wake(t)
    PROVE  TimeInv' /\ AnswersGrow
<1> DEFINE a == IF ReadStamp(t) THEN TimeStringRingBuffer[Told(t)].stamp ELSE thread[t].answer
           r == [Idle EXCEPT !.answer = a]
<1>1. StampsStay /\ Lock' = Lock  BY SameStampsStay DEF ReadStamp, Return, Wake
<1>2. thread' = [thread EXCEPT ![t] = r]  BY DEF ReadStamp, Return, Wake, Done
<1>3. thread[t].pc \in {"read", "copied", "asleep"}  BY DEF ReadStamp, Return, Wake
<1>4. a \in Int /\ thread[t].answer <= a /\ a <= Current.stamp
  <2>1. CASE ReadStamp(t)
    <3>1. Told(t) \in Slots /\ a = TimeStringRingBuffer[Told(t)].stamp  BY <2>1, OneThread DEF Told
    <3>2. thread[t].answer <= a  BY <2>1 DEF ReadStamp, Told, TimeInv, AnswersBehind
    <3> QED  BY <3>1, <3>2 DEF TimeInv, Shapes, ClockRead
  <2>2. CASE ~ReadStamp(t)  BY <2>2, OneThread
  <2> QED  BY <2>1, <2>2
<1> HIDE DEF a
<1>5. Allowed(t, r) /\ r.pc = "idle"  BY <1>4, OneThread DEF Allowed, Fields
<1> HIDE DEF r
<1>6. InsideHolds'  BY <1>1, <1>2, <1>5, OutsideStays DEF Inside
<1> QED  BY <1>1, <1>2, <1>3, <1>5, <1>6, ThreadMoves

\* Who takes the lock is alone inside, since nobody holds it
LEMMA TakeLockStep == ASSUME TimeInv, NEW t \in Threads, TakeLock(t) PROVE TimeInv' /\ AnswersGrow
<1> DEFINE r == [thread[t] EXCEPT !.pc = IF Asked THEN "clock" ELSE "fetch"]
<1>1. StampsStay  BY SameStampsStay DEF TakeLock
<1>2. thread' = [thread EXCEPT ![t] = r] /\ thread[t].pc = "lock" /\ Lock = None /\ Lock' = t
  BY DEF TakeLock, To
<1>3. Allowed(t, r)  BY OneThread DEF Allowed, Fields
<1> HIDE DEF r
<1>4. InsideHolds'
  <2>1. \A u \in Threads : u # t => thread'[u] = thread[u]  BY <1>2 DEF TimeInv, Shapes
  <2>2. \A u \in Threads : u # t => thread[u].pc \notin Inside
    BY <1>2, TimeAssumption DEF TimeInv, InsideHolds
  <2> QED  BY <1>2, <2>1, <2>2 DEF InsideHolds
<1> QED  BY <1>1, <1>2, <1>3, <1>4, ThreadMoves

\* The texts and the flag are not the timestamps
LEMMA TextSteps ==
    ASSUME TimeInv, NEW t \in Threads, WriteDate(t) \/ WriteTime(t) \/ ClearFlag(t)
    PROVE  TimeInv' /\ AnswersGrow
<1> DEFINE pc == IF WriteDate(t) THEN "time" ELSE IF WriteTime(t) THEN "clear" ELSE "fetch"
           r == [thread[t] EXCEPT !.pc = pc]
<1>1. StampsStay
  <2>1. CASE WriteDate(t)  BY <2>1 DEF TimeInv, Shapes, StampsStay, WriteDate, Slot
  <2>2. CASE WriteTime(t)  BY <2>2 DEF TimeInv, Shapes, StampsStay, WriteTime, Slot
  <2>3. CASE ClearFlag(t)  BY <2>3, SameStampsStay DEF ClearFlag
  <2> QED  BY <2>1, <2>2, <2>3
<1>2. /\ thread' = [thread EXCEPT ![t] = r] /\ Lock' = Lock
      /\ thread[t].pc \in {"date", "time", "clear"}
  BY DEF WriteDate, WriteTime, ClearFlag, To
<1>3. pc \in {"time", "clear", "fetch"}  OBVIOUS
<1> HIDE DEF pc
<1>4. Allowed(t, r) /\ r.pc = pc  BY <1>3, OneThread DEF Allowed, Fields
<1> HIDE DEF r
<1>5. InsideHolds'  BY <1>2, <1>3, <1>4, OutsideStays DEF Inside
<1> QED  BY <1>1, <1>2, <1>4, <1>5, ThreadMoves

\* While a thread fetches, nobody is writing a timestamp down: the clock read
\* last, the current slot and what the thread is told are of the same second
LEMMA FetchStep == ASSUME TimeInv, NEW t \in Threads, Fetch(t) PROVE TimeInv' /\ AnswersGrow
<1> DEFINE answered == [Idle EXCEPT !.answer = Second(HighResolutionTimestamp)]
           told == [thread[t] EXCEPT !.pc = "read", !.seen = TimestampVersion,
                                     !.told = Current.stamp, !.laps = 0]
           r == IF thread[t].kind = "GetHighResolutionTimestamp" THEN answered ELSE told
<1>1. StampsStay  BY SameStampsStay DEF Fetch
<1>2. thread' = [thread EXCEPT ![t] = r] /\ thread[t].pc = "fetch"
  BY OneThread DEF Fetch, TimeInv, Shapes
<1>3. \A u \in Threads : u # t => thread[u].pc \notin Inside
  BY <1>2 DEF TimeInv, InsideHolds, Inside
<1>4. Current.stamp = Second(HighResolutionTimestamp)
  BY <1>2, <1>3 DEF TimeInv, ClockRead, Inside
<1>5. Allowed(t, answered) /\ answered.pc = "idle"
  BY <1>4, OneThread DEF Allowed, Fields
<1>6. Allowed(t, told) /\ told.pc = "read"
  BY OneThread DEF Allowed, Fields, TimeInv, Shapes
<1> HIDE DEF answered, told
<1>7. Allowed(t, r) /\ r.pc \in {"idle", "read"}  BY <1>5, <1>6
<1> HIDE DEF r
<1>8. InsideHolds'
  <2>1. thread'[t] = r /\ \A u \in Threads : u # t => thread'[u] = thread[u]
    BY <1>2 DEF TimeInv, Shapes
  <2> QED  BY <1>3, <1>7, <2>1 DEF InsideHolds, Inside
<1> QED  BY <1>1, <1>2, <1>7, <1>8, ThreadMoves

\* A signal changes no more than the sleep of the thread that handles it
LEMMA SignalStep == ASSUME TimeInv, NEW t \in Threads, TimerHandle(t) PROVE TimeInv' /\ AnswersGrow
<1> DEFINE r == IF thread[t].pc = "asleep" THEN Interrupt(thread[t]) ELSE thread[t]
<1>1. StampsStay /\ Lock' = Lock  BY SameStampsStay DEF TimerHandle
<1>2. CASE thread[t].pc = "asleep"
  <2>1. thread' = [thread EXCEPT ![t] = r]  BY <1>2 DEF TimerHandle
  <2>2. Allowed(t, r) /\ r.pc = "asleep"  BY <1>2, OneThread DEF Allowed, Fields, Interrupt
  <2> HIDE DEF r
  <2>3. InsideHolds'  BY <1>1, <2>1, <2>2, OutsideStays DEF Inside
  <2> QED  BY <1>1, <1>2, <2>1, <2>2, <2>3, ThreadMoves
<1>3. CASE thread[t].pc # "asleep"
  <2>1. UNCHANGED <<now, HighResolutionTimestamp, TimestampVersion, TimeStringRingBuffer, Lock, thread>>
    BY <1>3 DEF TimerHandle
  <2>2. Current' = Current /\ Second(HighResolutionTimestamp)' = Second(HighResolutionTimestamp)
    BY <2>1 DEF Second
  <2>3. TimeInv'  BY <2>1, <2>2 DEF TimeInv, Shapes, InsideHolds, ClockRead, AnswersBehind
  <2>4. AnswersGrow  BY <2>1, OneThread DEF AnswersGrow
  <2> QED  BY <2>3, <2>4
<1> QED  BY <1>2, <1>3

\* The clock goes on
LEMMA TickStep == ASSUME TimeInv, Tick PROVE TimeInv' /\ AnswersGrow
<1>1. /\ UNCHANGED <<HighResolutionTimestamp, TimestampVersion, TimeStringRingBuffer, Lock, thread>>
      /\ now' = now + 1
  BY DEF Tick
<1>2. Current' = Current /\ Second(HighResolutionTimestamp)' = Second(HighResolutionTimestamp)
  BY <1>1 DEF Second
<1>3. Shapes' /\ InsideHolds' /\ AnswersBehind'
  BY <1>1, <1>2 DEF TimeInv, Shapes, InsideHolds, AnswersBehind
<1>4. ClockRead'  BY <1>1, <1>2 DEF TimeInv, Shapes, ClockRead
<1>5. AnswersGrow  BY <1>1, OneThread DEF AnswersGrow
<1> QED  BY <1>3, <1>4, <1>5 DEF TimeInv

\* The clock read now is not behind the one read before; the thread that read
\* it goes on to write its second down, unless that is the current one already
LEMMA ReadClockStep == ASSUME TimeInv, NEW t \in Threads, ReadClock(t) PROVE TimeInv' /\ AnswersGrow
<1> DEFINE r == [thread[t] EXCEPT !.time = Second(now),
                    !.pc = IF Second(now) = Current.stamp THEN "fetch" ELSE "advance"]
<1>1. /\ thread' = [thread EXCEPT ![t] = r] /\ thread[t].pc = "clock"
      /\ HighResolutionTimestamp' = now
      /\ UNCHANGED <<now, TimestampVersion, TimeStringRingBuffer, Lock>>
  BY OneThread DEF ReadClock, TimeInv, Shapes, Fields
<1>2. /\ DOMAIN r = Fields /\ r.seen = thread[t].seen /\ r.answer = thread[t].answer
      /\ r.time = Second(now) /\ r.pc = IF Second(now) = Current.stamp THEN "fetch" ELSE "advance"
  BY OneThread DEF Fields
<1> HIDE DEF r
<1>3. thread'[t] = r /\ DOMAIN thread' = Threads /\ \A u \in Threads : u # t => thread'[u] = thread[u]
  BY <1>1 DEF TimeInv, Shapes
<1>4. Current' = Current  BY <1>1
<1>5. \A u \in Threads : u # t => thread[u].pc \notin Inside
  BY <1>1 DEF TimeInv, InsideHolds, Inside
<1>6. Shapes'
  <2>1. \A u \in Threads : DOMAIN thread'[u] = Fields /\ thread'[u].seen \in Slots /\ thread'[u].answer \in Int
    BY <1>2, <1>3, OneThread
  <2> QED  BY <1>1, <1>3, <2>1 DEF TimeInv, Shapes
<1>7. InsideHolds'  BY <1>1, <1>3, <1>5 DEF TimeInv, InsideHolds, Inside
<1>8. ClockRead'
  <2>1. Second(now) \in Nat /\ Second(HighResolutionTimestamp) \in Nat
        /\ Second(HighResolutionTimestamp) <= Second(now)
    BY SecondGrows DEF TimeInv, Shapes, ClockRead
  <2>2. Second(HighResolutionTimestamp)' = Second(now)  BY <1>1 DEF Second
  <2>3. Current.stamp <= Second(now)  BY <2>1, OneThread DEF TimeInv, ClockRead
  <2>4. \A u \in Threads : thread'[u].pc = "advance" => u = t /\ thread'[u].time = Second(now)
    BY <1>2, <1>3, <1>5 DEF Inside
  <2>5. (\A u \in Threads : thread'[u].pc # "advance") => Current.stamp = Second(now)
    BY <1>2, <1>3
  <2>6. HighResolutionTimestamp' <= now'  BY <1>1 DEF TimeInv, Shapes
  <2>7. \A k \in Slots : TimeStringRingBuffer'[k].stamp <= Current'.stamp
    BY <1>1 DEF TimeInv, ClockRead
  <2> QED  BY <1>4, <2>2, <2>3, <2>4, <2>5, <2>6, <2>7 DEF ClockRead
<1>9. AnswersBehind'
  BY <1>1, <1>2, <1>3, <1>4 DEF TimeInv, AnswersBehind
<1>10. AnswersGrow  BY <1>2, <1>3, OneThread DEF AnswersGrow
<1> QED  BY <1>6, <1>7, <1>8, <1>9, <1>10 DEF TimeInv

\* The slot that becomes current is given a second that no other slot is ahead of,
\* so a thread that was told that slot is answered something later, not earlier
LEMMA AdvanceStep == ASSUME TimeInv, NEW t \in Threads, Advance(t) PROVE TimeInv' /\ AnswersGrow
<1> DEFINE v == Following(TimestampVersion)
           s == Second(HighResolutionTimestamp)
<1>1. /\ thread[t].pc = "advance" /\ TimestampVersion' = v
      /\ TimeStringRingBuffer' = [TimeStringRingBuffer EXCEPT ![v].stamp = thread[t].time]
      /\ UNCHANGED <<now, HighResolutionTimestamp, Lock>>
  BY DEF Advance
<1>2. v \in Slots  BY FollowingInSlots DEF TimeInv, Shapes
<1>3. thread[t].time = s /\ s \in Nat /\ Current.stamp <= s
  BY <1>1, SecondGrows DEF TimeInv, Shapes, ClockRead
<1>4. \A u \in Threads : u # t => thread[u].pc \notin Inside
  BY <1>1 DEF TimeInv, InsideHolds, Inside
<1>5. DOMAIN thread' = Threads /\ thread'[t].pc = "date"
      /\ \A u \in Threads : /\ DOMAIN thread'[u] = Fields
                            /\ thread'[u].seen = thread[u].seen /\ thread'[u].answer = thread[u].answer
                            /\ u # t => thread'[u].pc = thread[u].pc
  <2>1. thread' = [u \in Threads |->
                     IF u = t THEN [thread[t] EXCEPT !.pc = "date"]
                     ELSE IF thread[u].pc \in {"read", "rest"} /\ thread[u].laps < NUM_TIME_SLOT
                     THEN [thread[u] EXCEPT !.laps = @ + 1] ELSE thread[u]]
    BY DEF Advance
  <2> QED  BY <2>1, OneThread DEF Fields
<1>6. /\ DOMAIN TimeStringRingBuffer' = Slots
      /\ TimeStringRingBuffer'[v].stamp = s
      /\ \A k \in Slots : /\ DOMAIN TimeStringRingBuffer'[k] = {"stamp", "date", "time"}
                          /\ k # v => TimeStringRingBuffer'[k] = TimeStringRingBuffer[k]
  BY <1>1, <1>2, <1>3 DEF TimeInv, Shapes
<1>7. Second(HighResolutionTimestamp)' = s  BY <1>1 DEF Second
<1>8. Current'.stamp = s  BY <1>1, <1>6
<1> HIDE DEF v, s
<1>9. Shapes'  BY <1>1, <1>2, <1>3, <1>5, <1>6 DEF TimeInv, Shapes
<1>10. InsideHolds'  BY <1>1, <1>4, <1>5 DEF TimeInv, InsideHolds, Inside
<1>11. \A k \in Slots : TimeStringRingBuffer[k].stamp <= TimeStringRingBuffer'[k].stamp
                        /\ TimeStringRingBuffer'[k].stamp <= s
  BY <1>2, <1>3, <1>6, OneThread DEF TimeInv, Shapes, ClockRead
<1>12. ClockRead'
  <2>1. \A u \in Threads : thread'[u].pc # "advance"  BY <1>4, <1>5 DEF Inside
  <2>2. HighResolutionTimestamp' <= now'  BY <1>1 DEF TimeInv, ClockRead
  <2>3. Current'.stamp <= s  BY <1>3, <1>8
  <2> QED  BY <1>7, <1>8, <1>11, <2>1, <2>2, <2>3 DEF ClockRead
<1>13. AnswersBehind'
  <2>1. \A u \in Threads : thread'[u].answer <= Current'.stamp
    BY <1>3, <1>5, <1>8, OneThread
  <2>2. ASSUME NEW u \in Threads, thread'[u].pc \in {"read", "rest"}
        PROVE  thread'[u].answer <= TimeStringRingBuffer'[thread'[u].seen].stamp
    <3>1. thread[u].pc \in {"read", "rest"}  BY <1>5, <2>2
    <3>2. thread[u].answer <= TimeStringRingBuffer[thread[u].seen].stamp  BY <3>1 DEF TimeInv, AnswersBehind
    <3>3. TimeStringRingBuffer[thread[u].seen].stamp <= TimeStringRingBuffer'[thread[u].seen].stamp
      BY <1>11, OneThread
    <3>4. /\ thread[u].answer \in Int /\ TimeStringRingBuffer[thread[u].seen].stamp \in Int
          /\ TimeStringRingBuffer'[thread[u].seen].stamp \in Int
      BY <1>9, OneThread DEF TimeInv, Shapes
    <3> QED  BY <1>5, <3>2, <3>3, <3>4
  <2> QED  BY <2>1, <2>2 DEF AnswersBehind
<1>14. AnswersGrow  BY <1>5, OneThread DEF AnswersGrow
<1> QED  BY <1>9, <1>10, <1>12, <1>13, <1>14 DEF TimeInv

-------------------------------------------------------------------------------
\* A step, or none
LEMMA TimeStep == ASSUME TimeInv, [Next]_vars PROVE TimeInv' /\ AnswersGrow
<1>1. CASE UNCHANGED vars
  <2>1. UNCHANGED <<now, HighResolutionTimestamp, TimestampVersion, TimeStringRingBuffer, Lock, thread>>
    BY <1>1 DEF vars
  <2>2. Current' = Current /\ Second(HighResolutionTimestamp)' = Second(HighResolutionTimestamp)
    BY <2>1 DEF Second
  <2>3. TimeInv'  BY <2>1, <2>2 DEF TimeInv, Shapes, InsideHolds, ClockRead, AnswersBehind
  <2> QED  BY <2>1, <2>3, OneThread DEF AnswersGrow
<1>2. CASE Tick  BY <1>2, TickStep
<1>3. ASSUME NEW t \in Threads,
             \/ \E kind \in Kinds : Call(t, kind)
             \/ \E n \in 1..MaxSleep : Sleep(t, n)
             \/ TakeLock(t) \/ ThreadStep(t) \/ Wake(t) \/ TimerHandle(t)
      PROVE  TimeInv' /\ AnswersGrow
  BY <1>3, PrivateSteps, AnswerSteps, TakeLockStep, TextSteps, FetchStep, SignalStep, ReadClockStep,
     AdvanceStep DEF ThreadStep
<1> QED  BY <1>1, <1>2, <1>3 DEF Next

THEOREM TimeInvariance == Spec => []TimeInv
<1>1. Init => TimeInv  BY InitTimeInv
<1>2. TimeInv /\ [Next]_vars => TimeInv'  BY TimeStep
<1> QED  BY <1>1, <1>2, PTL DEF Spec

\* Every answer is of a second that has been reached, and no thread is answered
\* an earlier one than before (Time.cpp:109-129), for any ring, even of one slot
THEOREM AnswersAreMonotone == Spec => TimeGoesForward
<1>1. ASSUME TimeInv, [Next]_vars
      PROVE  [\A t \in Threads : /\ thread'[t].answer <= Second(now)
                                 /\ thread[t].pc # "idle" /\ thread'[t].pc = "idle"
                                      => thread[t].answer <= thread'[t].answer]_thread
  <2> SUFFICES ASSUME thread' # thread, NEW t \in Threads
               PROVE  thread'[t].answer <= Second(now) /\ thread[t].answer <= thread'[t].answer
    OBVIOUS
  <2>1. TimeInv' /\ AnswersGrow  BY <1>1, TimeStep
  <2>2. now' = now
    <3>1. CASE UNCHANGED vars  BY <3>1 DEF vars
    <3>2. CASE Tick  BY <3>2 DEF Tick
    <3>3. ASSUME NEW u \in Threads, NEW kind \in Kinds, Call(u, kind)  PROVE now' = now  BY <3>3 DEF Call
    <3>4. ASSUME NEW u \in Threads, NEW n \in 1..MaxSleep, Sleep(u, n)  PROVE now' = now  BY <3>4 DEF Sleep
    <3>5. ASSUME NEW u \in Threads, TakeLock(u) \/ Wake(u) \/ TimerHandle(u)  PROVE now' = now
      BY <3>5 DEF TakeLock, Wake, TimerHandle
    <3>6. ASSUME NEW u \in Threads, ThreadStep(u)  PROVE now' = now
      BY <3>6 DEF ThreadStep, ReadClock, Advance, WriteDate, WriteTime, ClearFlag, Fetch, ReadStamp,
                  CopyDate, CopyTime, Return
    <3> QED  BY <1>1, <3>1, <3>2, <3>3, <3>4, <3>5, <3>6 DEF Next
  <2>3. /\ thread'[t].answer \in Int /\ Current'.stamp \in Int
        /\ thread'[t].answer <= Current'.stamp /\ Current'.stamp <= Second(HighResolutionTimestamp')
    BY <2>1 DEF TimeInv, Shapes, AnswersBehind, ClockRead, Second
  <2>4. Second(HighResolutionTimestamp') \in Nat /\ Second(now) \in Nat
        /\ Second(HighResolutionTimestamp') <= Second(now)
    <3>1. HighResolutionTimestamp' \in Nat /\ now' \in Nat /\ HighResolutionTimestamp' <= now'
      BY <2>1 DEF TimeInv, Shapes, ClockRead
    <3> QED  BY <2>2, <3>1, SecondGrows
  <2> QED  BY <2>1, <2>3, <2>4 DEF AnswersGrow
<1> QED  BY <1>1, TimeInvariance, PTL DEF Spec, TimeGoesForward

-------------------------------------------------------------------------------
(* The calendar: the days of years and months add up                           *)

\* The day number of 1 March of year y
YearStart(y) == 365 * y + y \div 4 - y \div 100 + y \div 400

LEMMA YearLength ==
    ASSUME NEW y \in Int
    PROVE  YearStart(y) - YearStart(y - 1) = 365 + (IF IsLeap(y) THEN 1 ELSE 0)
<1>1. y \div 4 - (y - 1) \div 4 = IF y % 4 = 0 THEN 1 ELSE 0  OBVIOUS
<1>2. y \div 100 - (y - 1) \div 100 = IF y % 100 = 0 THEN 1 ELSE 0  OBVIOUS
<1>3. y \div 400 - (y - 1) \div 400 = IF y % 400 = 0 THEN 1 ELSE 0  OBVIOUS
<1>4. (y % 400 = 0 => y % 100 = 0) /\ (y % 100 = 0 => y % 4 = 0)  OBVIOUS
<1>5. y \div 4 \in Int /\ y \div 100 \in Int /\ y \div 400 \in Int
      /\ (y - 1) \div 4 \in Int /\ (y - 1) \div 100 \in Int /\ (y - 1) \div 400 \in Int  OBVIOUS
<1> QED  BY <1>1, <1>2, <1>3, <1>4, <1>5 DEF YearStart, IsLeap

LEMMA Guess ==
    ASSUME NEW d \in Int
    PROVE  LET g == ((d + 2) * 400) \div 146097 IN g \in Int /\ d - YearStart(g) \in -2..364
<1> DEFINE g == ((d + 2) * 400) \div 146097
<1>1. g \in Int /\ 146097 * g <= 400 * (d + 2) /\ 400 * (d + 2) < 146097 * g + 146097
    OBVIOUS
<1> HIDE DEF g
<1>2. PICK q \in Int, c \in 0..3, f \in 0..24, y \in 0..3 : g = 400 * q + 100 * c + 4 * f + y
  <2> DEFINE q == g \div 400
             e == g % 400
             c == e \div 100
             h == e % 100
             f == h \div 4
             y == h % 4
  <2>1. q \in Int /\ e \in 0..399 /\ g = 400 * q + e  BY <1>1
  <2> HIDE DEF e, q
  <2>2. c \in 0..3 /\ h \in 0..99 /\ e = 100 * c + h  BY <2>1
  <2> HIDE DEF c, h
  <2>3. f \in 0..24 /\ y \in 0..3 /\ h = 4 * f + y  BY <2>2
  <2> HIDE DEF f, y
  <2>4. g = 400 * q + 100 * c + 4 * f + y  BY <2>1, <2>2, <2>3
  <2> QED  BY <2>1, <2>2, <2>3, <2>4
<1>3. g \div 4 = 100 * q + 25 * c + f  BY <1>2
<1>4. g \div 100 = 4 * q + c  BY <1>2
<1>5. g \div 400 = q  BY <1>2
<1>6. YearStart(g) = 146097 * q + 36524 * c + 1461 * f + 365 * y
    BY <1>1, <1>2, <1>3, <1>4, <1>5 DEF YearStart
<1>7. YearStart(g) \in Int BY <1>2, <1>6
<1>8. d - YearStart(g) >= -2 BY <1>1, <1>2, <1>6
<1>9. d - YearStart(g) <= 364 BY <1>1, <1>2, <1>6
<1> QED  BY <1>1, <1>7, <1>8, <1>9 DEF g


Leap(y) == IF IsLeap(y) THEN 1 ELSE 0

\* The days of a year before each month, in a year with l leap days
Before(l) == <<0, 31, 59 + l, 90 + l, 120 + l, 151 + l, 181 + l, 212 + l, 243 + l, 273 + l, 304 + l, 334 + l>>

LEMMA MonthLengths ==
    ASSUME NEW y \in Int
    PROVE  /\ DaysIn(y, 1) = 31 /\ DaysIn(y, 2) = 28 + Leap(y) /\ DaysIn(y, 3) = 31
           /\ DaysIn(y, 4) = 30 /\ DaysIn(y, 5) = 31 /\ DaysIn(y, 6) = 30 /\ DaysIn(y, 7) = 31
           /\ DaysIn(y, 8) = 31 /\ DaysIn(y, 9) = 30 /\ DaysIn(y, 10) = 31 /\ DaysIn(y, 11) = 30
           /\ DaysIn(y, 12) = 31
BY DEF DaysIn, Leap

LEMMA DaysBefore ==
    ASSUME NEW y \in Int, NEW m \in 1..12
    PROVE  DaysBeforeMonth(y, m) = Before(Leap(y))[m]
<1> DEFINE IsPast(f) == f = [k \in 1..12 |-> IF k = 1 THEN 0 ELSE f[k - 1] + DaysIn(y, k - 1)]
           b == [k \in 1..12 |-> Before(Leap(y))[k]]
           past == CHOOSE f : IsPast(f)
<1>1. Leap(y) \in 0..1  BY DEF Leap
<1>2. IsPast(b)
  <2>1. \A k \in 1..12 : b[k] = IF k = 1 THEN 0 ELSE b[k - 1] + DaysIn(y, k - 1)
    <3>1. /\ b[1] = 0 /\ b[2] = 31 /\ b[3] = 59 + Leap(y) /\ b[4] = 90 + Leap(y)
          /\ b[5] = 120 + Leap(y) /\ b[6] = 151 + Leap(y) /\ b[7] = 181 + Leap(y)
          /\ b[8] = 212 + Leap(y) /\ b[9] = 243 + Leap(y) /\ b[10] = 273 + Leap(y)
          /\ b[11] = 304 + Leap(y) /\ b[12] = 334 + Leap(y)
      BY DEF Before
    <3> HIDE DEF b
    <3> QED  BY <1>1, <3>1, MonthLengths
  <2> HIDE DEF b
  <2>2. b = [k \in 1..12 |-> b[k]]  BY DEF b
  <2> QED  BY <2>1, <2>2
<1>3. IsPast(past)  BY <1>2
<1>4. DaysBeforeMonth(y, m) = past[m]  BY DEF DaysBeforeMonth
<1>5. \A k \in 1..12 : past[k] = IF k = 1 THEN 0 ELSE past[k - 1] + DaysIn(y, k - 1)
  <2> HIDE DEF past
  <2> QED  BY <1>3
<1> HIDE DEF past
<1>6. past[1] = 0 /\ past[2] = 31 /\ past[3] = 59 + Leap(y)  BY <1>1, <1>5, MonthLengths
<1>7. past[4] = 90 + Leap(y) /\ past[5] = 120 + Leap(y) /\ past[6] = 151 + Leap(y)
  BY <1>1, <1>5, <1>6, MonthLengths
<1>8. past[7] = 181 + Leap(y) /\ past[8] = 212 + Leap(y) /\ past[9] = 243 + Leap(y)
  BY <1>1, <1>5, <1>7, MonthLengths
<1>9. past[10] = 273 + Leap(y) /\ past[11] = 304 + Leap(y) /\ past[12] = 334 + Leap(y)
  BY <1>1, <1>5, <1>8, MonthLengths
<1> QED  BY <1>4, <1>6, <1>7, <1>8, <1>9 DEF Before

\* The months of a year that begins in March: January and February are the last,
\* and only a leap day makes the year longer than 365 days
MarchStart(m) == (367 * m) \div 12 - 30

LEMMA MarchMonths ==
    ASSUME NEW n \in 0..365
    PROVE  LET m == MonthFrom(n)
           IN /\ m \in 1..12 /\ n \in MarchStart(m)..(MarchStart(m) + 30)
              /\ m \in {2, 4, 7, 9} => n < MarchStart(m) + 30
              /\ m = 12 => n <= 365
              /\ n >= 306 <=> m >= 11
<1> DEFINE m == MonthFrom(n)
<1>1. m \in 1..12 /\ 306 * m <= (n + 31) * 10 /\ (n + 31) * 10 < 306 * m + 306
    BY DEF MonthFrom
<1> HIDE DEF m
<1>2. \E k \in 1..12 : m = k  BY <1>1
<1>3. /\ MarchStart(1) = 0 /\ MarchStart(2) = 31 /\ MarchStart(3) = 61 /\ MarchStart(4) = 92
      /\ MarchStart(5) = 122 /\ MarchStart(6) = 153 /\ MarchStart(7) = 184 /\ MarchStart(8) = 214
      /\ MarchStart(9) = 245 /\ MarchStart(10) = 275 /\ MarchStart(11) = 306 /\ MarchStart(12) = 337
    BY DEF MarchStart
<1>4. m \in 1..6 => /\ n \in MarchStart(m)..(MarchStart(m) + 30)
                    /\ m \in {2, 4, 7, 9} => n < MarchStart(m) + 30
    BY <1>1, <1>3
<1>5. m \in 7..12 => /\ n \in MarchStart(m)..(MarchStart(m) + 30)
                     /\ m \in {2, 4, 7, 9} => n < MarchStart(m) + 30
    BY <1>1, <1>3
<1>6. n >= 306 <=> m >= 11  BY <1>1
<1> QED  BY <1>1, <1>4, <1>5, <1>6 DEF m

\* The arithmetic of UpdateTimeString gives the date of every day from 1970 on
THEOREM CalendarIsGregorian == \A days \in Nat : IsDateOf(Date(days), days)
<1> SUFFICES ASSUME NEW days \in Nat PROVE IsDateOf(Date(days), days)
    OBVIOUS
<1> DEFINE d == days - (31 + 28) + 719527
           g == ((d + 2) * 400) \div (365 * 400 + 100 - 4 + 1)
           rest == d - (365 * g + g \div 4 - g \div 100 + g \div 400)
           leap == g % 4 = 0 /\ (g % 100 # 0 \/ g % 400 = 0)
           n == IF rest < 0 THEN 365 + (IF leap THEN 1 ELSE 0) + rest ELSE rest
           y == IF rest < 0 THEN g - 1 ELSE g
           m == MonthFrom(n)
           late == n >= 306
           date == Date(days)
<1> HIDE DEF d, g, rest, leap, n, y, m, late, date
<1>0. date = [year |-> IF late THEN y + 1 ELSE y, month |-> IF late THEN m - 10 ELSE m + 2,
              day |-> n - ((367 * m) \div 12 - 30) + 1, weekday |-> (4 + days) % 7]
    BY DEF Date, date, d, g, rest, leap, n, y, m, late
<1>1. /\ date.year = (IF late THEN y + 1 ELSE y) /\ date.month = (IF late THEN m - 10 ELSE m + 2)
      /\ date.day = n - MarchStart(m) + 1 /\ date.weekday = (4 + days) % 7
    BY <1>0 DEF MarchStart
<1>2. d = days + 719468 /\ d \in Int  BY DEF d
<1>3. g \in Int /\ rest = d - YearStart(g) /\ rest \in -2..364
  <2>1. g = ((d + 2) * 400) \div 146097  BY DEF g
  <2>2. rest = d - YearStart(g)  BY DEF YearStart, rest
  <2> QED  BY <1>2, <2>1, <2>2, Guess
<1>4. YearStart(g) - YearStart(g - 1) = 365 + Leap(g) /\ Leap(g) \in 0..1
    BY <1>3, YearLength DEF Leap
<1>5. y \in Int /\ n \in 0..365 /\ d = YearStart(y) + n /\ (n = 365 => IsLeap(y + 1))
  <2>1. n = IF rest < 0 THEN 365 + Leap(g) + rest ELSE rest
      BY DEF IsLeap, Leap, n, leap
  <2>2. YearStart(g) \in Int /\ YearStart(g - 1) \in Int  BY <1>3 DEF YearStart
  <2>3. CASE rest < 0
    <3>1. y = g - 1 /\ n = 365 + Leap(g) + rest  BY <2>1, <2>3 DEF y
    <3>2. n = 365 => Leap(g) = 1  BY <1>3, <1>4, <2>3, <3>1
    <3>3. y + 1 = g  BY <1>3, <3>1
    <3> QED  BY <1>2, <1>3, <1>4, <2>2, <2>3, <3>1, <3>2, <3>3 DEF Leap
  <2>4. CASE ~(rest < 0)
    BY <1>2, <1>3, <2>1, <2>2, <2>4 DEF y
  <2> QED  BY <2>3, <2>4
<1>6. /\ m \in 1..12 /\ n \in MarchStart(m)..(MarchStart(m) + 30)
      /\ m \in {2, 4, 7, 9} => n < MarchStart(m) + 30
      /\ late <=> m >= 11
    BY <1>5, MarchMonths DEF m, late
<1>7. /\ MarchStart(1) = 0 /\ MarchStart(2) = 31 /\ MarchStart(3) = 61 /\ MarchStart(4) = 92
      /\ MarchStart(5) = 122 /\ MarchStart(6) = 153 /\ MarchStart(7) = 184 /\ MarchStart(8) = 214
      /\ MarchStart(9) = 245 /\ MarchStart(10) = 275 /\ MarchStart(11) = 306 /\ MarchStart(12) = 337
    BY DEF MarchStart
<1>8. /\ YearStart(y) \in Int /\ YearStart(y - 1) \in Int
      /\ YearStart(y) = YearStart(y - 1) + 365 + Leap(y) /\ Leap(y) \in 0..1 /\ Leap(y + 1) \in 0..1
      /\ IsLeap(y + 1) => Leap(y + 1) = 1
    BY <1>5, YearLength DEF YearStart, Leap
<1>9. \A z \in Int : DaysBeforeYear(z) = YearStart(z - 1)  BY DEF DaysBeforeYear, YearStart
<1>10. DaysBeforeYear(1970) = 719162  BY DEF DaysBeforeYear
<1>11. CASE late
  <2>1. m \in 11..12 /\ date.year = y + 1 /\ date.month = m - 10  BY <1>1, <1>6, <1>11
  <2>2. DaysBeforeYear(date.year) = YearStart(y)  BY <1>5, <1>9, <2>1
  <2>3. DaysBeforeMonth(date.year, date.month) = IF m = 11 THEN 0 ELSE 31
      BY <1>5, <2>1, DaysBefore DEF Before
  <2>4. DaysIn(date.year, date.month) = IF m = 11 THEN 31 ELSE 28 + Leap(y + 1)
      BY <1>5, <2>1, MonthLengths
  <2>5. MarchStart(m) = 306 + (IF m = 11 THEN 0 ELSE 31)  BY <1>7, <2>1
  <2>6. date.month \in 1..12 /\ date.day \in 1..DaysIn(date.year, date.month)
      BY <1>1, <1>5, <1>6, <1>8, <2>1, <2>4, <2>5
  <2>7. days = DaysBeforeYear(date.year) - DaysBeforeYear(1970)
                + DaysBeforeMonth(date.year, date.month) + date.day - 1
      BY <1>1, <1>2, <1>5, <1>6, <1>8, <1>10, <2>1, <2>2, <2>3, <2>5
  <2>8. IsDateOf(date, days)  BY <1>1, <2>6, <2>7 DEF IsDateOf
  <2> QED  BY <2>8 DEF date
<1>12. CASE ~late
  <2>1. m \in 1..10 /\ date.year = y /\ date.month = m + 2  BY <1>1, <1>6, <1>12
  <2>2. DaysBeforeYear(date.year) = YearStart(y - 1)  BY <1>5, <1>9, <2>1
  <2>3. DaysBeforeMonth(date.year, date.month) = MarchStart(m) + 59 + Leap(y)
    <3>1. DaysBeforeMonth(date.year, date.month) = Before(Leap(y))[m + 2]
        BY <1>5, <2>1, DaysBefore
    <3> QED  BY <1>7, <1>8, <2>1, <3>1 DEF Before
  <2>4. DaysIn(date.year, date.month) = IF m \in {2, 4, 7, 9} THEN 30 ELSE 31
      BY <1>5, <2>1 DEF DaysIn
  <2>5. MarchStart(m) \in Int  BY <1>7, <2>1
  <2>6. date.month \in 1..12 /\ date.day \in 1..DaysIn(date.year, date.month)
      BY <1>1, <1>5, <1>6, <2>1, <2>4, <2>5
  <2>7. days = DaysBeforeYear(date.year) - DaysBeforeYear(1970)
                + DaysBeforeMonth(date.year, date.month) + date.day - 1
      BY <1>1, <1>2, <1>5, <1>6, <1>8, <1>10, <2>1, <2>2, <2>3, <2>5
  <2>8. IsDateOf(date, days)  BY <1>1, <2>6, <2>7 DEF IsDateOf
  <2> QED  BY <2>8 DEF date
<1> QED  BY <1>11, <1>12

LEMMA TimeAddsUp ==
    ASSUME NEW s \in 0..(DaySeconds - 1)
    PROVE  /\ TimeOfDay(s).hour * 3600 + TimeOfDay(s).minute * 60 + TimeOfDay(s).second = s
           /\ TimeOfDay(s).minute \in 0..59 /\ TimeOfDay(s).second \in 0..59
<1>1. s \in Nat  OBVIOUS
<1> QED  BY <1>1 DEF TimeOfDay

-------------------------------------------------------------------------------
(* The texts.  Who writes them holds the lock; who reads them does not.        *)

Writing == {"date", "time"}
Reading == {"read", "rest"}

\* A slot holds the texts of its second, but for what is being written into the
\* current one
TextsOfStamps ==
    /\ origin \in Origins /\ Current.stamp \in Nat
    /\ \A k \in Slots : k # TimestampVersion /\ TimeStringRingBuffer[k].stamp # -1 =>
         /\ TimeStringRingBuffer[k].date = DateText(TimeStringRingBuffer[k].stamp)
         /\ TimeStringRingBuffer[k].time = TimeText(TimeStringRingBuffer[k].stamp)
    /\ (\A t \in Threads : thread[t].pc # "date") => Current.date = DateText(Current.stamp)
    /\ (\A t \in Threads : thread[t].pc \notin Writing) => Current.time = TimeText(Current.stamp)
    /\ \A t \in Threads : thread[t].pc \in Writing => thread[t].time = Current.stamp

\* A reader the ring has not come round to: its slot is as many behind the current
\* one as the ring went on, nobody writes into it, and what it copied is of the
\* second it was told
ReaderFits(r) ==
    /\ r.pc \in Reading \cup {"copied"} => r.told \in Nat
    /\ r.pc \in Reading => r.laps \in Nat
    /\ r.pc \in Reading /\ r.laps < NUM_TIME_SLOT =>
         /\ TimestampVersion = (r.seen + r.laps) % NUM_TIME_SLOT
         /\ TimeStringRingBuffer[r.seen].stamp = r.told
    /\ r.pc \in Reading /\ r.laps = 0 => \A t \in Threads : thread[t].pc \notin Writing
    /\ r.pc = "rest" /\ r.laps < NUM_TIME_SLOT => r.copy = DateText(r.told)
    /\ r.pc = "copied" /\ r.laps < NUM_TIME_SLOT =>
         r.copy = [date |-> DateText(r.told), time |-> TimeText(r.told)]

TextInv == TextsOfStamps /\ \A t \in Threads : ReaderFits(thread[t])

\* Fewer steps than the ring has slots lead from a slot to another one
LEMMA NotRound ==
    ASSUME NEW k \in Slots, NEW i \in Nat, i < NUM_TIME_SLOT
    PROVE  (k + i) % NUM_TIME_SLOT = k <=> i = 0
<1> DEFINE N == NUM_TIME_SLOT
<1>1. N \in Nat \ {0} /\ k \in 0..(N - 1)  BY TimeAssumption
<1> HIDE DEF N
<1>2. CASE k + i < N
  <2>1. (k + i) % N = k + i  BY <1>1, <1>2
  <2> QED  BY <1>1, <2>1 DEF N
<1>3. CASE k + i >= N
  <2>1. k + i - N \in 0..(N - 1)  BY <1>1, <1>3 DEF N
  <2>2. (k + i - N) % N = k + i - N  BY <1>1, <2>1
  <2>3. (k + i) % N = k + i - N  BY <1>1, <2>1
  <2> QED  BY <1>1, <2>3 DEF N
<1> QED  BY <1>1, <1>2, <1>3

LEMMA RemainderIs ==
    ASSUME NEW N \in Nat \ {0}, NEW q \in Nat, NEW c \in 0..(N - 1)
    PROVE  (N * q + c) % N = c
<1> DEFINE x == N * q + c
           p == x \div N
           r == x % N
<1>1. x \in Nat  OBVIOUS
<1>2. p \in Int /\ r \in 0..(N - 1) /\ x = N * p + r
  <2> HIDE DEF x
  <2> QED  BY <1>1
<1> HIDE DEF p, r
<1>3. PICK e \in Int : e = p - q  BY <1>2
<1>4. N * p = N * q + N * e  BY <1>2, <1>3
<1>5. e >= 1 => N * e >= N  OBVIOUS
<1>6. e <= -1 => N * e <= -N  OBVIOUS
<1>7. e = 0
  <2>1. N * e = c - r /\ N * e \in Int  BY <1>2, <1>4
  <2> QED  BY <1>2, <1>3, <1>5, <1>6, <2>1
<1> QED  BY <1>2, <1>3, <1>7 DEF r

LEMMA OneMore ==
    ASSUME NEW k \in Slots, NEW i \in Nat
    PROVE  Following((k + i) % NUM_TIME_SLOT) = (k + (i + 1)) % NUM_TIME_SLOT
<1> DEFINE N == NUM_TIME_SLOT
           a == k + i
           b == a % N
           q == a \div N
<1>1. N \in Nat \ {0} /\ a \in Nat  BY TimeAssumption
<1> HIDE DEF N, a
<1>2. b \in 0..(N - 1) /\ q \in Nat /\ a = N * q + b  BY <1>1
<1> HIDE DEF b, q
<1>3. (b + 1) % N = (a + 1) % N
  <2>1. CASE b + 1 < N
    <3>1. a + 1 = N * q + (b + 1) /\ b + 1 \in 0..(N - 1)  BY <1>1, <1>2, <2>1
    <3>2. (a + 1) % N = b + 1  BY <1>1, <1>2, <3>1, RemainderIs
    <3>3. (b + 1) % N = b + 1  BY <1>1, <3>1
    <3> QED  BY <3>2, <3>3
  <2>2. CASE b + 1 = N
    <3>1. a + 1 = N * (q + 1) + 0 /\ q + 1 \in Nat /\ 0 \in 0..(N - 1)  BY <1>1, <1>2, <2>2
    <3>2. (a + 1) % N = 0  BY <1>1, <3>1, RemainderIs
    <3>3. N % N = 0  BY <1>1
    <3> QED  BY <2>2, <3>2, <3>3
  <2> QED  BY <1>1, <1>2, <2>1, <2>2
<1>4. k + (i + 1) = a + 1  BY DEF a
<1> QED  BY <1>3, <1>4 DEF N, a, b, Following

\* A reader that the ring has not come round to finds the texts of its second
LEMMA SlotIsWhole ==
    ASSUME TimeInv, TextInv, NEW t \in Threads, thread[t].pc \in Reading, thread[t].laps < NUM_TIME_SLOT
    PROVE  /\ TimeStringRingBuffer[thread[t].seen].date = DateText(thread[t].told)
           /\ TimeStringRingBuffer[thread[t].seen].time = TimeText(thread[t].told)
<1> DEFINE r == thread[t]
<1>1. /\ r.told \in Nat /\ r.laps \in Nat /\ r.seen \in Slots
      /\ TimestampVersion = (r.seen + r.laps) % NUM_TIME_SLOT
      /\ TimeStringRingBuffer[r.seen].stamp = r.told
      /\ r.laps = 0 => \A u \in Threads : thread[u].pc \notin Writing
  BY OneThread DEF TextInv, ReaderFits
<1>2. TimestampVersion = r.seen <=> r.laps = 0  BY <1>1, NotRound
<1>3. CASE r.laps = 0
  <2>1. \A u \in Threads : thread[u].pc # "date"  BY <1>1, <1>3 DEF Writing
  <2> QED  BY <1>1, <1>2, <1>3, <2>1 DEF TextInv, TextsOfStamps
<1>4. CASE r.laps # 0
  BY <1>1, <1>2, <1>4 DEF TextInv, TextsOfStamps
<1> QED  BY <1>3, <1>4

\* A thread that does not write takes a step and leaves the ring as it is
LEMMA QuietStep ==
    ASSUME TimeInv, TextInv, origin' = origin, TimestampVersion' = TimestampVersion,
           TimeStringRingBuffer' = TimeStringRingBuffer,
           NEW t \in Threads, NEW r, thread' = [thread EXCEPT ![t] = r],
           thread[t].pc \notin Writing, r.pc \notin Writing, ReaderFits(r)
    PROVE  TextInv'
<1>1. DOMAIN thread' = Threads /\ thread'[t] = r /\ \A u \in Threads : u # t => thread'[u] = thread[u]
  BY DEF TimeInv, Shapes
<1>2. \A u \in Threads : /\ thread'[u].pc = "date" <=> thread[u].pc = "date"
                         /\ thread'[u].pc \in Writing <=> thread[u].pc \in Writing
                         /\ thread'[u].pc \in Writing => thread'[u] = thread[u]
  BY <1>1 DEF Writing
<1>3. \A x : DateText(x)' = DateText(x) /\ TimeText(x)' = TimeText(x)
  BY DEF DateText, TimeText, Moment
<1>4. TextsOfStamps'  BY <1>2, <1>3 DEF TextInv, TextsOfStamps
<1>5. \A u \in Threads : ReaderFits(thread'[u])  BY <1>1 DEF TextInv
<1>6. ASSUME NEW u \in Threads PROVE ReaderFits(thread[u])'
  BY <1>2, <1>3, <1>5 DEF ReaderFits
<1> QED  BY <1>4, <1>6 DEF TextInv

LEMMA InitTextInv == ASSUME Init PROVE TextInv
<1>1. \A t \in Threads : thread[t].pc = "idle"  BY DEF Init, Idle
<1>2. \A t \in Threads : ReaderFits(thread[t])  BY <1>1 DEF ReaderFits, Reading
<1>3. Shapes  BY InitTimeInv DEF TimeInv
<1>4. TextsOfStamps
  <2>1. \A k \in Slots : TimeStringRingBuffer[k] =
          IF k = TimestampVersion THEN [stamp |-> 0, date |-> DateText(0), time |-> TimeText(0)] ELSE Blank
    BY DEF Init
  <2>2. Current = [stamp |-> 0, date |-> DateText(0), time |-> TimeText(0)]  BY <1>3, <2>1 DEF Shapes
  <2>3. \A k \in Slots : k # TimestampVersion => TimeStringRingBuffer[k].stamp = -1  BY <2>1 DEF Blank
  <2>4. origin \in Origins  BY DEF Init
  <2> QED  BY <1>1, <2>2, <2>3, <2>4 DEF TextsOfStamps, Writing
<1> QED  BY <1>2, <1>4 DEF TextInv

\* Steps of threads that neither read a slot nor write one
LEMMA TextUntouched ==
    ASSUME TimeInv, TextInv, NEW t \in Threads,
           \/ \E kind \in Kinds : Call(t, kind)
           \/ \E n \in 1..MaxSleep : Sleep(t, n)
           \/ TakeLock(t) \/ ReadClock(t) \/ ClearFlag(t)
    PROVE  TextInv'
<1> DEFINE Out == {"idle", "lock", "clock", "fetch", "advance", "asleep"}
<1>1. UNCHANGED <<origin, TimestampVersion, TimeStringRingBuffer>>
  BY DEF Call, Sleep, TakeLock, ReadClock, ClearFlag
<1>2. thread[t].pc \notin Writing
  BY DEF Call, Sleep, TakeLock, ReadClock, ClearFlag, Writing
<1>3. \E r : thread' = [thread EXCEPT ![t] = r] /\ r.pc \in Out
  <2>1. DOMAIN thread[t] = Fields  BY OneThread
  <2>2. ASSUME NEW kind \in Kinds, Call(t, kind)
        PROVE  \E r : thread' = [thread EXCEPT ![t] = r] /\ r.pc \in Out
    <3> DEFINE r == [thread[t] EXCEPT !.pc = "lock", !.kind = kind]
    <3>1. thread' = [thread EXCEPT ![t] = r] /\ r.pc = "lock"  BY <2>1, <2>2 DEF Call, Fields
    <3> QED  BY <3>1
  <2>3. ASSUME NEW n \in 1..MaxSleep, Sleep(t, n)
        PROVE  \E r : thread' = [thread EXCEPT ![t] = r] /\ r.pc \in Out
    <3> DEFINE r == [thread[t] EXCEPT !.pc = "asleep", !.begun = now, !.asked = n, !.since = now, !.rest = n]
    <3>1. thread' = [thread EXCEPT ![t] = r] /\ r.pc = "asleep"  BY <2>1, <2>3 DEF Sleep, Fields
    <3> QED  BY <3>1
  <2>4. CASE TakeLock(t)
    <3> DEFINE pc == IF Asked THEN "clock" ELSE "fetch"
               r == [thread[t] EXCEPT !.pc = pc]
    <3>1. pc \in Out  OBVIOUS
    <3> HIDE DEF pc
    <3>2. r.pc = pc  BY <2>1 DEF Fields
    <3>3. thread' = [thread EXCEPT ![t] = r]  BY <2>4 DEF TakeLock, To, pc
    <3> QED  BY <3>1, <3>2, <3>3
  <2>5. CASE ReadClock(t)
    <3> DEFINE pc == IF Second(now) = Current.stamp THEN "fetch" ELSE "advance"
               r == [thread[t] EXCEPT !.time = Second(now), !.pc = pc]
    <3>1. pc \in Out  OBVIOUS
    <3>2. thread' = [thread EXCEPT ![t] = r]  BY <2>1, <2>5 DEF ReadClock, Fields, TimeInv, Shapes
    <3> HIDE DEF pc
    <3>3. r.pc = pc  BY <2>1 DEF Fields
    <3> QED  BY <3>1, <3>2, <3>3
  <2>6. CASE ClearFlag(t)
    <3> DEFINE r == [thread[t] EXCEPT !.pc = "fetch"]
    <3>1. thread' = [thread EXCEPT ![t] = r] /\ r.pc = "fetch"  BY <2>1, <2>6 DEF ClearFlag, To, Fields
    <3> QED  BY <3>1
  <2> QED  BY <2>2, <2>3, <2>4, <2>5, <2>6
<1>4. PICK r : thread' = [thread EXCEPT ![t] = r] /\ r.pc \in Out  BY <1>3
<1>5. r.pc \notin Writing /\ ReaderFits(r)  BY <1>4 DEF ReaderFits, Reading, Writing
<1> QED  BY <1>1, <1>2, <1>4, <1>5, QuietStep

LEMMA TextReadOut ==
    ASSUME TimeInv, TextInv, NEW t \in Threads, ReadStamp(t) \/ Return(t) \/ Wake(t)
    PROVE  TextInv'
<1> DEFINE a == IF ReadStamp(t) THEN TimeStringRingBuffer[Told(t)].stamp ELSE thread[t].answer
           r == [Idle EXCEPT !.answer = a]
<1>1. thread' = [thread EXCEPT ![t] = r]  BY DEF ReadStamp, Return, Wake, Done
<1>2. thread[t].pc \notin Writing /\ UNCHANGED <<origin, TimestampVersion, TimeStringRingBuffer>>
  BY DEF ReadStamp, Return, Wake, Writing
<1> HIDE DEF a
<1>3. r.pc = "idle"  BY DEF Idle
<1> HIDE DEF r
<1>4. r.pc \notin Writing /\ ReaderFits(r)  BY <1>3 DEF ReaderFits, Reading, Writing
<1> QED  BY <1>1, <1>2, <1>4, QuietStep

LEMMA TextSignal == ASSUME TimeInv, TextInv, NEW t \in Threads, TimerHandle(t) PROVE TextInv'
<1> DEFINE r == IF thread[t].pc = "asleep" THEN Interrupt(thread[t]) ELSE thread[t]
<1>1. UNCHANGED <<origin, TimestampVersion, TimeStringRingBuffer>>  BY DEF TimerHandle
<1>2. CASE thread[t].pc = "asleep"
  <2>1. thread' = [thread EXCEPT ![t] = r]  BY <1>2 DEF TimerHandle
  <2>2. r.pc = "asleep"  BY <1>2, OneThread DEF Fields, Interrupt
  <2> HIDE DEF r
  <2>3. r.pc \notin Writing /\ ReaderFits(r)  BY <2>2 DEF ReaderFits, Reading, Writing
  <2> QED  BY <1>1, <1>2, <2>1, <2>3, QuietStep DEF Writing
<1>3. CASE thread[t].pc # "asleep"
  <2>1. thread' = thread  BY <1>3 DEF TimerHandle
  <2> QED  BY <1>1, <2>1 DEF TextInv, TextsOfStamps, ReaderFits, DateText, TimeText, Moment
<1> QED  BY <1>2, <1>3

\* What is copied is of the second the thread was told
LEMMA TextCopied == ASSUME TimeInv, TextInv, NEW t \in Threads, CopyDate(t) \/ CopyTime(t) PROVE TextInv'
<1>1. UNCHANGED <<origin, TimestampVersion, TimeStringRingBuffer>>  BY DEF CopyDate, CopyTime
<1>2. DOMAIN thread[t] = Fields /\ ReaderFits(thread[t])  BY OneThread DEF TextInv
<1>3. CASE CopyDate(t)
  <2> DEFINE r == [thread[t] EXCEPT !.pc = "rest", !.copy = TimeStringRingBuffer[Told(t)].date]
  <2>1. thread' = [thread EXCEPT ![t] = r] /\ thread[t].pc = "read"  BY <1>3 DEF CopyDate
  <2>2. /\ r.pc = "rest" /\ r.copy = TimeStringRingBuffer[thread[t].seen].date
        /\ r.laps = thread[t].laps /\ r.seen = thread[t].seen /\ r.told = thread[t].told
    BY <1>2 DEF Fields, Told
  <2> HIDE DEF r
  <2>3. thread[t].laps < NUM_TIME_SLOT => r.copy = DateText(r.told)
    BY <2>1, <2>2, SlotIsWhole DEF Reading
  <2>4. ReaderFits(r) /\ r.pc \notin Writing
    BY <1>2, <2>1, <2>2, <2>3 DEF ReaderFits, Reading, Writing
  <2> QED  BY <1>1, <2>1, <2>4, QuietStep DEF Writing
<1>4. CASE CopyTime(t)
  <2> DEFINE r == [thread[t] EXCEPT !.pc = "copied",
                      !.copy = [date |-> thread[t].copy, time |-> TimeStringRingBuffer[Told(t)].time]]
  <2>1. thread' = [thread EXCEPT ![t] = r] /\ thread[t].pc = "rest"
    BY <1>2, <1>4 DEF CopyTime, Fields, TimeInv, Shapes
  <2>2. /\ r.pc = "copied" /\ r.laps = thread[t].laps /\ r.told = thread[t].told
        /\ r.copy = [date |-> thread[t].copy, time |-> TimeStringRingBuffer[thread[t].seen].time]
    BY <1>2 DEF Fields, Told
  <2> HIDE DEF r
  <2>3. r.laps < NUM_TIME_SLOT => r.copy = [date |-> DateText(r.told), time |-> TimeText(r.told)]
    BY <1>2, <2>1, <2>2, SlotIsWhole DEF Reading, ReaderFits
  <2>4. ReaderFits(r) /\ r.pc \notin Writing
    BY <1>2, <2>1, <2>2, <2>3 DEF ReaderFits, Reading, Writing
  <2> QED  BY <1>1, <2>1, <2>4, QuietStep DEF Writing
<1> QED  BY <1>3, <1>4

\* Who fetches is told the current slot, and holds the lock, so nobody writes
LEMMA TextFetched == ASSUME TimeInv, TextInv, NEW t \in Threads, Fetch(t) PROVE TextInv'
<1> DEFINE answered == [Idle EXCEPT !.answer = Second(HighResolutionTimestamp)]
           told == [thread[t] EXCEPT !.pc = "read", !.seen = TimestampVersion,
                                     !.told = Current.stamp, !.laps = 0]
           r == IF thread[t].kind = "GetHighResolutionTimestamp" THEN answered ELSE told
<1>1. /\ thread' = [thread EXCEPT ![t] = r] /\ thread[t].pc = "fetch"
      /\ UNCHANGED <<origin, TimestampVersion, TimeStringRingBuffer>>
  BY OneThread DEF Fetch, TimeInv, Shapes
<1>2. \A u \in Threads : thread[u].pc \notin Writing
  BY <1>1 DEF TimeInv, InsideHolds, Inside, Writing
<1>3. answered.pc = "idle"  BY DEF Idle
<1>4. told.pc = "read" /\ told.seen = TimestampVersion /\ told.told = Current.stamp /\ told.laps = 0
  BY OneThread DEF Fields
<1>5. Current.stamp \in Nat /\ TimestampVersion \in Slots /\ 0 < NUM_TIME_SLOT
  BY TimeAssumption DEF TextInv, TextsOfStamps, TimeInv, Shapes
<1>6. TimestampVersion = (TimestampVersion + 0) % NUM_TIME_SLOT  BY <1>5, NotRound
<1> HIDE DEF answered, told
<1>7. ReaderFits(answered)  BY <1>3 DEF ReaderFits, Reading
<1>8. ReaderFits(told)  BY <1>2, <1>4, <1>5, <1>6 DEF ReaderFits, Reading
<1>9. ReaderFits(r) /\ r.pc \notin Writing  BY <1>3, <1>4, <1>7, <1>8 DEF Writing
<1> QED  BY <1>1, <1>2, <1>9, QuietStep

\* Who writes is the only one inside, and writes into the current slot, which is
\* of its second
LEMMA TextWritten == ASSUME TimeInv, TextInv, NEW t \in Threads, WriteDate(t) \/ WriteTime(t) PROVE TextInv'
<1> DEFINE r == [thread[t] EXCEPT !.pc = IF WriteDate(t) THEN "time" ELSE "clear"]
           v == TimestampVersion
           c == Current
<1>1. /\ thread' = [thread EXCEPT ![t] = r] /\ thread[t].pc = IF WriteDate(t) THEN "date" ELSE "time"
      /\ UNCHANGED <<origin, TimestampVersion>>
  BY DEF WriteDate, WriteTime, To
<1>2. thread[t].time = c.stamp /\ c.stamp \in Nat /\ origin \in Origins
  BY <1>1 DEF TextInv, TextsOfStamps, Writing
<1>3. \A u \in Threads : u # t => thread[u].pc \notin Writing /\ thread[u].pc \notin Inside
  BY <1>1 DEF TimeInv, InsideHolds, Inside, Writing
<1>4. r.pc = (IF WriteDate(t) THEN "time" ELSE "clear") /\ r.time = thread[t].time
  BY OneThread DEF Fields
<1> HIDE DEF r
<1>5. DOMAIN thread' = Threads /\ thread'[t] = r /\ \A u \in Threads : u # t => thread'[u] = thread[u]
  BY <1>1 DEF TimeInv, Shapes
<1>6. v \in Slots /\ DOMAIN TimeStringRingBuffer = Slots /\ DOMAIN c = {"stamp", "date", "time"}
  BY DEF TimeInv, Shapes
<1>7. /\ \A k \in Slots : TimeStringRingBuffer'[k].stamp = TimeStringRingBuffer[k].stamp
      /\ \A k \in Slots : k # v => TimeStringRingBuffer'[k] = TimeStringRingBuffer[k]
      /\ WriteDate(t) => TimeStringRingBuffer'[v].date = DateText(c.stamp)
      /\ ~WriteDate(t) => /\ TimeStringRingBuffer'[v].date = c.date
                          /\ TimeStringRingBuffer'[v].time = TimeText(c.stamp)
  <2>1. CASE WriteDate(t)
    <3>1. TimeStringRingBuffer' = [TimeStringRingBuffer EXCEPT ![v]["date"] = DateText(c.stamp)]
      BY <1>2, <2>1 DEF WriteDate, Slot
    <3>2. TimeStringRingBuffer' = [TimeStringRingBuffer EXCEPT ![v] = [c EXCEPT !["date"] = DateText(c.stamp)]]
      BY <3>1
    <3> QED  BY <1>6, <2>1, <3>2
  <2>2. CASE ~WriteDate(t)
    <3>1. TimeStringRingBuffer' = [TimeStringRingBuffer EXCEPT ![v]["time"] = TimeText(c.stamp)]
      BY <1>2, <2>2 DEF WriteTime, Slot
    <3>2. TimeStringRingBuffer' = [TimeStringRingBuffer EXCEPT ![v] = [c EXCEPT !["time"] = TimeText(c.stamp)]]
      BY <3>1
    <3> QED  BY <1>6, <2>2, <3>2
  <2> QED  BY <2>1, <2>2
<1>8. \A x : DateText(x)' = DateText(x) /\ TimeText(x)' = TimeText(x)
  BY <1>1 DEF DateText, TimeText, Moment
<1>9. \A u \in Threads : u # t => thread'[u].pc \notin Writing  BY <1>3, <1>5
<1>10. TextsOfStamps'
  <2>1. Current'.stamp = c.stamp /\ Current'.date = TimeStringRingBuffer'[v].date
        /\ Current'.time = TimeStringRingBuffer'[v].time
    BY <1>1, <1>6, <1>7
  <2>2. \A k \in Slots : k # TimestampVersion' /\ TimeStringRingBuffer'[k].stamp # -1 =>
          /\ TimeStringRingBuffer'[k].date = DateText(TimeStringRingBuffer'[k].stamp)
          /\ TimeStringRingBuffer'[k].time = TimeText(TimeStringRingBuffer'[k].stamp)
    BY <1>1, <1>7 DEF TextInv, TextsOfStamps
  <2>3. Current'.date = DateText(c.stamp)
    <3>1. CASE WriteDate(t)  BY <1>7, <2>1, <3>1
    <3>2. CASE ~WriteDate(t)
      <4>1. \A u \in Threads : thread[u].pc # "date"  BY <1>1, <1>3, <3>2 DEF Writing
      <4>2. c.date = DateText(c.stamp)  BY <4>1 DEF TextInv, TextsOfStamps
      <4> QED  BY <1>7, <2>1, <3>2, <4>2
    <3> QED  BY <3>1, <3>2
  <2>4. (\A u \in Threads : thread'[u].pc \notin Writing) => Current'.time = TimeText(c.stamp)
    BY <1>4, <1>5, <1>7, <2>1 DEF Writing
  <2>5. \A u \in Threads : thread'[u].pc \in Writing => thread'[u].time = Current'.stamp
    BY <1>2, <1>4, <1>5, <1>9, <2>1
  <2> QED  BY <1>1, <1>2, <1>8, <2>1, <2>2, <2>3, <2>4, <2>5 DEF TextsOfStamps
<1>11. ASSUME NEW u \in Threads PROVE ReaderFits(thread[u])'
  <2>1. CASE u = t
    BY <1>4, <1>5, <2>1 DEF ReaderFits, Reading
  <2>2. CASE u # t
    <3>1. thread'[u] = thread[u] /\ ReaderFits(thread[u]) /\ thread[u].seen \in Slots
      BY <1>5, <2>2, OneThread DEF TextInv
    <3>2. thread[u].pc \in Reading => thread[u].laps # 0
      BY <1>1, <3>1 DEF ReaderFits, Writing
    <3> QED  BY <1>1, <1>7, <1>8, <3>1, <3>2 DEF ReaderFits
  <2> QED  BY <2>1, <2>2
<1> QED  BY <1>10, <1>11 DEF TextInv

\* The slot that was current holds its texts, and every reader is one more behind
LEMMA TextAdvance == ASSUME TimeInv, TextInv, NEW t \in Threads, Advance(t) PROVE TextInv'
<1> DEFINE v == Following(TimestampVersion)
           s == thread[t].time
<1>1. /\ thread[t].pc = "advance" /\ TimestampVersion' = v /\ origin' = origin
      /\ TimeStringRingBuffer' = [TimeStringRingBuffer EXCEPT ![v].stamp = s]
  BY DEF Advance
<1>2. v \in Slots  BY FollowingInSlots DEF TimeInv, Shapes
<1>3. s \in Nat
  <2>1. s = Second(HighResolutionTimestamp) /\ HighResolutionTimestamp \in Nat
    BY <1>1 DEF TimeInv, ClockRead, Shapes
  <2> QED  BY <2>1, SecondGrows
<1>4. \A u \in Threads : u # t => thread[u].pc \notin Inside
  BY <1>1 DEF TimeInv, InsideHolds, Inside
<1>5. \A u \in Threads : thread[u].pc \notin Writing  BY <1>1, <1>4 DEF Inside, Writing
<1>6. \A k \in Slots : TimeStringRingBuffer[k].stamp # -1 =>
        /\ TimeStringRingBuffer[k].date = DateText(TimeStringRingBuffer[k].stamp)
        /\ TimeStringRingBuffer[k].time = TimeText(TimeStringRingBuffer[k].stamp)
  <2>1. \A u \in Threads : thread[u].pc # "date"  BY <1>5 DEF Writing
  <2> QED  BY <1>5, <2>1 DEF TextInv, TextsOfStamps
<1>7. /\ TimeStringRingBuffer'[v].stamp = s
      /\ \A k \in Slots : k # v => TimeStringRingBuffer'[k] = TimeStringRingBuffer[k]
  BY <1>1, <1>2 DEF TimeInv, Shapes
<1>8. \A u \in Threads : thread'[u] =
        IF u = t THEN [thread[t] EXCEPT !.pc = "date"]
        ELSE IF thread[u].pc \in Reading /\ thread[u].laps < NUM_TIME_SLOT
        THEN [thread[u] EXCEPT !.laps = @ + 1] ELSE thread[u]
  BY DEF Advance, Reading
<1>9. \A x : DateText(x)' = DateText(x) /\ TimeText(x)' = TimeText(x)
  BY <1>1 DEF DateText, TimeText, Moment
<1>10. thread'[t].pc = "date" /\ thread'[t].time = s  BY <1>8, OneThread DEF Fields
<1>11. \A u \in Threads : u # t => thread'[u].pc = thread[u].pc  BY <1>8, OneThread DEF Fields
<1>12. Current'.stamp = s  BY <1>1, <1>7
<1> HIDE DEF v, s
<1>13. TextsOfStamps'
  <2>1. origin' \in Origins  BY <1>1 DEF TextInv, TextsOfStamps
  <2>2. \A k \in Slots : k # TimestampVersion' /\ TimeStringRingBuffer'[k].stamp # -1 =>
          /\ TimeStringRingBuffer'[k].date = DateText(TimeStringRingBuffer'[k].stamp)
          /\ TimeStringRingBuffer'[k].time = TimeText(TimeStringRingBuffer'[k].stamp)
    BY <1>1, <1>6, <1>7
  <2>3. ~ \A u \in Threads : thread'[u].pc # "date"  BY <1>10
  <2>4. ~ \A u \in Threads : thread'[u].pc \notin Writing  BY <1>10 DEF Writing
  <2>5. \A u \in Threads : thread'[u].pc \in Writing => thread'[u].time = Current'.stamp
    BY <1>5, <1>10, <1>11, <1>12
  <2> QED  BY <1>3, <1>9, <1>12, <2>1, <2>2, <2>3, <2>4, <2>5 DEF TextsOfStamps
<1>14. ASSUME NEW u \in Threads PROVE ReaderFits(thread[u])'
  <2>1. CASE u = t  BY <1>10, <2>1 DEF ReaderFits, Reading
  <2>2. CASE u # t /\ ~(thread[u].pc \in Reading /\ thread[u].laps < NUM_TIME_SLOT)
    <3>1. thread'[u] = thread[u] /\ ReaderFits(thread[u])  BY <1>8, <2>2 DEF TextInv
    <3>2. thread[u].pc \in Reading => thread[u].laps # 0  BY <2>2, TimeAssumption
    <3> QED  BY <1>9, <2>2, <3>1, <3>2 DEF ReaderFits, Reading
  <2>3. CASE u # t /\ thread[u].pc \in Reading /\ thread[u].laps < NUM_TIME_SLOT
    <3> DEFINE r == thread[u]
               q == [r EXCEPT !.laps = @ + 1]
    <3>1. /\ thread'[u] = q /\ ReaderFits(r) /\ r.seen \in Slots /\ DOMAIN r = Fields
      BY <1>8, <2>3, OneThread DEF TextInv
    <3>2. /\ q.pc = r.pc /\ q.told = r.told /\ q.seen = r.seen /\ q.copy = r.copy /\ q.laps = r.laps + 1
      BY <3>1 DEF Fields
    <3>3. r.laps \in Nat /\ r.told \in Nat /\ TimestampVersion = (r.seen + r.laps) % NUM_TIME_SLOT
          /\ TimeStringRingBuffer[r.seen].stamp = r.told
      BY <2>3, <3>1 DEF ReaderFits
    <3>4. v = (r.seen + (r.laps + 1)) % NUM_TIME_SLOT  BY <3>1, <3>3, OneMore DEF v
    <3>5. q.laps < NUM_TIME_SLOT => TimeStringRingBuffer'[q.seen].stamp = q.told
      <4>1. SUFFICES ASSUME q.laps < NUM_TIME_SLOT PROVE TimeStringRingBuffer'[r.seen].stamp = r.told
        BY <3>2
      <4>2. r.laps + 1 \in Nat /\ r.laps + 1 < NUM_TIME_SLOT /\ r.laps + 1 # 0  BY <3>2, <3>3, <4>1
      <4>3. v # r.seen  BY <3>1, <3>4, <4>2, NotRound
      <4> QED  BY <1>7, <3>1, <3>3, <4>3
    <3>6. r.pc = "rest" => r.copy = DateText(r.told)  BY <2>3, <3>1 DEF ReaderFits
    <3> HIDE DEF q
    <3>7. q.pc \in Reading /\ q.laps \in Nat /\ q.laps # 0  BY <2>3, <3>2, <3>3
    <3> QED  BY <1>1, <1>9, <3>1, <3>2, <3>3, <3>4, <3>5, <3>6, <3>7 DEF ReaderFits, Reading
  <2> QED  BY <2>1, <2>2, <2>3
<1> QED  BY <1>13, <1>14 DEF TextInv

LEMMA TextStep == ASSUME TimeInv, TextInv, [Next]_vars PROVE TextInv'
<1>1. CASE UNCHANGED vars \/ Tick
  <2>1. UNCHANGED <<origin, TimestampVersion, TimeStringRingBuffer, thread>>  BY <1>1 DEF vars, Tick
  <2> QED  BY <2>1 DEF TextInv, TextsOfStamps, ReaderFits, DateText, TimeText, Moment
<1>2. ASSUME NEW t \in Threads,
             \/ \E kind \in Kinds : Call(t, kind)
             \/ \E n \in 1..MaxSleep : Sleep(t, n)
             \/ TakeLock(t) \/ ThreadStep(t) \/ Wake(t) \/ TimerHandle(t)
      PROVE  TextInv'
  BY <1>2, TextUntouched, TextReadOut, TextSignal, TextCopied, TextFetched, TextWritten, TextAdvance
     DEF ThreadStep
<1> QED  BY <1>1, <1>2 DEF Next

\* The second a text is about is one of a day
LEMMA DayHasSeconds == DaySeconds \in Nat /\ DaySeconds > 0
BY DEF DaySeconds

LEMMA DaysDivide ==
    ASSUME NEW n \in Nat PROVE n \div DaySeconds \in Nat /\ n % DaySeconds \in 0..(DaySeconds - 1)
BY DayHasSeconds

LEMMA CappedFits ==
    ASSUME NEW m, m.days \in Nat, m.second \in 0..(DaySeconds - 1)
    PROVE  Capped(m).days \in Nat /\ Capped(m).second \in 0..(DaySeconds - 1)
<1>1. CASE m.days > LastDay
  <2>1. Capped(m) = [days |-> LastDay, second |-> DaySeconds - 1]  BY <1>1 DEF Capped
  <2>2. LastDay \in Nat  BY DEF LastDay
  <2>3. DaySeconds \in Nat /\ DaySeconds > 0  BY DayHasSeconds
  <2>4. DaySeconds - 1 \in 0..(DaySeconds - 1)  BY <2>3
  <2> QED  BY <2>1, <2>2, <2>4
<1>2. CASE ~(m.days > LastDay)
  BY <1>2 DEF Capped
<1> QED  BY <1>1, <1>2

LEMMA MomentOfDay ==
    ASSUME NEW s \in Nat, origin.days \in Nat, origin.second \in Nat
    PROVE  Capped(Moment(s)).days \in Nat /\ Capped(Moment(s)).second \in 0..(DaySeconds - 1)
<1> DEFINE at == origin.second + s
<1>1. at \in Nat  OBVIOUS
<1>2. Moment(s) = [days |-> origin.days + at \div DaySeconds, second |-> at % DaySeconds]  BY DEF Moment
<1> HIDE DEF at
<1>3. at \div DaySeconds \in Nat /\ at % DaySeconds \in 0..(DaySeconds - 1)  BY <1>1, DaysDivide
<1>4. Moment(s).days = origin.days + at \div DaySeconds /\ Moment(s).second = at % DaySeconds  BY <1>2
<1>5. Moment(s).days \in Nat /\ Moment(s).second \in 0..(DaySeconds - 1)  BY <1>3, <1>4
<1> QED  BY <1>5, CappedFits

\* What a text must say
TextSays(text, moment) ==
    /\ IsDateOf(text.date, moment.days)
    /\ text.time.hour * 3600 + text.time.minute * 60 + text.time.second = moment.second
    /\ text.time.minute \in 0..59 /\ text.time.second \in 0..59

\* A text is in one piece and says the second its reader asked in, by the calendar,
\* when the ring has not come round to the slot in between (Time.cpp:124-190 and
\* 227-275): for any number of threads and slots, from any second of any day
THEOREM TextsAreWhole == Spec => []TextIsWhole
<1>1. TextInv => TextIsWhole
  <2> SUFFICES ASSUME TextInv, NEW t \in Threads, thread[t].pc = "copied", thread[t].laps < NUM_TIME_SLOT
               PROVE  TextSays(thread[t].copy, Capped(Moment(thread[t].told)))
    BY DEF TextIsWhole, TextSays
  <2> DEFINE told == thread[t].told
             instant == Capped(Moment(told))
             copy == thread[t].copy
  <2>1. told \in Nat /\ copy = [date |-> DateText(told), time |-> TimeText(told)]
    BY DEF TextInv, ReaderFits
  <2>2. origin.days \in Nat /\ origin.second \in Nat
    BY TimeAssumption DEF TextInv, TextsOfStamps
  <2>3. instant.days \in Nat /\ instant.second \in 0..(DaySeconds - 1)
    <3> HIDE DEF told
    <3> QED  BY <2>1, <2>2, MomentOfDay
  <2>4. copy.date = Date(instant.days) /\ copy.time = TimeOfDay(instant.second)
    <3> HIDE DEF told, copy
    <3> QED  BY <2>1 DEF DateText, TimeText
  <2> SUFFICES TextSays(copy, instant)
    OBVIOUS
  <2> HIDE DEF told, instant, copy
  <2>5. IsDateOf(Date(instant.days), instant.days)  BY <2>3, CalendarIsGregorian
  <2>6. /\ TimeOfDay(instant.second).hour * 3600 + TimeOfDay(instant.second).minute * 60
             + TimeOfDay(instant.second).second = instant.second
        /\ TimeOfDay(instant.second).minute \in 0..59 /\ TimeOfDay(instant.second).second \in 0..59
    BY <2>3, TimeAddsUp
  <2> QED  BY <2>4, <2>5, <2>6 DEF TextSays
<1>2. Init => TimeInv /\ TextInv  BY InitTimeInv, InitTextInv
<1>3. TimeInv /\ TextInv /\ [Next]_vars => TextInv'  BY TextStep
<1> QED  BY <1>1, <1>2, <1>3, TimeInvariance, PTL DEF Spec

=========================

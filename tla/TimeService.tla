------------------------------ MODULE TimeService ------------------------------
(* Time.cpp: SIGALRM raises a flag; the next thread that asks for the time     *)
(* formats it, under Lock, into the next slot of a ring, and every thread      *)
(* copies its text from the slot it was told after it has released the lock.   *)
EXTENDS Calendar, FiniteSets

CONSTANTS
    Threads,           \* threads that ask for the time
    NUM_TIME_SLOT,     \* slots of the ring, 128 in the code
    Origins,           \* moments [days, second] at which the clock may start
    PerSecond,         \* clock readings per second, in place of a million
    MaxNow,            \* bound on the clock
    MaxSleep,          \* bound on a sleep
    None

ASSUME TimeAssumption ==
    /\ NUM_TIME_SLOT \in Nat \ {0} /\ PerSecond \in Nat \ {0}
    /\ MaxNow \in Nat /\ MaxSleep \in Nat
    /\ None \notin Threads
    /\ \A o \in Origins : o.days \in Nat /\ o.second \in 0..(DaySeconds - 1)

VARIABLES
    origin,                  \* when the clock started
    now,                     \* the clock gettimeofday reads
    UpdateTimestamp,         \* raised by SIGALRM
    Lock,                    \* holder, or None
    TimestampVersion,
    TimeStringRingBuffer,
    HighResolutionTimestamp,
    thread                   \* what each thread is doing

shared == <<UpdateTimestamp, Lock, TimestampVersion, TimeStringRingBuffer, HighResolutionTimestamp>>
vars == <<origin, now, shared, thread>>

Slots == 0..(NUM_TIME_SLOT - 1)
Current == TimeStringRingBuffer[TimestampVersion]

\* tv_sec, counted from the origin, and the moment of the day it is
Second(t) == t \div PerSecond
Moment(s) == LET t == origin.second + s
             IN [days |-> origin.days + t \div DaySeconds, second |-> t % DaySeconds]

\* The five texts of a slot all hold a date and, behind it, a time of day
DateText(s) == Date(Capped(Moment(s)).days)
TimeText(s) == TimeOfDay(Capped(Moment(s)).second)
Blank == [stamp |-> -1, date |-> <<>>, time |-> <<>>]

Kinds == {"GetHighResolutionTimestamp", "GetTimeStamp", "WriteTime"}
Idle == [pc |-> "idle", kind |-> None, time |-> 0, seen |-> 0, told |-> 0, laps |-> 0,
         copy |-> <<>>, answer |-> 0, begun |-> 0, asked |-> 0, since |-> 0, rest |-> 0]
Done(t, answer) == thread' = [thread EXCEPT ![t] = [Idle EXCEPT !.answer = answer]]

-------------------------------------------------------------------------------
\* After TimeModuleInit, whose UpdateTimeString runs before there are threads
Init ==
    /\ origin \in Origins
    /\ now = 0
    /\ UpdateTimestamp = FALSE
    /\ Lock = None
    /\ TimestampVersion = 1 % NUM_TIME_SLOT
    /\ TimeStringRingBuffer =
         [k \in Slots |-> IF k = TimestampVersion
                          THEN [stamp |-> 0, date |-> DateText(0), time |-> TimeText(0)] ELSE Blank]
    /\ HighResolutionTimestamp = 0
    /\ thread = [t \in Threads |-> Idle]

To(t, pc) == thread' = [thread EXCEPT ![t].pc = pc]
Slot(field, value) ==
    TimeStringRingBuffer' = [TimeStringRingBuffer EXCEPT ![TimestampVersion][field] = value]

\* A thread asks; one kind stands for the five texts
Call(t, kind) ==
    /\ thread[t].pc = "idle"
    /\ thread' = [thread EXCEPT ![t].pc = "lock", ![t].kind = kind]
    /\ UNCHANGED <<origin, now, shared>>

\* The lock is taken and the flag looked at; a bug: nobody looks at the flag
NotAsked == FALSE
Asked == UpdateTimestamp

TakeLock(t) ==
    /\ thread[t].pc = "lock"
    /\ Lock = None
    /\ Lock' = t
    /\ To(t, IF Asked THEN "clock" ELSE "fetch")
    /\ UNCHANGED <<origin, now, UpdateTimestamp, TimestampVersion, TimeStringRingBuffer,
                   HighResolutionTimestamp>>

\* UpdateTimeString, up to the return when the second is still the same, which
\* leaves the flag set
ReadClock(t) ==
    /\ thread[t].pc = "clock"
    /\ HighResolutionTimestamp' = now
    /\ thread' = [thread EXCEPT ![t].time = Second(now),
                                ![t].pc = IF Second(now) = Current.stamp THEN "fetch" ELSE "advance"]
    /\ UNCHANGED <<origin, now, UpdateTimestamp, Lock, TimestampVersion,
                   TimeStringRingBuffer>>

\* The next slot is current and has its timestamp; laps counts, for threads
\* that hold a slot number, how often the ring went on since.  A bug: the texts
\* are written over in place
InPlace(version) == version
Following(version) == (version + 1) % NUM_TIME_SLOT

Advance(t) ==
    /\ thread[t].pc = "advance"
    /\ TimestampVersion' = Following(TimestampVersion)
    /\ TimeStringRingBuffer' = [TimeStringRingBuffer EXCEPT ![TimestampVersion'].stamp = thread[t].time]
    /\ thread' = [u \in Threads |->
                    IF u = t THEN [thread[t] EXCEPT !.pc = "date"]
                    ELSE IF thread[u].pc \in {"read", "rest"} /\ thread[u].laps < NUM_TIME_SLOT
                    THEN [thread[u] EXCEPT !.laps = @ + 1] ELSE thread[u]]
    /\ UNCHANGED <<origin, now, UpdateTimestamp, Lock, HighResolutionTimestamp>>

WriteDate(t) ==
    /\ thread[t].pc = "date"
    /\ Slot("date", DateText(thread[t].time))
    /\ To(t, "time")
    /\ UNCHANGED <<origin, now, UpdateTimestamp, Lock, TimestampVersion,
                   HighResolutionTimestamp>>

WriteTime(t) ==
    /\ thread[t].pc = "time"
    /\ Slot("time", TimeText(thread[t].time))
    /\ To(t, "clear")
    /\ UNCHANGED <<origin, now, UpdateTimestamp, Lock, TimestampVersion,
                   HighResolutionTimestamp>>

\* A signal that came since the clock was read is forgotten here
ClearFlag(t) ==
    /\ thread[t].pc = "clear"
    /\ UpdateTimestamp' = FALSE
    /\ To(t, "fetch")
    /\ UNCHANGED <<origin, now, Lock, TimestampVersion, TimeStringRingBuffer,
                   HighResolutionTimestamp>>

\* The lock is released, with the slot number or the answer itself
Fetch(t) ==
    /\ thread[t].pc = "fetch"
    /\ Lock' = None
    /\ thread' = [thread EXCEPT
         ![t] = IF @.kind = "GetHighResolutionTimestamp"
                THEN [Idle EXCEPT !.answer = Second(HighResolutionTimestamp)]
                ELSE [@ EXCEPT !.pc = "read", !.seen = TimestampVersion, !.told = Current.stamp, !.laps = 0]]
    /\ UNCHANGED <<origin, now, UpdateTimestamp, TimestampVersion, TimeStringRingBuffer,
                   HighResolutionTimestamp>>

\* GetTimeStamp reads the slot it was told; a bug: the slot behind it
ToldNext(t) == (thread[t].seen + 1) % NUM_TIME_SLOT
Told(t) == thread[t].seen

ReadStamp(t) ==
    /\ thread[t].pc = "read" /\ thread[t].kind = "GetTimeStamp"
    /\ Done(t, TimeStringRingBuffer[Told(t)].stamp)
    /\ UNCHANGED <<origin, now, shared>>

\* memcpy of the text in two parts, between which the slot may be written
CopyDate(t) ==
    /\ thread[t].pc = "read" /\ thread[t].kind = "WriteTime"
    /\ thread' = [thread EXCEPT ![t].pc = "rest", ![t].copy = TimeStringRingBuffer[Told(t)].date]
    /\ UNCHANGED <<origin, now, shared>>

CopyTime(t) ==
    /\ thread[t].pc = "rest"
    /\ thread' = [thread EXCEPT
         ![t].pc = "copied", ![t].copy = [date |-> @, time |-> TimeStringRingBuffer[Told(t)].time]]
    /\ UNCHANGED <<origin, now, shared>>

Return(t) ==
    /\ thread[t].pc = "copied"
    /\ Done(t, thread[t].answer)
    /\ UNCHANGED <<origin, now, shared>>

ThreadStep(t) ==
    \/ ReadClock(t) \/ Advance(t) \/ WriteDate(t) \/ WriteTime(t) \/ ClearFlag(t) \/ Fetch(t)
    \/ ReadStamp(t) \/ CopyDate(t) \/ CopyTime(t) \/ Return(t)

-------------------------------------------------------------------------------
\* ForceSleep: nanosleep until the rest has passed
Sleep(t, n) ==
    /\ thread[t].pc = "idle"
    /\ now + n <= MaxNow
    /\ thread' = [thread EXCEPT ![t].pc = "asleep", ![t].begun = now, ![t].asked = n,
                                ![t].since = now, ![t].rest = n]
    /\ UNCHANGED <<origin, now, shared>>

\* A signal ends the nanosleep, which is called again with what is left; a bug:
\* ForceSleep returns
InterruptEnds(s) == [s EXCEPT !.pc = "copied"]
Interrupt(s) == [s EXCEPT !.rest = @ - (now - s.since), !.since = now]

Wake(t) ==
    /\ thread[t].pc = "asleep"
    /\ now - thread[t].since >= thread[t].rest
    /\ Done(t, thread[t].answer)
    /\ UNCHANGED <<origin, now, shared>>

\* SIGALRM, every TIME_RESOLUTION microseconds, handled by any thread
TimerHandle(t) ==
    /\ UpdateTimestamp' = TRUE
    /\ thread' = IF thread[t].pc = "asleep" THEN [thread EXCEPT ![t] = Interrupt(@)] ELSE thread
    /\ UNCHANGED <<origin, now, Lock, TimestampVersion, TimeStringRingBuffer, HighResolutionTimestamp>>

\* The clock is not set back
Tick ==
    /\ now < MaxNow
    /\ now' = now + 1
    /\ UNCHANGED <<origin, shared, thread>>

Next ==
    \/ \E t \in Threads : \/ \E kind \in Kinds : Call(t, kind)
                          \/ \E n \in 1..MaxSleep : Sleep(t, n)
                          \/ TakeLock(t) \/ ThreadStep(t) \/ Wake(t) \/ TimerHandle(t)
    \/ Tick

\* Threads run, the spin lock is free again and again and one that waits gets
\* it, the interval timer and the clock go on, and somebody asks for the time
Fairness ==
    /\ \A t \in Threads : /\ WF_vars(ThreadStep(t)) /\ SF_vars(TakeLock(t)) /\ WF_vars(Wake(t))
                          /\ WF_vars(Call(t, "GetTimeStamp"))
    /\ WF_vars(\E t \in Threads : TimerHandle(t))
    /\ WF_vars(Tick)

Spec == Init /\ [][Next]_vars /\ Fairness

-------------------------------------------------------------------------------
\* A thread that reads its slot before the ring has come round to it again has
\* a text in one piece, and the text is the date and the time of day, by the
\* calendar, of the second it asked in (Time.cpp:124-190 copies without Lock
\* what Time.cpp:227-275 writes); behind the year 9999 it is its last second
TextIsWhole ==
    \A t \in Threads :
        thread[t].pc = "copied" /\ thread[t].laps < NUM_TIME_SLOT =>
            LET moment == Capped(Moment(thread[t].told))
                text == thread[t].copy
            IN /\ IsDateOf(text.date, moment.days)
               /\ text.time.hour * 3600 + text.time.minute * 60 + text.time.second = moment.second
               /\ text.time.minute \in 0..59 /\ text.time.second \in 0..59

\* What a thread is answered never goes back and is never in the future, though
\* timestamps are read from a ring without Lock, even when the ring came round
\* (Time.cpp:109-129), and seconds and microseconds are read at different places
TimeGoesForward ==
    [][\A t \in Threads : /\ thread'[t].answer <= Second(now)
                          /\ thread[t].pc # "idle" /\ thread'[t].pc = "idle"
                               => thread[t].answer <= thread'[t].answer]_thread

\* Whenever the clock enters a second the texts get there, though signals are
\* forgotten and the update returns early (Time.cpp:223, 277)
TimeCatchesUp ==
    \A s \in 0..Second(MaxNow) : (Second(now) = s) ~> (Current.stamp >= s)

\* A sleep ends, and not before its time, however often signals interrupt it
\* (Time.cpp:287-291)
SleepsAsAsked ==
    /\ [][\A t \in Threads : thread[t].pc = "asleep" /\ thread'[t].pc # "asleep"
                                => now - thread[t].begun >= thread[t].asked]_thread
    /\ \A t \in Threads : thread[t].pc = "asleep" ~> thread[t].pc # "asleep"
===============================================================================

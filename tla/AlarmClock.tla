------------------------------ MODULE AlarmClock ------------------------------
(***************************************************************************)
(* The time of an alarm.  Its thread calls localtime, stores the time of   *)
(* day at which the alarm will ring (MysqlDealTask, DB_TASK_START_ALARM)   *)
(* and later computes the deadline it waits for (WaitTime).  localtime     *)
(* returns a pointer to one static struct tm of the C library, which log() *)
(* uses as well: log.c defines its own localtime_r, a call of localtime    *)
(* and a copy.  Every thread of the process logs.                          *)
(*                                                                         *)
(* Time is in seconds.  A minute has SECONDS seconds and an hour SECONDS   *)
(* minutes; the time zone is UTC.                                          *)
(***************************************************************************)
EXTENDS Integers

CONSTANTS Alarms,      \* threads of alarms
          Loggers,     \* other threads that write a line to the log
          Settings,    \* the mHour and mMinute of alarms
          SECONDS,     \* 60
          HOURS,       \* 24
          Width,       \* 2^32: mHour and mMinute are unsigned
          MaxNow       \* bound: the last second of the clock

Threads == Alarms \cup Loggers

ASSUME ClockAssumption ==
  /\ Alarms \cap Loggers = {}
  /\ SECONDS \in Nat \ {0} /\ HOURS \in Nat \ {0} /\ MaxNow \in Nat
  /\ Width \in Nat \ {0}
  /\ Settings \subseteq [mHour : 0 .. Width - 1, mMinute : 0 .. Width - 1]

VARIABLES
  now,      \* the clock
  date,     \* the static struct tm: tm_hour and tm_min
  pc,       \* where each thread is
  t,        \* its time_t
  read,     \* what it read of date
  setting,  \* the mHour and mMinute of its alarm
  stored,   \* AlarmTime of its row in StartAlarm: tHour and tMin
  armed,    \* when it computed the deadline
  ts,       \* the deadline
  mixed     \* history: date was written between its localtime and its last look

vars == <<now, date, pc, t, read, setting, stored, armed, ts, mixed>>

\* convert, half: in localtime.  hour, minute: reading date.  save, set, wait, rung:
\* the alarm's time is known, stored, waited for, over.
Places == {"idle", "convert", "half", "hour", "minute", "save", "set", "wait", "rung"}

Zero == [hour |-> 0, min |-> 0]

Init == /\ now \in 0 .. MaxNow
        /\ date = Zero
        /\ pc = [p \in Threads |-> "idle"]
        /\ t = [p \in Threads |-> 0]
        /\ read = [p \in Threads |-> Zero]
        /\ setting \in [Alarms -> Settings]
        /\ stored = [a \in Alarms |-> Zero]
        /\ armed = [a \in Alarms |-> 0]
        /\ ts = [a \in Alarms |-> 0]
        /\ mixed = [p \in Threads |-> FALSE]

\* What localtime makes of a time_t.
Fields(s) == [hour |-> (s \div (SECONDS * SECONDS)) % HOURS, min |-> (s \div SECONDS) % SECONDS]

\* From unsigned int to int.
Signed(u) == LET n == u % Width IN IF 2 * n < Width THEN n ELSE n - Width

(* Faulty variants of the definitions below: no specification uses them.   *)

\* Reducing the hour with > instead of >=.
ReducedLate(h) == IF h > HOURS THEN h - HOURS ELSE h

\* The minutes carried before they are compared.
CarriedAlways(h, m) == IF m >= SECONDS THEN [hour |-> h, min |-> m - SECONDS]
                                       ELSE [hour |-> h, min |-> m]

\* A deadline in minutes.
DelayInMinutes(w) == (w.mHour * SECONDS + w.mMinute) % Width

\* A thread that keeps the pointer of an earlier localtime.
ConvertKept(p) == /\ pc[p] = "convert" /\ \A q \in Threads : pc[q] # "half"
                  /\ pc' = [pc EXCEPT ![p] = "hour"]
                  /\ UNCHANGED <<now, date, t, read, setting, stored, armed, ts, mixed>>

-----------------------------------------------------------------------------
Tick == /\ now < MaxNow
        /\ now' = now + 1
        /\ UNCHANGED <<date, pc, t, read, setting, stored, armed, ts, mixed>>

\* time(NULL).
TakeTime(p) == /\ pc[p] = "idle"
               /\ t' = [t EXCEPT ![p] = now]
               /\ pc' = [pc EXCEPT ![p] = "convert"]
               /\ UNCHANGED <<now, date, read, setting, stored, armed, ts, mixed>>

\* Who has called localtime and has not read all he wants.
Reading(p) == pc[p] \in {"hour", "minute"}

Disturbs(p) == mixed' = [q \in Threads |-> mixed[q] \/ (q # p /\ Reading(q))]

\* localtime fills in date under a lock of the C library, tm_hour before tm_min;
\* whoever reads date does so without it.
Convert(p) == /\ pc[p] = "convert" /\ \A q \in Threads : pc[q] # "half"
              /\ date' = [date EXCEPT !.hour = Fields(t[p]).hour]
              /\ Disturbs(p)
              /\ pc' = [pc EXCEPT ![p] = "half"]
              /\ UNCHANGED <<now, t, read, setting, stored, armed, ts>>

Converted(p) == /\ pc[p] = "half"
                /\ date' = [date EXCEPT !.min = Fields(t[p]).min]
                /\ Disturbs(p)
                /\ pc' = [pc EXCEPT ![p] = "hour"]
                /\ UNCHANGED <<now, t, read, setting, stored, armed, ts>>

ReadHour(p) == /\ pc[p] = "hour"
               /\ read' = [read EXCEPT ![p].hour = date.hour]
               /\ pc' = [pc EXCEPT ![p] = "minute"]
               /\ UNCHANGED <<now, date, t, setting, stored, armed, ts, mixed>>

ReadMinute(p) == /\ pc[p] = "minute"
                 /\ read' = [read EXCEPT ![p].min = date.min]
                 /\ pc' = [pc EXCEPT ![p] = "save"]
                 /\ UNCHANGED <<now, date, t, setting, stored, armed, ts, mixed>>

\* The line is printed with what was copied, and log() returns.
Printed(l) == /\ pc[l] = "save"
              /\ pc' = [pc EXCEPT ![l] = "idle"]
              /\ t' = [t EXCEPT ![l] = 0]
              /\ read' = [read EXCEPT ![l] = Zero]
              /\ mixed' = [mixed EXCEPT ![l] = FALSE]
              /\ UNCHANGED <<now, date, setting, stored, armed, ts>>

Reduced(h) == IF h >= HOURS THEN h - HOURS ELSE h

Carried(h, m) == IF m >= SECONDS THEN [hour |-> h + 1, min |-> m - SECONDS]
                                 ELSE [hour |-> h, min |-> m]

\* tHour and tMin.
AlarmTime(d, w) == Carried(Reduced(Signed(d.hour + w.mHour)), Signed(d.min + w.mMinute))

\* The query of DB_TASK_START_ALARM.
StoreTime(a) == /\ pc[a] = "save"
                /\ stored' = [stored EXCEPT ![a] = AlarmTime(read[a], setting[a])]
                /\ pc' = [pc EXCEPT ![a] = "set"]
                /\ UNCHANGED <<now, date, t, read, setting, armed, ts, mixed>>

Delay(w) == (w.mHour * SECONDS * SECONDS + w.mMinute * SECONDS) % Width

\* The first WaitTime.
SetTimer(a) == /\ pc[a] = "set"
               /\ armed' = [armed EXCEPT ![a] = now]
               /\ ts' = [ts EXCEPT ![a] = now + Delay(setting[a])]
               /\ pc' = [pc EXCEPT ![a] = "wait"]
               /\ UNCHANGED <<now, date, t, read, setting, stored, mixed>>

Ring(a) == /\ pc[a] = "wait" /\ now >= ts[a]
           /\ pc' = [pc EXCEPT ![a] = "rung"]
           /\ UNCHANGED <<now, date, t, read, setting, stored, armed, ts, mixed>>

Show(p) == TakeTime(p) \/ Convert(p) \/ Converted(p) \/ ReadHour(p) \/ ReadMinute(p)

Next == \/ Tick
        \/ \E p \in Threads : Show(p)
        \/ \E l \in Loggers : Printed(l)
        \/ \E a \in Alarms : StoreTime(a) \/ SetTimer(a) \/ Ring(a)

Spec == Init /\ [][Next]_vars

-----------------------------------------------------------------------------
(***************************************************************************)
(* Properties.                                                             *)
(***************************************************************************)

Clock == [hour : 0 .. HOURS - 1, min : 0 .. SECONDS - 1]

TypeOK == /\ now \in Nat
          /\ date \in Clock
          /\ pc \in [Threads -> Places]
          /\ t \in [Threads -> Nat]
          /\ read \in [Threads -> Clock]
          /\ setting \in [Alarms -> Settings]
          /\ stored \in [Alarms -> [hour : Int, min : Int]]
          /\ armed \in [Alarms -> Nat] /\ ts \in [Alarms -> Nat]
          /\ mixed \in [Threads -> BOOLEAN]

\* A thread that nobody disturbed between localtime and its last look has the time
\* it asked for.
ReadsOwnTime == \A p \in Threads : pc[p] = "save" /\ ~mixed[p] => read[p] = Fields(t[p])

Saved(a) == pc[a] \in {"set", "wait", "rung"}

\* The settings no arithmetic of the alarm's thread wraps around with.
Fits(w) == /\ 2 * (HOURS + w.mHour) < Width /\ 2 * (SECONDS + w.mMinute) < Width
           /\ w.mHour * SECONDS * SECONDS + w.mMinute * SECONDS < Width

Minutes(d) == d.hour * SECONDS + d.min
Day        == HOURS * SECONDS

\* The time of day that was stored is the time shown by localtime plus the delay,
\* less a day where the hours of both make one.
StoredTime == \A a \in Alarms : Saved(a) /\ ~mixed[a] /\ Fits(setting[a]) =>
                \E k \in {0, 1} :
                  Minutes(stored[a]) + k * Day
                    = Minutes(Fields(t[a])) + setting[a].mHour * SECONDS + setting[a].mMinute

\* For hours of a day and minutes of an hour it is a time of day, but for the minutes
\* after midnight, which are stored as hour 24 when the minutes lead into them.
TimeOfDay == \A a \in Alarms :
               Saved(a) /\ setting[a].mHour < HOURS /\ setting[a].mMinute < SECONDS /\ Fits(setting[a]) =>
                 /\ stored[a] \in [hour : 0 .. HOURS, min : 0 .. SECONDS - 1]
                 /\ stored[a].hour = HOURS => /\ read[a].hour + setting[a].mHour = HOURS - 1
                                              /\ read[a].min + setting[a].mMinute >= SECONDS

\* The alarm rings at the time stored, or later by what the start took.
RingsAsStored == \A a \in Alarms : pc[a] \in {"wait", "rung"} /\ ~mixed[a] /\ Fits(setting[a]) =>
                   /\ t[a] <= armed[a]
                   /\ Minutes(stored[a]) % Day = Minutes(Fields(ts[a] - (armed[a] - t[a])))
                   /\ pc[a] = "rung" => now >= ts[a]
=============================================================================

-------------------------- MODULE AlarmClockProofs --------------------------
(***************************************************************************)
(* Proofs about AlarmClock, for every number of threads, every setting,    *)
(* every length of minutes, hours and days and every integer width.        *)
(***************************************************************************)
EXTENDS AlarmClock, TLAPS

\* A thread that is filling in date has written the hour, and no other thread is.
Filling == \A p \in Threads : pc[p] = "half" =>
             /\ date.hour = Fields(t[p]).hour
             /\ \A q \in Threads : pc[q] = "half" => q = p

\* What an undisturbed thread looks at is what it converted.
Looking == \A p \in Threads : ~mixed[p] =>
             /\ Reading(p) => date = Fields(t[p])
             /\ pc[p] = "minute" => read[p].hour = Fields(t[p]).hour
             /\ pc[p] \in {"save", "set", "wait", "rung"} => read[p] = Fields(t[p])

\* What was stored was computed from what was read.
Computed == \A a \in Alarms : Saved(a) => stored[a] = AlarmTime(read[a], setting[a])

IInv == TypeOK /\ Filling /\ Looking /\ Computed

-----------------------------------------------------------------------------
LEMMA DivNat ==
  ASSUME NEW m \in Nat, NEW n \in Nat \ {0}
  PROVE  m \div n \in Nat /\ m % n \in 0 .. n - 1
OBVIOUS

LEMMA FieldsType == \A s \in Nat : Fields(s) \in Clock
<1> SUFFICES ASSUME NEW s \in Nat PROVE Fields(s) \in Clock
  OBVIOUS
<1>1. SECONDS * SECONDS \in Nat \ {0} /\ SECONDS \in Nat \ {0} /\ HOURS \in Nat \ {0}
  BY ClockAssumption
<1> DEFINE h == s \div (SECONDS * SECONDS)
<1> DEFINE m == s \div SECONDS
<1>2. h \in Nat /\ m \in Nat
  BY <1>1, DivNat
<1> HIDE DEF h, m
<1>3. h % HOURS \in 0 .. HOURS - 1 /\ m % SECONDS \in 0 .. SECONDS - 1
  BY <1>1, <1>2, DivNat
<1>4. Fields(s) = [hour |-> h % HOURS, min |-> m % SECONDS]
  BY DEF Fields, h, m
<1> QED
  BY <1>3, <1>4 DEF Clock

LEMMA ZeroType == Zero \in Clock
  BY ClockAssumption DEF Zero, Clock

LEMMA SettingType == \A w \in Settings : w.mHour \in Nat /\ w.mMinute \in Nat
  BY ClockAssumption

LEMMA SignedType == \A u \in Nat : Signed(u) \in Int
<1> SUFFICES ASSUME NEW u \in Nat PROVE Signed(u) \in Int
  OBVIOUS
<1>1. u % Width \in 0 .. Width - 1 /\ Width \in Nat
  BY ClockAssumption, DivNat
<1> QED
  BY <1>1 DEF Signed

LEMMA SignedSmall == \A u \in Nat : 2 * u < Width => Signed(u) = u
<1> SUFFICES ASSUME NEW u \in Nat, 2 * u < Width PROVE Signed(u) = u
  OBVIOUS
<1>1. u % Width = u
  BY ClockAssumption
<1> QED
  BY <1>1 DEF Signed

LEMMA AlarmTimeType ==
  ASSUME NEW d \in Clock, NEW w \in Settings
  PROVE  AlarmTime(d, w) \in [hour : Int, min : Int]
<1>1. d.hour + w.mHour \in Nat /\ d.min + w.mMinute \in Nat
  BY SettingType, ClockAssumption DEF Clock
<1> DEFINE h == Signed(d.hour + w.mHour)
<1> DEFINE m == Signed(d.min + w.mMinute)
<1>2. h \in Int /\ m \in Int
  BY <1>1, SignedType
<1> HIDE DEF h, m
<1>3. Reduced(h) \in Int
  BY <1>2, ClockAssumption DEF Reduced
<1>4. Carried(Reduced(h), m) \in [hour : Int, min : Int]
  BY <1>2, <1>3, ClockAssumption DEF Carried
<1> QED
  BY <1>4 DEF AlarmTime, h, m

LEMMA DelayType == \A w \in Settings : Delay(w) \in Nat
<1> SUFFICES ASSUME NEW w \in Settings PROVE Delay(w) \in Nat
  OBVIOUS
<1>1. w.mHour * SECONDS * SECONDS + w.mMinute * SECONDS \in Nat
  BY SettingType, ClockAssumption
<1> QED
  BY <1>1, DivNat, ClockAssumption DEF Delay

-----------------------------------------------------------------------------
LEMMA InitIInv == Init => IInv
<1> SUFFICES ASSUME Init PROVE IInv
  OBVIOUS
<1>1. \A p \in Threads : pc[p] = "idle"
  BY DEF Init
<1>2. now \in Nat
  BY ClockAssumption DEF Init
<1>3. TypeOK
  BY <1>2, ZeroType DEF Init, TypeOK, Places, Threads, Zero
<1>4. \A a \in Alarms : a \in Threads
  BY DEF Threads
<1>5. Filling /\ Looking /\ Computed
  BY <1>1, <1>4 DEF Filling, Looking, Reading, Computed, Saved
<1> QED
  BY <1>3, <1>5 DEF IInv

LEMMA TickKeeps ==
  ASSUME IInv, Tick
  PROVE  IInv'
<1>1. TypeOK'
  BY DEF IInv, TypeOK, Tick
<1>2. Filling' /\ Looking' /\ Computed'
  BY DEF IInv, Tick, Filling, Looking, Reading, Computed, Saved
<1> QED
  BY <1>1, <1>2 DEF IInv

LEMMA TakeTimeKeeps ==
  ASSUME IInv, NEW p \in Threads, TakeTime(p)
  PROVE  IInv'
<1> USE DEF TakeTime
<1>1. TypeOK'
  BY DEF IInv, TypeOK, Places
<1>2. /\ pc[p] = "idle" /\ pc'[p] = "convert"
      /\ \A q \in Threads \ {p} : pc'[q] = pc[q] /\ t'[q] = t[q]
  BY DEF IInv, TypeOK
<1>3. Filling'
  BY <1>2 DEF IInv, Filling
<1>4. Looking'
  BY <1>2 DEF IInv, Looking, Reading
<1>5. Computed'
  BY <1>2 DEF IInv, Computed, Saved, Threads
<1> QED
  BY <1>1, <1>3, <1>4, <1>5 DEF IInv

\* What localtime does to those who are reading.
LEMMA DisturbsAll ==
  ASSUME TypeOK, NEW p \in Threads, Disturbs(p)
  PROVE  /\ mixed' \in [Threads -> BOOLEAN]
         /\ mixed'[p] <=> mixed[p]
         /\ \A q \in Threads \ {p} : ~mixed'[q] => ~mixed[q] /\ ~Reading(q)
<1>1. \A q \in Threads : mixed'[q] <=> mixed[q] \/ (q # p /\ Reading(q))
  BY DEF Disturbs
<1>2. mixed' \in [Threads -> BOOLEAN]
  BY DEF Disturbs, TypeOK, Reading
<1> QED
  BY <1>1, <1>2

LEMMA ConvertKeeps ==
  ASSUME IInv, NEW p \in Threads, Convert(p)
  PROVE  IInv'
<1> USE DEF Convert
<1>1. /\ pc[p] = "convert" /\ pc'[p] = "half"
      /\ \A q \in Threads \ {p} : pc'[q] = pc[q]
      /\ \A q \in Threads : pc[q] # "half"
  BY DEF IInv, TypeOK
<1>2. t[p] \in Nat /\ Fields(t[p]) \in Clock
  BY FieldsType DEF IInv, TypeOK
<1>3. date' \in Clock /\ date'.hour = Fields(t[p]).hour
  BY <1>2 DEF IInv, TypeOK, Clock
<1>4. TypeOK'
  <2>1. mixed' \in [Threads -> BOOLEAN]
    BY DisturbsAll DEF IInv
  <2>2. pc' \in [Threads -> Places]
    BY DEF IInv, TypeOK, Places
  <2> QED
    BY <1>3, <2>1, <2>2 DEF IInv, TypeOK
<1>5. Filling'
  BY <1>1, <1>3 DEF IInv, Filling
<1>6. Looking'
  BY <1>1, DisturbsAll DEF IInv, Looking, Reading
<1>7. Computed'
  BY <1>1 DEF IInv, Computed, Saved, Threads
<1> QED
  BY <1>4, <1>5, <1>6, <1>7 DEF IInv

LEMMA ConvertedKeeps ==
  ASSUME IInv, NEW p \in Threads, Converted(p)
  PROVE  IInv'
<1> USE DEF Converted
<1>1. /\ pc[p] = "half" /\ pc'[p] = "hour"
      /\ \A q \in Threads \ {p} : pc'[q] = pc[q]
  BY DEF IInv, TypeOK
<1>2. t[p] \in Nat /\ Fields(t[p]) \in Clock /\ date.hour = Fields(t[p]).hour
  BY <1>1, FieldsType DEF IInv, TypeOK, Filling
<1>3. date' = Fields(t[p]) /\ date' \in Clock
  BY <1>2 DEF IInv, TypeOK, Clock
<1>4. TypeOK'
  <2>1. mixed' \in [Threads -> BOOLEAN]
    BY DisturbsAll DEF IInv
  <2>2. pc' \in [Threads -> Places]
    BY DEF IInv, TypeOK, Places
  <2> QED
    BY <1>3, <2>1, <2>2 DEF IInv, TypeOK
<1>5. Filling'
  BY <1>1 DEF IInv, Filling
<1>6. Looking'
  BY <1>1, <1>3, DisturbsAll DEF IInv, Looking, Reading
<1>7. Computed'
  BY <1>1 DEF IInv, Computed, Saved, Threads
<1> QED
  BY <1>4, <1>5, <1>6, <1>7 DEF IInv

LEMMA ReadHourKeeps ==
  ASSUME IInv, NEW p \in Threads, ReadHour(p)
  PROVE  IInv'
<1> USE DEF ReadHour
<1>1. /\ pc[p] = "hour" /\ pc'[p] = "minute"
      /\ \A q \in Threads \ {p} : pc'[q] = pc[q] /\ read'[q] = read[q]
  BY DEF IInv, TypeOK
<1>2. read'[p] \in Clock /\ read'[p].hour = date.hour
  BY DEF IInv, TypeOK, Clock
<1>3. TypeOK'
  BY <1>2 DEF IInv, TypeOK, Places
<1>4. Filling'
  BY <1>1 DEF IInv, Filling
<1>5. Looking'
  BY <1>1, <1>2 DEF IInv, Looking, Reading
<1>6. Computed'
  BY <1>1 DEF IInv, Computed, Saved, Threads
<1> QED
  BY <1>3, <1>4, <1>5, <1>6 DEF IInv

LEMMA ReadMinuteKeeps ==
  ASSUME IInv, NEW p \in Threads, ReadMinute(p)
  PROVE  IInv'
<1> USE DEF ReadMinute
<1>1. /\ pc[p] = "minute" /\ pc'[p] = "save"
      /\ \A q \in Threads \ {p} : pc'[q] = pc[q] /\ read'[q] = read[q]
  BY DEF IInv, TypeOK
<1>2. read'[p] \in Clock /\ read'[p].hour = read[p].hour /\ read'[p].min = date.min
  BY DEF IInv, TypeOK, Clock
<1>3. t[p] \in Nat /\ Fields(t[p]) \in Clock
  BY FieldsType DEF IInv, TypeOK
<1>4. ~mixed[p] => read'[p] = Fields(t[p])
  BY <1>1, <1>2, <1>3 DEF IInv, Looking, Reading, Clock
<1>5. TypeOK'
  BY <1>2 DEF IInv, TypeOK, Places
<1>6. Filling'
  BY <1>1 DEF IInv, Filling
<1>7. Looking'
  BY <1>1, <1>4 DEF IInv, Looking, Reading
<1>8. Computed'
  BY <1>1 DEF IInv, Computed, Saved, Threads
<1> QED
  BY <1>5, <1>6, <1>7, <1>8 DEF IInv

LEMMA PrintedKeeps ==
  ASSUME IInv, NEW l \in Loggers, Printed(l)
  PROVE  IInv'
<1> USE DEF Printed
<1>1. l \in Threads
  BY DEF Threads
<1>2. /\ pc[l] = "save" /\ pc'[l] = "idle"
      /\ \A q \in Threads \ {l} : pc'[q] = pc[q] /\ read'[q] = read[q] /\ t'[q] = t[q]
                                  /\ mixed'[q] = mixed[q]
  BY <1>1 DEF IInv, TypeOK
<1>3. TypeOK'
  BY ZeroType DEF IInv, TypeOK, Places
<1>4. Filling'
  BY <1>2 DEF IInv, Filling
<1>5. Looking'
  BY <1>2 DEF IInv, Looking, Reading
<1>6. Computed'
  BY <1>2 DEF IInv, Computed, Saved, Threads
<1> QED
  BY <1>3, <1>4, <1>5, <1>6 DEF IInv

LEMMA AlarmKeeps ==
  ASSUME IInv, NEW a \in Alarms, StoreTime(a) \/ SetTimer(a) \/ Ring(a)
  PROVE  IInv'
<1>1. a \in Threads
  BY DEF Threads
<1>2. /\ \A q \in Threads \ {a} : pc'[q] = pc[q]
      /\ pc[a] \in {"save", "set", "wait"} /\ pc'[a] \in {"set", "wait", "rung"}
      /\ date' = date /\ read' = read /\ t' = t /\ mixed' = mixed /\ setting' = setting
  BY <1>1 DEF IInv, TypeOK, StoreTime, SetTimer, Ring
<1>3. CASE StoreTime(a)
  <2>1. read[a] \in Clock /\ setting[a] \in Settings
    BY <1>1 DEF IInv, TypeOK
  <2>2. AlarmTime(read[a], setting[a]) \in [hour : Int, min : Int]
    BY <2>1, AlarmTimeType
  <2>3. TypeOK'
    BY <1>3, <2>2 DEF IInv, TypeOK, Places, StoreTime
  <2>4. Computed'
    BY <1>2, <1>3 DEF IInv, TypeOK, Computed, Saved, StoreTime, Threads
  <2> QED
    BY <1>2, <2>3, <2>4 DEF IInv, Filling, Looking, Reading
<1>4. CASE SetTimer(a)
  <2>1. Delay(setting[a]) \in Nat /\ now + Delay(setting[a]) \in Nat
    BY DelayType DEF IInv, TypeOK
  <2>2. TypeOK'
    BY <1>4, <2>1 DEF IInv, TypeOK, Places, SetTimer
  <2>3. Computed'
    BY <1>2, <1>4 DEF IInv, TypeOK, Computed, Saved, SetTimer, Threads
  <2> QED
    BY <1>2, <2>2, <2>3 DEF IInv, Filling, Looking, Reading
<1>5. CASE Ring(a)
  <2>1. TypeOK'
    BY <1>5 DEF IInv, TypeOK, Places, Ring
  <2>2. Computed'
    BY <1>2, <1>5 DEF IInv, TypeOK, Computed, Saved, Ring, Threads
  <2> QED
    BY <1>2, <2>1, <2>2 DEF IInv, Filling, Looking, Reading
<1> QED
  BY <1>3, <1>4, <1>5

LEMMA NextIInv == IInv /\ [Next]_vars => IInv'
<1> SUFFICES ASSUME IInv, [Next]_vars PROVE IInv'
  OBVIOUS
<1>1. CASE UNCHANGED vars
  BY <1>1 DEF vars, IInv, TypeOK, Filling, Looking, Reading, Computed, Saved
<1>2. CASE Tick
  BY <1>2, TickKeeps
<1>3. ASSUME NEW p \in Threads, Show(p) PROVE IInv'
  BY <1>3, TakeTimeKeeps, ConvertKeeps, ConvertedKeeps, ReadHourKeeps, ReadMinuteKeeps DEF Show
<1>4. ASSUME NEW l \in Loggers, Printed(l) PROVE IInv'
  BY <1>4, PrintedKeeps
<1>5. ASSUME NEW a \in Alarms, StoreTime(a) \/ SetTimer(a) \/ Ring(a) PROVE IInv'
  BY <1>5, AlarmKeeps
<1> QED
  BY <1>1, <1>2, <1>3, <1>4, <1>5 DEF Next

\* The invariant the theorems below rest on: what localtime has written belongs to
\* the thread inside it, and what was stored was computed from what was read.
THEOREM Inductive == Spec => []IInv
  BY InitIInv, NextIInv, PTL DEF Spec

\* Every variable keeps its type; deadlines are never negative.
THEOREM TypeCorrect == Spec => []TypeOK
<1>1. IInv => TypeOK
  BY DEF IInv
<1> QED
  BY <1>1, Inductive, PTL

\* A thread nobody disturbed between its localtime and its last look at the static
\* struct tm has read the time it asked for.
THEOREM ReadsOwnTimeCorrect == Spec => []ReadsOwnTime
<1>1. IInv => ReadsOwnTime
  BY DEF IInv, Looking, ReadsOwnTime
<1> QED
  BY <1>1, Inductive, PTL

-----------------------------------------------------------------------------
(* The arithmetic of the alarm's time.                                     *)

\* For settings that fit, the stored time is the sum less at most one day.
LEMMA AlarmTimeSum ==
  ASSUME NEW d \in Clock, NEW w \in Settings, Fits(w)
  PROVE  \E k \in {0, 1} : Minutes(AlarmTime(d, w)) + k * Day
                             = Minutes(d) + w.mHour * SECONDS + w.mMinute
<1>1. /\ w.mHour \in Nat /\ w.mMinute \in Nat /\ SECONDS \in Nat \ {0} /\ HOURS \in Nat \ {0}
      /\ d.hour \in 0 .. HOURS - 1 /\ d.min \in 0 .. SECONDS - 1 /\ Width \in Nat
  BY SettingType, ClockAssumption DEF Clock
<1> DEFINE h == d.hour + w.mHour
<1> DEFINE m == d.min + w.mMinute
<1>2. h \in Nat /\ m \in Nat /\ 2 * h < Width /\ 2 * m < Width
  BY <1>1 DEF Fits
<1>3. Signed(h) = h /\ Signed(m) = m
  BY <1>2, SignedSmall
<1>4. Minutes(d) + w.mHour * SECONDS + w.mMinute = h * SECONDS + m
  BY <1>1 DEF Minutes
<1>5. AlarmTime(d, w) = Carried(Reduced(h), m)
  BY <1>3 DEF AlarmTime
<1> HIDE DEF h, m
<1>6. \A x \in Int : Minutes(Carried(x, m)) = x * SECONDS + m
  <2> SUFFICES ASSUME NEW x \in Int PROVE Minutes(Carried(x, m)) = x * SECONDS + m
    OBVIOUS
  <2>1. (x + 1) * SECONDS = x * SECONDS + SECONDS
    BY <1>1
  <2>2. x * SECONDS \in Int
    BY <1>1
  <2> QED
    BY <1>1, <1>2, <2>1, <2>2 DEF Minutes, Carried
<1>7. PICK k \in {0, 1} : Reduced(h) = h - k * HOURS
  BY <1>1, <1>2 DEF Reduced
<1>8. (h - k * HOURS) * SECONDS + m + k * Day = h * SECONDS + m
  <2>1. CASE k = 0
    BY <1>1, <1>2, <2>1 DEF Day
  <2>2. CASE k = 1
    <3>1. (h - HOURS) * SECONDS = h * SECONDS - HOURS * SECONDS
      BY <1>1, <1>2
    <3> QED
      BY <1>1, <1>2, <2>2, <3>1 DEF Day
  <2> QED
    BY <2>1, <2>2
<1>9. Reduced(h) \in Int
  BY <1>1, <1>2 DEF Reduced
<1> QED
  BY <1>4, <1>5, <1>6, <1>7, <1>8, <1>9

\* For hours of a day and minutes of an hour it is a time of day, or hour 24.
LEMMA AlarmTimeOfDay ==
  ASSUME NEW d \in Clock, NEW w \in Settings, Fits(w), w.mHour < HOURS, w.mMinute < SECONDS
  PROVE  /\ AlarmTime(d, w) \in [hour : 0 .. HOURS, min : 0 .. SECONDS - 1]
         /\ AlarmTime(d, w).hour = HOURS => /\ d.hour + w.mHour = HOURS - 1
                                            /\ d.min + w.mMinute >= SECONDS
<1>1. /\ w.mHour \in Nat /\ w.mMinute \in Nat /\ SECONDS \in Nat \ {0} /\ HOURS \in Nat \ {0}
      /\ d.hour \in 0 .. HOURS - 1 /\ d.min \in 0 .. SECONDS - 1 /\ Width \in Nat
  BY SettingType, ClockAssumption DEF Clock
<1> DEFINE h == d.hour + w.mHour
<1> DEFINE m == d.min + w.mMinute
<1>2. h \in 0 .. 2 * HOURS - 2 /\ m \in 0 .. 2 * SECONDS - 2 /\ 2 * h < Width /\ 2 * m < Width
  BY <1>1 DEF Fits
<1>3. AlarmTime(d, w) = Carried(Reduced(h), m)
  BY <1>2, SignedSmall DEF AlarmTime
<1> HIDE DEF h, m
<1>4. Reduced(h) \in 0 .. HOURS - 1 /\ (Reduced(h) = HOURS - 1 => h = HOURS - 1)
  BY <1>1, <1>2 DEF Reduced
<1>5. \A x \in 0 .. HOURS - 1 :
        /\ Carried(x, m) \in [hour : 0 .. HOURS, min : 0 .. SECONDS - 1]
        /\ Carried(x, m).hour = HOURS => x = HOURS - 1 /\ m >= SECONDS
  BY <1>1, <1>2 DEF Carried
<1> QED
  BY <1>3, <1>4, <1>5 DEF h, m

\* The time stored for an alarm is the time of its start plus its delay, less at most
\* a day.
THEOREM StoredTimeCorrect == Spec => []StoredTime
<1>1. IInv => StoredTime
  <2> SUFFICES ASSUME IInv, NEW a \in Alarms, Saved(a), ~mixed[a], Fits(setting[a])
               PROVE  \E k \in {0, 1} :
                        Minutes(stored[a]) + k * Day
                          = Minutes(Fields(t[a])) + setting[a].mHour * SECONDS + setting[a].mMinute
    BY DEF StoredTime
  <2>1. a \in Threads
    BY DEF Threads
  <2>2. stored[a] = AlarmTime(read[a], setting[a]) /\ read[a] = Fields(t[a])
    BY <2>1 DEF IInv, Looking, Computed, Saved
  <2>3. read[a] \in Clock /\ setting[a] \in Settings
    BY <2>1 DEF IInv, TypeOK
  <2> QED
    BY <2>2, <2>3, AlarmTimeSum
<1> QED
  BY <1>1, Inductive, PTL

\* It is a time of day unless the minutes carry into midnight.
THEOREM TimeOfDayCorrect == Spec => []TimeOfDay
<1>1. IInv => TimeOfDay
  <2> SUFFICES ASSUME IInv, NEW a \in Alarms, Saved(a), Fits(setting[a]),
                      setting[a].mHour < HOURS, setting[a].mMinute < SECONDS
               PROVE  /\ stored[a] \in [hour : 0 .. HOURS, min : 0 .. SECONDS - 1]
                      /\ stored[a].hour = HOURS =>
                           /\ read[a].hour + setting[a].mHour = HOURS - 1
                           /\ read[a].min + setting[a].mMinute >= SECONDS
    BY DEF TimeOfDay
  <2>1. stored[a] = AlarmTime(read[a], setting[a])
    BY DEF IInv, Computed
  <2>2. read[a] \in Clock /\ setting[a] \in Settings
    BY DEF IInv, TypeOK, Threads
  <2> QED
    BY <2>1, <2>2, AlarmTimeOfDay
<1> QED
  BY <1>1, Inductive, PTL

-----------------------------------------------------------------------------
(***************************************************************************)
(* The alarm rings when the stored time of day comes round, or later by    *)
(* what its start took.                                                    *)
(***************************************************************************)

\* The deadline is computed after the time was taken, and is the delay away.
Timed(a) == /\ pc[a] # "idle" => t[a] <= now
            /\ pc[a] \in {"wait", "rung"} =>
                 t[a] <= armed[a] /\ ts[a] = armed[a] + Delay(setting[a])
            /\ pc[a] = "rung" => now >= ts[a]

RingInv == \A a \in Alarms : Timed(a)

LEMMA RingStep == TypeOK /\ RingInv /\ [Next]_vars => RingInv'
<1> SUFFICES ASSUME TypeOK, RingInv, [Next]_vars, NEW a \in Alarms PROVE Timed(a)'
  BY DEF RingInv
<1>0. /\ a \in Threads /\ a \notin Loggers /\ t[a] \in Nat /\ now \in Nat
      /\ armed[a] \in Nat /\ ts[a] \in Nat /\ Timed(a)
  BY ClockAssumption DEF TypeOK, Threads, RingInv
<1>1. CASE UNCHANGED vars \/ Tick
  BY <1>0, <1>1 DEF vars, Tick, Timed
<1>2. ASSUME NEW p \in Threads, Show(p) PROVE Timed(a)'
  <2>1. now' = now /\ armed' = armed /\ ts' = ts /\ setting' = setting
        /\ pc'[p] \in {"convert", "half", "hour", "minute", "save"}
        /\ \A q \in Threads \ {p} : pc'[q] = pc[q]
    BY <1>2 DEF Show, TakeTime, Convert, Converted, ReadHour, ReadMinute, TypeOK
  <2>2. \/ TakeTime(p) /\ t' = [t EXCEPT ![p] = now]
        \/ pc[p] # "idle" /\ t' = t
    BY <1>2 DEF Show, TakeTime, Convert, Converted, ReadHour, ReadMinute
  <2> QED
    BY <1>0, <2>1, <2>2 DEF Timed, TypeOK
<1>3. ASSUME NEW l \in Loggers, Printed(l) PROVE Timed(a)'
  BY <1>0, <1>3 DEF Printed, Timed, TypeOK
<1>4. ASSUME NEW b \in Alarms, StoreTime(b) PROVE Timed(a)'
  BY <1>0, <1>4 DEF StoreTime, Timed, TypeOK
<1>5. ASSUME NEW b \in Alarms, SetTimer(b) PROVE Timed(a)'
  <2>1. CASE a = b
    BY <1>0, <1>5, <2>1 DEF SetTimer, Timed, TypeOK
  <2>2. CASE a # b
    BY <1>0, <1>5, <2>2 DEF SetTimer, Timed, TypeOK
  <2> QED
    BY <2>1, <2>2
<1>6. ASSUME NEW b \in Alarms, Ring(b) PROVE Timed(a)'
  BY <1>0, <1>6 DEF Ring, Timed, TypeOK
<1> QED
  BY <1>1, <1>2, <1>3, <1>4, <1>5, <1>6 DEF Next

LEMMA RingInductive == Spec => []RingInv
<1>1. Init => RingInv
  BY DEF Init, RingInv, Timed, Threads
<1> QED
  BY <1>1, RingStep, TypeCorrect, PTL DEF Spec

LEMMA MultipleLarge ==
  ASSUME NEW n \in Nat \ {0}, NEW d \in Int, d >= 1
  PROVE  n * d >= n
<1>1. n * (d - 1) >= 0
  OBVIOUS
<1>2. n * d = n * (d - 1) + n
  OBVIOUS
<1> QED
  BY <1>1, <1>2

\* A quotient and a rest are the only ones.
LEMMA Division ==
  ASSUME NEW n \in Nat \ {0}, NEW q \in Int, NEW r \in 0 .. n - 1
  PROVE  (n * q + r) \div n = q /\ (n * q + r) % n = r
<1> DEFINE x == n * q + r
           k == x \div n
           y == x % n
<1>1. x \in Int /\ k \in Int /\ y \in 0 .. n - 1
  OBVIOUS
<1>2. x = n * k + y
  OBVIOUS
<1>3. n * (q - k) = y - r /\ n * (k - q) = r - y
  <2>1. n * (q - k) = n * q - n * k /\ n * (k - q) = n * k - n * q
    BY <1>1
  <2> QED
    BY <1>1, <1>2, <2>1
<1>4. ~(q - k >= 1) /\ ~(k - q >= 1)
  <2> HIDE DEF k, y
  <2> QED
    BY <1>1, <1>3, MultipleLarge
<1>5. q = k
  BY <1>1, <1>4
<1> QED
  BY <1>1, <1>2, <1>5

\* A number is its quotient times the divisor and the rest.
LEMMA Divided ==
  ASSUME NEW n \in Nat \ {0}, NEW x \in Nat
  PROVE  x = n * (x \div n) + (x % n) /\ x \div n \in Nat /\ x % n \in 0 .. n - 1
OBVIOUS

\* Adding a multiple adds to the quotient.
LEMMA QuotientSum ==
  ASSUME NEW n \in Nat \ {0}, NEW x \in Nat, NEW d \in Nat
  PROVE  (x + n * d) \div n = (x \div n) + d
<1> DEFINE q == x \div n
           r == x % n
<1>1. x = n * q + r /\ q \in Nat /\ r \in 0 .. n - 1
  BY Divided
<1> HIDE DEF q, r
<1>2. x + n * d = n * (q + d) + r
  <2>1. n * (q + d) = n * q + n * d
    BY <1>1
  <2> QED
    BY <1>1, <2>1
<1>3. (n * (q + d) + r) \div n = q + d
  BY <1>1, Division
<1> QED
  BY <1>2, <1>3 DEF q

\* A day more or less is the same time of day.
LEMMA SameRest ==
  ASSUME NEW n \in Nat \ {0}, NEW x \in Int, NEW y \in Nat, NEW k \in Int, x = n * k + y
  PROVE  x % n = y % n
<1> DEFINE q == y \div n
           r == y % n
<1>1. y = n * q + r /\ q \in Nat /\ r \in 0 .. n - 1
  BY Divided
<1> HIDE DEF q, r
<1>2. x = n * (k + q) + r
  <2>1. n * (k + q) = n * k + n * q
    BY <1>1
  <2> QED
    BY <1>1, <2>1
<1>3. x % n = r
  BY <1>1, <1>2, Division
<1> QED
  BY <1>3 DEF r

\* The hour and the minute localtime shows are the minutes of the day gone by.
LEMMA FieldsMinutes ==
  ASSUME NEW s \in Nat
  PROVE  Minutes(Fields(s)) = (s \div SECONDS) % Day /\ s \div SECONDS \in Nat
<1> DEFINE q == s \div SECONDS
           r == s % SECONDS
           h == q \div SECONDS
           m == q % SECONDS
           d == h \div HOURS
           e == h % HOURS
<1>0. /\ SECONDS \in Nat \ {0} /\ HOURS \in Nat \ {0} /\ SECONDS * SECONDS \in Nat \ {0}
      /\ Day \in Nat \ {0}
  BY ClockAssumption DEF Day
<1>1. s = SECONDS * q + r /\ q \in Nat /\ r \in 0 .. SECONDS - 1
  BY <1>0, Divided
<1>2. q = SECONDS * h + m /\ h \in Nat /\ m \in 0 .. SECONDS - 1
  <2> HIDE DEF q
  <2> QED
    BY <1>0, <1>1, Divided
<1>3. h = HOURS * d + e /\ d \in Nat /\ e \in 0 .. HOURS - 1
  <2> HIDE DEF h
  <2> QED
    BY <1>0, <1>2, Divided
<1>4. Fields(s) = [hour |-> (s \div (SECONDS * SECONDS)) % HOURS, min |-> m]
  BY DEF Fields
<1> HIDE DEF q, r, h, m, d, e
<1>5. s \div (SECONDS * SECONDS) = h
  <2>1. SECONDS * m + r \in 0 .. (SECONDS * SECONDS) - 1
    <3>1. SECONDS * m <= SECONDS * (SECONDS - 1) /\ SECONDS * m \in Nat
      <4>1. SECONDS * (SECONDS - 1 - m) \in Nat
        BY <1>0, <1>2
      <4>2. SECONDS * (SECONDS - 1 - m) = SECONDS * (SECONDS - 1) - SECONDS * m
        BY <1>0, <1>2
      <4> QED
        BY <1>0, <1>2, <4>1, <4>2
    <3>2. SECONDS * (SECONDS - 1) = SECONDS * SECONDS - SECONDS
      BY <1>0
    <3> QED
      BY <1>0, <1>1, <3>1, <3>2
  <2>2. s = (SECONDS * SECONDS) * h + (SECONDS * m + r)
    <3>1. SECONDS * q = (SECONDS * SECONDS) * h + SECONDS * m
      BY <1>0, <1>2
    <3> QED
      BY <1>0, <1>1, <1>2, <3>1
  <2> QED
    BY <1>0, <1>2, <2>1, <2>2, Division
<1>6. Minutes(Fields(s)) = e * SECONDS + m
  BY <1>4, <1>5 DEF Minutes, e
<1>7. q % Day = e * SECONDS + m
  <2>1. e * SECONDS + m \in 0 .. Day - 1
    <3>1. e * SECONDS <= (HOURS - 1) * SECONDS /\ e * SECONDS \in Nat
      <4>1. (HOURS - 1 - e) * SECONDS \in Nat
        BY <1>0, <1>3
      <4>2. (HOURS - 1 - e) * SECONDS = (HOURS - 1) * SECONDS - e * SECONDS
        BY <1>0, <1>3
      <4> QED
        BY <1>0, <1>3, <4>1, <4>2
    <3>2. (HOURS - 1) * SECONDS = HOURS * SECONDS - SECONDS
      BY <1>0
    <3> QED
      BY <1>0, <1>2, <3>1, <3>2 DEF Day
  <2>2. q = Day * d + (e * SECONDS + m)
    <3>1. SECONDS * h = (HOURS * SECONDS) * d + e * SECONDS
      BY <1>0, <1>3
    <3> QED
      BY <1>0, <1>2, <1>3, <3>1 DEF Day
  <2> DEFINE f == e * SECONDS + m
  <2>3. f \in 0 .. Day - 1 /\ q = Day * d + f
    BY <2>1, <2>2
  <2> HIDE DEF f
  <2>4. (Day * d + f) % Day = f
    BY <1>0, <1>3, <2>3, Division
  <2> QED
    BY <2>3, <2>4 DEF f
<1> QED
  BY <1>1, <1>6, <1>7 DEF q

\* For settings that fit, the delay is the hours and the minutes in seconds.
LEMMA DelaySum ==
  ASSUME NEW w \in Settings, Fits(w)
  PROVE  Delay(w) = SECONDS * (w.mHour * SECONDS + w.mMinute)
<1>1. w.mHour \in Nat /\ w.mMinute \in Nat /\ SECONDS \in Nat /\ Width \in Nat \ {0}
  BY SettingType, ClockAssumption
<1> DEFINE d == w.mHour * SECONDS * SECONDS + w.mMinute * SECONDS
<1>2. d \in Nat /\ d < Width
  BY <1>1 DEF Fits
<1>3. d = SECONDS * (w.mHour * SECONDS + w.mMinute)
  BY <1>1
<1>4. Delay(w) = d % Width
  BY DEF Delay
<1> HIDE DEF d
<1>5. d % Width = d
  BY <1>1, <1>2
<1> QED
  BY <1>3, <1>4, <1>5

\* An alarm nobody disturbed, and whose setting fits, rings when the time of day that
\* was stored for it comes round, later by the time its start took and never earlier.
THEOREM RingsAsStoredCorrect == Spec => []RingsAsStored
<1>1. IInv /\ RingInv /\ StoredTime => RingsAsStored
  <2> SUFFICES ASSUME IInv, RingInv, StoredTime, NEW a \in Alarms,
                      pc[a] \in {"wait", "rung"}, ~mixed[a], Fits(setting[a])
               PROVE  /\ t[a] <= armed[a]
                      /\ Minutes(stored[a]) % Day = Minutes(Fields(ts[a] - (armed[a] - t[a])))
                      /\ pc[a] = "rung" => now >= ts[a]
    BY DEF RingsAsStored
  <2> DEFINE w == setting[a]
             d == w.mHour * SECONDS + w.mMinute
             q == t[a] \div SECONDS
  <2>1. /\ t[a] \in Nat /\ armed[a] \in Nat /\ ts[a] \in Nat /\ w \in Settings
        /\ stored[a] \in [hour : Int, min : Int]
    BY DEF IInv, TypeOK, Threads
  <2>2. w.mHour \in Nat /\ w.mMinute \in Nat /\ SECONDS \in Nat \ {0} /\ HOURS \in Nat \ {0}
        /\ Day \in Nat \ {0}
    BY <2>1, SettingType, ClockAssumption DEF Day
  <2>3. d \in Nat /\ ts[a] = armed[a] + SECONDS * d /\ t[a] <= armed[a]
    BY <2>1, <2>2, DelaySum DEF RingInv, Timed
  <2>4. PICK k \in {0, 1} : Minutes(stored[a]) + k * Day = Minutes(Fields(t[a])) + d
    <3>1. PICK k \in {0, 1} :
            Minutes(stored[a]) + k * Day
              = Minutes(Fields(t[a])) + w.mHour * SECONDS + w.mMinute
      BY DEF StoredTime, Saved
    <3>2. Minutes(Fields(t[a])) \in Nat
      <4>1. Minutes(Fields(t[a])) = q % Day /\ q \in Nat
        BY <2>1, FieldsMinutes
      <4> HIDE DEF q
      <4> QED
        BY <2>2, <4>1, Divided
    <3> QED
      BY <2>2, <3>1, <3>2
  <2> HIDE DEF w, d
  <2>5. Minutes(Fields(t[a])) = q % Day /\ q \in Nat
    BY <2>1, FieldsMinutes
  <2>6. ts[a] - (armed[a] - t[a]) = t[a] + SECONDS * d
    BY <2>1, <2>2, <2>3
  <2>7. (t[a] + SECONDS * d) \div SECONDS = q + d /\ t[a] + SECONDS * d \in Nat
    <3>1. SECONDS * d \in Nat
      BY <2>2, <2>3
    <3> QED
      <4>1. (t[a] + SECONDS * d) \div SECONDS = (t[a] \div SECONDS) + d
        BY <2>1, <2>2, <2>3, QuotientSum
      <4> QED
        BY <2>1, <3>1, <4>1
  <2> HIDE DEF q
  <2>8. Minutes(Fields(ts[a] - (armed[a] - t[a]))) = (q + d) % Day
    BY <2>6, <2>7, FieldsMinutes
  <2>9. Minutes(stored[a]) % Day = (q + d) % Day
    <3> DEFINE e == q \div Day
               r == q % Day
    <3>1. q = Day * e + r /\ e \in Nat /\ r \in 0 .. Day - 1
      BY <2>2, <2>5, Divided
    <3>2. Minutes(stored[a]) \in Int
      BY <2>1, <2>2 DEF Minutes
    <3> HIDE DEF e, r
    <3>3. Minutes(stored[a]) + k * Day = r + d
      BY <2>4, <2>5 DEF r
    <3>4. Minutes(stored[a]) = Day * (0 - (e + k)) + (q + d)
      <4>1. Day * (0 - (e + k)) = 0 - Day * e - k * Day
        BY <2>2, <3>1
      <4>2. Day * e \in Nat /\ k * Day \in Nat
        BY <2>2, <3>1
      <4> QED
        <5> DEFINE f == Day * e
                   g == k * Day
        <5>1. q = f + r /\ Minutes(stored[a]) + g = r + d /\ f \in Nat /\ g \in Nat
          BY <3>1, <3>3, <4>2
        <5>2. Day * (0 - (e + k)) = 0 - f - g
          BY <4>1
        <5> HIDE DEF f, g
        <5> QED
          BY <2>3, <2>5, <3>1, <3>2, <5>1, <5>2
    <3>5. q + d \in Nat /\ 0 - (e + k) \in Int
      BY <2>3, <2>5, <3>1
    <3> QED
      BY <2>2, <3>2, <3>4, <3>5, SameRest
  <2>10. pc[a] = "rung" => now >= ts[a]
    BY DEF RingInv, Timed
  <2> QED
    BY <2>3, <2>8, <2>9, <2>10
<1> QED
  BY <1>1, RingInductive, StoredTimeCorrect, Inductive, PTL
=============================================================================

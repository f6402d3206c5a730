--------------------------------- MODULE Rtc ---------------------------------
(***************************************************************************)
(* The real-time clock, src/sifli_rtc.c.  Time and date are two registers  *)
(* of a clock that runs on while the program reads or writes first the one *)
(* and then the other.                                                     *)
(*                                                                         *)
(* The HAL is external.  What sifli_rtc_get expects of it is that          *)
(* HAL_RTC_GetDate returns HAL_ERROR when the date has moved on since the  *)
(* time was read.  A date is a number of its day and the day of the week.  *)
(***************************************************************************)
EXTENDS Integers, FiniteSets

CONSTANTS
    DaySeconds,   \* bound: seconds of a day
    Days,         \* bound: days until the date begins anew (a century)
    WeekDays,     \* 7
    MaxShown      \* bound: what the clock shows in the course of one read

ASSUME DayAssumption ==
    {DaySeconds, Days, WeekDays, MaxShown} \subseteq Nat \ {0}

RTC_WEEKDAY_SUNDAY == WeekDays

Dates   == [day : 0..(Days - 1), wday : 1..WeekDays]
Moments == [sec : 0..(DaySeconds - 1), date : Dates]

\* What sifli_rtc_set may be given: there 0 is a Sunday as well.
Given == [sec : 0..(DaySeconds - 1), day : 0..(Days - 1), wday : 0..WeekDays]

NoMoment == [sec |-> -1]

VARIABLES
    rtc,          \* "boot", then whether sifli_rtc_init got to its end
    runs,         \* the clock ticks
    tr, dr,       \* its registers
    moved,        \* of the HAL: the date has moved since the time was read
    getting,      \* where sifli_rtc_get is
    time,         \* what it has read of tr
    result,       \* what it has returned
    shown,        \* history: what the clock has shown since it was called
    mixed,        \* history: a register was written since then
    setting,      \* where sifli_rtc_set is
    dt,           \* its argument
    due           \* history: what the clock has to show after it

clockVars == <<runs, tr, dr>>
getVars   == <<moved, getting, time, result, shown, mixed>>
setVars   == <<setting, dt, due>>
vars   == <<rtc, clockVars, getVars, setVars>>

Now == [sec |-> tr, date |-> dr]

TypeOK ==
    /\ rtc \in {"boot", "failed", "ready"}
    /\ runs \in BOOLEAN
    /\ tr \in 0..(DaySeconds - 1) /\ dr \in Dates
    /\ moved \in BOOLEAN
    /\ getting \in {"idle", "date", "again", "done"}
    /\ time \in 0..(DaySeconds - 1)
    /\ result \in Moments \cup {NoMoment}
    /\ shown \subseteq Moments
    /\ mixed \in BOOLEAN
    /\ setting \in {"idle", "time", "date"}
    /\ dt \in Given
    /\ due \in Moments \cup {NoMoment}

\* The registers keep their content over a restart, and so may the clock.
Init ==
    /\ rtc = "boot"
    /\ runs \in BOOLEAN
    /\ tr \in 0..(DaySeconds - 1) /\ dr \in Dates
    /\ moved = FALSE /\ getting = "idle" /\ time = 0 /\ result = NoMoment
    /\ shown = {} /\ mixed = FALSE
    /\ setting = "idle" /\ dt = [sec |-> 0, day |-> 0, wday |-> 0]
    /\ due = NoMoment

-----------------------------------------------------------------------------
(***************************************************************************)
(* The clock.                                                              *)
(***************************************************************************)
NextDate(d) == [day  |-> (d.day + 1) % Days,
                wday |-> IF d.wday = WeekDays THEN 1 ELSE d.wday + 1]

After(m) == IF m.sec + 1 < DaySeconds
            THEN [m EXCEPT !.sec = @ + 1]
            ELSE [sec |-> 0, date |-> NextDate(m.date)]

\* A date set at midnight, between the two writes, is a day late for good:
\* nothing is due then.
Tick ==
    /\ runs
    /\ getting \in {"date", "again"} => Cardinality(shown) < MaxShown
    /\ tr' = After(Now).sec /\ dr' = After(Now).date
    /\ moved' = (moved \/ tr' = 0)
    /\ shown' = IF getting \in {"date", "again"} THEN shown \cup {After(Now)}
                                                 ELSE shown
    /\ due' = IF due = NoMoment \/ (setting = "date" /\ tr' = 0)
                THEN NoMoment ELSE After(due)
    /\ UNCHANGED <<rtc, runs, getting, time, result, mixed, setting, dt>>

\* The low-speed crystal is not ready, HAL_RTC_Init fails, or all is well;
\* main does not ask.
sifli_rtc_init ==
    /\ rtc = "boot"
    /\ \/ rtc' = "failed" /\ UNCHANGED runs
       \/ rtc' = "ready" /\ runs' = TRUE
    /\ UNCHANGED <<tr, dr, getVars, setVars>>

-----------------------------------------------------------------------------
(***************************************************************************)
(* sifli_rtc_get.                                                          *)
(***************************************************************************)
GetTime ==
    /\ rtc # "boot" /\ getting = "idle"
    /\ getting' = "date"
    /\ time' = tr
    /\ moved' = FALSE
    /\ shown' = {Now}
    /\ mixed' = FALSE
    /\ result' = NoMoment
    /\ UNCHANGED <<rtc, clockVars, setVars>>

GetTimeAgain ==
    /\ getting = "again"
    /\ getting' = "date"
    /\ time' = tr
    /\ moved' = FALSE
    /\ UNCHANGED <<rtc, clockVars, result, shown, mixed, setVars>>

\* Slip: HAL_ERROR is taken for an answer.
GetDateOnce ==
    /\ getting = "date"
    /\ getting' = "done" /\ result' = [sec |-> time, date |-> dr]
    /\ UNCHANGED <<rtc, clockVars, moved, time, shown, mixed, setVars>>

GetDate ==
    /\ getting = "date"
    /\ \/ moved /\ getting' = "again" /\ UNCHANGED result
       \/ /\ ~moved
          /\ getting' = "done" /\ result' = [sec |-> time, date |-> dr]
    /\ UNCHANGED <<rtc, clockVars, moved, time, shown, mixed, setVars>>

\* The caller has its answer; the locals are gone.
GetReturns ==
    /\ getting = "done"
    /\ getting' = "idle"
    /\ time' = 0 /\ moved' = FALSE /\ shown' = {} /\ mixed' = FALSE
    /\ result' = NoMoment
    /\ UNCHANGED <<rtc, clockVars, setVars>>

sifli_rtc_get == GetTime \/ GetDate \/ GetTimeAgain \/ GetReturns

-----------------------------------------------------------------------------
(***************************************************************************)
(* sifli_rtc_set, by whatever thread ElenixOS has for it.  When a write    *)
(* fails this is logged, and the date is written whether or not the time   *)
(* has been.                                                               *)
(***************************************************************************)
SetCall(d) ==
    /\ rtc # "boot" /\ setting = "idle"
    /\ setting' = "time" /\ dt' = d
    /\ UNCHANGED <<rtc, clockVars, getVars, due>>

\* Slip: the 0 of a Sunday is written as it is.
WeekDayAsIs(w) == w

WeekDay(w) == IF w = 0 THEN RTC_WEEKDAY_SUNDAY ELSE w
AsDate(d)  == [day |-> d.day, wday |-> WeekDay(d.wday)]

SetTime ==
    /\ setting = "time" /\ setting' = "date"
    /\ \/ tr' = dt.sec /\ mixed' = (getting # "idle")
          /\ due' = [sec |-> dt.sec, date |-> AsDate(dt)]
       \/ due' = NoMoment /\ UNCHANGED <<tr, mixed>>
    /\ UNCHANGED <<rtc, runs, dr, moved, getting, time, result, shown, dt>>

SetReturns(d) ==
    /\ setting = "date" /\ setting' = "idle"
    /\ dt' = [sec |-> 0, day |-> 0, wday |-> 0]
    /\ \/ dr' = d /\ mixed' = (getting # "idle") /\ UNCHANGED due
       \/ due' = NoMoment /\ UNCHANGED <<dr, mixed>>
    /\ UNCHANGED <<rtc, runs, tr, moved, getting, time, result, shown>>

\* Slip: a Sunday given as 0 is written as the first day of the week.
SetDateMonday ==
    SetReturns([day |-> dt.day, wday |-> IF dt.wday = 0 THEN 1 ELSE dt.wday])

SetDate == SetReturns(AsDate(dt))

sifli_rtc_set == (\E d \in Given : SetCall(d)) \/ SetTime \/ SetDate

Next == Tick \/ sifli_rtc_init \/ sifli_rtc_get \/ sifli_rtc_set

Spec == Init /\ [][Next]_vars

-----------------------------------------------------------------------------
(***************************************************************************)
(* Properties.                                                             *)
(***************************************************************************)

\* What sifli_rtc_get returns is a moment the clock has shown between call
\* and return, however long midnight and the loop take: never yesterday's
\* time with today's date.  Unless somebody sets the clock meanwhile.
ReadIsAMoment == getting = "done" /\ ~mixed => result \in shown

\* After a call of sifli_rtc_set whose writes both succeed, and between which
\* no midnight falls, the clock shows what it was given and goes on from
\* there, the day of the week included.
SetTakes == setting = "idle" /\ due # NoMoment => Now = due

\* The inductive invariant behind both.
RtcInv ==
    /\ getting = "done" /\ ~mixed => result \in shown
    /\ getting = "date" /\ ~mixed /\ ~moved =>
          [sec |-> time, date |-> dr] \in shown
    /\ getting \in {"date", "again"} /\ ~mixed => Now \in shown
    /\ setting # "date" /\ due # NoMoment => Now = due
    /\ setting = "date" /\ due # NoMoment =>
          due = [sec |-> tr, date |-> AsDate(dt)]
=============================================================================

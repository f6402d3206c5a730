------------------------------ MODULE RtcProofs ------------------------------
(***************************************************************************)
(* For days, weeks and centuries of any length, and reads that last as     *)
(* long as they like: what sifli_rtc_get returns, and what the clock shows *)
(* after sifli_rtc_set.                                                    *)
(***************************************************************************)
EXTENDS Rtc, TLAPS

USE DEF clockVars, getVars, setVars

\* A tick leads from a moment of the calendar to a moment of the calendar.
LEMMA TickIsMoment ==
    ASSUME NEW m \in Moments PROVE After(m) \in Moments
<1>1. /\ DaySeconds \in Nat \ {0} /\ Days \in Nat \ {0}
      /\ WeekDays \in Nat \ {0}
  BY DayAssumption
<1>2. NextDate(m.date) \in Dates
  <2>1. m.date.day \in 0..(Days - 1) /\ m.date.wday \in 1..WeekDays
    BY DEF Moments, Dates
  <2>2. (m.date.day + 1) % Days \in 0..(Days - 1)
    BY <1>1, <2>1
  <2> QED
    BY <1>1, <2>1, <2>2 DEF NextDate, Dates
<1> QED
  BY <1>1, <1>2 DEF After, Moments

\* The date that sifli_rtc_set writes is one of the calendar, whichever way
\* a Sunday is given.
LEMMA DateIsDate == ASSUME NEW d \in Given PROVE AsDate(d) \in Dates
  BY DayAssumption DEF Given, Dates, AsDate, WeekDay, RTC_WEEKDAY_SUNDAY

\* The registers always hold a time and a date, and so does every result of
\* sifli_rtc_get.
THEOREM TypeCorrect == Spec => []TypeOK
<1>1. Init => TypeOK
  <2> SUFFICES ASSUME Init PROVE TypeOK
    OBVIOUS
  <2>1. 0 \in 0..(DaySeconds - 1) /\ 0 \in 0..(Days - 1) /\ 0 \in 0..WeekDays
    BY DayAssumption
  <2>2. dt \in Given
    BY <2>1 DEF Init, Given
  <2> QED
    BY <2>1, <2>2 DEF Init, TypeOK
<1>2. TypeOK /\ [Next]_vars => TypeOK'
  <2> SUFFICES ASSUME TypeOK, [Next]_vars PROVE TypeOK'
    OBVIOUS
  <2>0. Now \in Moments
    BY DEF TypeOK, Now, Moments
  <2>1. CASE Tick
    <3>1. After(Now) \in Moments
      BY <2>0, TickIsMoment
    <3>2. tr' \in 0..(DaySeconds - 1) /\ dr' \in Dates
      BY <2>1, <3>1 DEF Tick, Moments
    <3>3. due' \in Moments \cup {NoMoment}
      BY <2>1, TickIsMoment DEF Tick, TypeOK
    <3>4. shown' \subseteq Moments
      BY <2>1, <3>1 DEF Tick, TypeOK
    <3>5. moved' \in BOOLEAN
      BY <2>1 DEF Tick, TypeOK
    <3> QED
      BY <2>1, <3>2, <3>3, <3>4, <3>5 DEF Tick, TypeOK
  <2>2. CASE sifli_rtc_init
    BY <2>2 DEF sifli_rtc_init, TypeOK
  <2>3. CASE sifli_rtc_get
    <3>1. getting = "date" => [sec |-> time, date |-> dr] \in Moments
      BY DEF TypeOK, Moments
    <3>2. CASE GetTime
      BY <2>0, <3>2 DEF GetTime, TypeOK
    <3>3. CASE GetDate
      BY <3>1, <3>3 DEF GetDate, TypeOK
    <3>4. CASE GetTimeAgain
      BY <3>4 DEF GetTimeAgain, TypeOK
    <3>5. CASE GetReturns
      <4>1. 0 \in 0..(DaySeconds - 1)
        BY DayAssumption
      <4> QED
        BY <3>5, <4>1 DEF GetReturns, TypeOK
    <3> QED
      BY <2>3, <3>2, <3>3, <3>4, <3>5 DEF sifli_rtc_get
  <2>4. ASSUME NEW d \in Given, SetCall(d) PROVE TypeOK'
    BY <2>4 DEF SetCall, TypeOK
  <2>5. CASE SetTime
    <3>1. AsDate(dt) \in Dates /\ dt.sec \in 0..(DaySeconds - 1)
      BY DateIsDate DEF TypeOK, Given
    <3>2. [sec |-> dt.sec, date |-> AsDate(dt)] \in Moments
      BY <3>1 DEF Moments
    <3>3. mixed' \in BOOLEAN
      BY <2>5 DEF SetTime, TypeOK
    <3> QED
      BY <2>5, <3>1, <3>2, <3>3 DEF SetTime, TypeOK
  <2>6. CASE SetDate
    <3>1. AsDate(dt) \in Dates
      BY DateIsDate DEF TypeOK
    <3>2. dt' \in Given
      BY <2>6, DayAssumption DEF SetDate, SetReturns, Given
    <3>3. mixed' \in BOOLEAN
      BY <2>6 DEF SetDate, SetReturns, TypeOK
    <3> QED
      BY <2>6, <3>1, <3>2, <3>3 DEF SetDate, SetReturns, TypeOK
  <2>7. CASE UNCHANGED vars
    BY <2>7 DEF vars, TypeOK
  <2> QED
    BY <2>1, <2>2, <2>3, <2>4, <2>5, <2>6, <2>7 DEF Next, sifli_rtc_set
<1> QED
  BY <1>1, <1>2, PTL DEF Spec

-----------------------------------------------------------------------------
\* As long as the date has not moved, the time that has been read belongs to
\* it; after a write of both, the clock is where it was set to.
LEMMA InvStep == TypeOK /\ RtcInv /\ [Next]_vars => RtcInv'
<1> SUFFICES ASSUME TypeOK, RtcInv, [Next]_vars PROVE RtcInv'
  OBVIOUS
<1>1. CASE Tick
  <2>1. Now' = After(Now)
    BY <1>1 DEF Tick, Now, After
  <2>2. tr' # 0 => dr' = dr /\ tr' = tr + 1
    BY <1>1 DEF Tick, After, Now
  <2>3. getting \in {"date", "again"} => shown' = shown \cup {Now'}
    BY <1>1, <2>1 DEF Tick
  <2>4. getting = "date" /\ ~mixed /\ ~moved' =>
          [sec |-> time, date |-> dr'] \in shown'
    BY <1>1, <2>2, <2>3 DEF Tick, RtcInv
  <2>5. setting # "date" /\ due' # NoMoment => Now' = due'
    BY <1>1, <2>1 DEF Tick, RtcInv
  <2>6. setting = "date" /\ due' # NoMoment =>
          due' = [sec |-> tr', date |-> AsDate(dt)]
    <3> SUFFICES ASSUME setting = "date", due' # NoMoment
                 PROVE due' = [sec |-> tr', date |-> AsDate(dt)]
      OBVIOUS
    <3>1. tr' # 0 /\ due # NoMoment /\ due' = After(due)
      BY <1>1 DEF Tick
    <3>2. due = [sec |-> tr, date |-> AsDate(dt)]
      BY <3>1 DEF RtcInv
    <3>3. tr + 1 < DaySeconds /\ tr' = tr + 1
      BY <1>1, <3>1 DEF Tick, After, Now
    <3> QED
      BY <3>1, <3>2, <3>3 DEF After
  <2> QED
    BY <1>1, <2>3, <2>4, <2>5, <2>6 DEF Tick, RtcInv
<1>2. CASE sifli_rtc_init
  BY <1>2 DEF sifli_rtc_init, RtcInv, Now
<1>3. CASE sifli_rtc_get
  BY <1>3 DEF sifli_rtc_get, GetTime, GetDate, GetTimeAgain, GetReturns,
              RtcInv, Now
<1>4. ASSUME NEW d \in Given, SetCall(d) PROVE RtcInv'
  BY <1>4 DEF SetCall, RtcInv, Now
<1>5. CASE SetTime
  BY <1>5 DEF SetTime, RtcInv, Now, TypeOK
<1>6. CASE SetDate
  <2>1. due' # NoMoment => due' = due /\ dr' = AsDate(dt) /\ tr' = tr
    BY <1>6 DEF SetDate, SetReturns
  <2>2. due' # NoMoment => Now' = due'
    BY <1>6, <2>1 DEF SetDate, SetReturns, RtcInv, Now
  <2>3. setting' = "idle"
    BY <1>6 DEF SetDate, SetReturns
  <2>4. getting # "idle" => mixed' \/ (dr' = dr /\ mixed' = mixed)
    BY <1>6 DEF SetDate, SetReturns
  <2> QED
    BY <1>6, <2>2, <2>3, <2>4 DEF SetDate, SetReturns, RtcInv, Now
<1>7. CASE UNCHANGED vars
  BY <1>7 DEF vars, RtcInv, Now
<1> QED
  BY <1>1, <1>2, <1>3, <1>4, <1>5, <1>6, <1>7 DEF Next, sifli_rtc_set

\* The same, in every reachable state.
LEMMA InvCorrect == Spec => []RtcInv
<1>1. Init => RtcInv
  BY DEF Init, RtcInv
<1> QED
  BY <1>1, InvStep, TypeCorrect, PTL DEF Spec

\* The loop of sifli_rtc_get is enough: time and date belong together,
\* whatever midnights fall into the read.
THEOREM ReadCorrect == Spec => []ReadIsAMoment
<1>1. RtcInv => ReadIsAMoment
  BY DEF RtcInv, ReadIsAMoment
<1> QED
  BY <1>1, InvCorrect, PTL

\* Two writes of sifli_rtc_set that both succeed set the clock, unless
\* midnight falls between them.
THEOREM SetCorrect == Spec => []SetTakes
<1>1. RtcInv => SetTakes
  BY DEF RtcInv, SetTakes
<1> QED
  BY <1>1, InvCorrect, PTL
=============================================================================

------------------------------ MODULE ClockProofs ------------------------------
(***************************************************************************)
(* rtc_get_time returns one time, for every margin in which its reads fit, *)
(* every year and hour, and both encodings.  The argument: the wait leaves *)
(* the bit clear, so an update can only be announced after it; from then   *)
(* on the margin is never smaller than the number of reads to come, and    *)
(* the chip's time stays the one at which the reads began until the last   *)
(* has been made.                                                          *)
(*                                                                         *)
(* rtc_get_unix_timestamp turns that time into the calendar's timestamp:   *)
(* its loops are unrolled by induction on the year and month by month.     *)
(***************************************************************************)
EXTENDS Clock, WellFoundedInduction, TLAPS

Times == {t \in [Field -> Nat] :
    /\ t.year \in 2000 .. 2099 /\ t.month \in 1 .. 12 /\ t.day \in 1 .. 31
    /\ t.weekday \in 1 .. 7
    /\ t.hour \in 0 .. 23 /\ t.minute \in 0 .. 59 /\ t.second \in 0 .. 59}

LEMMA NextDayType ==
    ASSUME NEW t \in Times, NextDay(t).year \in 2000 .. 2099
    PROVE  NextDay(t) \in Times
<1>1. /\ t.year \in 2000 .. 2099 /\ t.month \in 1 .. 12 /\ t.day \in 1 .. 31
      /\ NextWeekday(t) \in 1 .. 7
  BY DEF Times, NextWeekday
<1>2. MonthLength(t.year, t.month) \in 28 .. 31
  BY <1>1 DEF MonthLength
<1>3. CASE t.day < MonthLength(t.year, t.month)
  <2>1. t.day + 1 \in 1 .. 31
    BY <1>1, <1>2, <1>3
  <2>2. NextDay(t) = Time(t.year, t.month, t.day + 1, NextWeekday(t), 0, 0, 0)
    BY <1>3 DEF NextDay
  <2> QED
    BY <1>1, <2>1, <2>2 DEF Time, Times, Field
<1>4. CASE ~ t.day < MonthLength(t.year, t.month) /\ t.month < 12
  <2>1. t.month + 1 \in 1 .. 12 /\ 1 \in 1 .. 31
    BY <1>1, <1>4
  <2>2. NextDay(t) = Time(t.year, t.month + 1, 1, NextWeekday(t), 0, 0, 0)
    BY <1>4 DEF NextDay
  <2> QED
    BY <1>1, <2>1, <2>2 DEF Time, Times, Field
<1>5. CASE ~ t.day < MonthLength(t.year, t.month) /\ ~ t.month < 12
  <2>1. NextDay(t) = Time(t.year + 1, 1, 1, NextWeekday(t), 0, 0, 0)
    BY <1>5 DEF NextDay
  <2>2. t.year + 1 \in 2000 .. 2099 /\ 1 \in 1 .. 12 /\ 1 \in 1 .. 31
    BY <2>1 DEF Time
  <2> QED
    BY <1>1, <2>1, <2>2 DEF Time, Times, Field
<1> QED
  BY <1>3, <1>4, <1>5

LEMMA NextSecondType ==
    ASSUME NEW t \in Times, NextSecond(t).year \in 2000 .. 2099
    PROVE  NextSecond(t) \in Times
<1>1. t.hour \in 0 .. 23 /\ t.minute \in 0 .. 59 /\ t.second \in 0 .. 59 /\ 0 \in 0 .. 59
  BY DEF Times
<1>2. CASE t.second < 59
  <2>1. t.second + 1 \in 0 .. 59
    BY <1>1, <1>2
  <2> QED
    BY <1>1, <1>2, <2>1 DEF NextSecond, SameDay, Time, Times, Field
<1>3. CASE ~ t.second < 59 /\ t.minute < 59
  <2>1. t.minute + 1 \in 0 .. 59
    BY <1>1, <1>3
  <2> QED
    BY <1>1, <1>3, <2>1 DEF NextSecond, SameDay, Time, Times, Field
<1>4. CASE ~ t.second < 59 /\ ~ t.minute < 59 /\ t.hour < 23
  <2>1. t.hour + 1 \in 0 .. 23
    BY <1>1, <1>4
  <2> QED
    BY <1>1, <1>4, <2>1 DEF NextSecond, SameDay, Time, Times, Field
<1>5. CASE ~ t.second < 59 /\ ~ t.minute < 59 /\ ~ t.hour < 23
  BY <1>5, NextDayType DEF NextSecond
<1> QED
  BY <1>2, <1>3, <1>4, <1>5

\* What a register shows fits two digits, and decoding gives it back.
LEMMA RegisterDigits ==
    ASSUME NEW t \in Times, NEW f \in Field
    PROVE  /\ TwoDigits(t)[f] \in 0 .. 99
           /\ TwoDigits(t)[f] + (IF f = "year" THEN 2000 ELSE 0) = t[f]
<1>1. CASE f = "year"
  BY <1>1 DEF TwoDigits, Times, Field
<1>2. CASE f \in {"second", "minute", "hour", "day", "month", "weekday"}
  BY <1>2 DEF TwoDigits, Times, Field
<1> QED
  BY <1>1, <1>2 DEF Field

LEMMA BcdDecoded ==
    ASSUME NEW n \in 0 .. 99
    PROVE  bcd_to_binary(((n \div 10) * 16) + (n % 10)) = n
BY DEF bcd_to_binary

LEMMA RegistersOnce ==
    /\ Len(Registers) = 7
    /\ \A k \in 1 .. 7 : Registers[k] \in Field
    /\ \A j, k \in 1 .. 7 : j < k => Registers[j] # Registers[k]
    /\ \A f \in Field : \E k \in 1 .. 7 : f = Registers[k]
<1>1. /\ Len(Registers) = 7
      /\ Registers[1] = "second" /\ Registers[2] = "minute" /\ Registers[3] = "hour"
      /\ Registers[4] = "day" /\ Registers[5] = "month" /\ Registers[6] = "year"
      /\ Registers[7] = "weekday"
  BY DEF Registers
<1> QED
  BY <1>1 DEF Field

(***************************************************************************)
(* The inductive invariant                                                 *)
(***************************************************************************)

ChipInv ==
    /\ now \in Times
    /\ binary \in BOOLEAN /\ updating \in BOOLEAN /\ margin \in Nat
    /\ updating => NextSecond(now).year \in Years

\* The reads made so far are of the time the reads began at.
ReadingInv ==
    /\ pc \in {"idle", "wait", "read", "done"}
    /\ next \in 1 .. 8
    /\ reading \in [Field -> Int]
    /\ pc = "read" =>
           /\ started \in Times
           /\ next < 8 => started = now
           /\ next < 8 /\ updating => margin >= 8 - next
           /\ \A k \in 1 .. 7 : k < next =>
                 reading[Registers[k]] = Encoded(TwoDigits(started)[Registers[k]])
    /\ ReadingIsOneTime

ClockInv == ChipInv /\ ReadingInv

LEMMA EncodedType ==
    ASSUME ChipInv, NEW n \in 0 .. 99
    PROVE  Encoded(n) \in Int
BY DEF Encoded, ChipInv

LEMMA InitialInv == ClockInit => ClockInv
<1> SUFFICES ASSUME ClockInit PROVE ClockInv
  OBVIOUS
<1>1. PICK y \in Years : now = Time(y, 1, 1, WeekdayOf(DaysToYear(y)), 0, 0, 0)
  BY DEF ClockInit
<1>2. y \in 2000 .. 2099
  BY ClockAssumption
<1>3. DaysToYear(y) \in Int
  BY <1>2 DEF DaysToYear
<1>4. WeekdayOf(DaysToYear(y)) \in 1 .. 7
  BY <1>3 DEF WeekdayOf
<1>5. now \in Times
  <2>1. 1 \in 1 .. 12 /\ 1 \in 1 .. 31
    OBVIOUS
  <2> QED
    BY <1>1, <1>2, <1>4, <2>1 DEF Time, Times, Field
<1>6. ChipInv
  BY <1>5 DEF ClockInit, ChipInv
<1>7. ReadingInv
  BY DEF ClockInit, ReadingInv, ReadingIsOneTime, Nothing
<1> QED
  BY <1>6, <1>7 DEF ClockInv

LEMMA ChipStep ==
    ASSUME ClockInv, Chip
    PROVE  ClockInv'
<1> USE DEF ClockInv
<1>1. CASE Announce
  <2>1. ChipInv'
    BY <1>1, ClockAssumption DEF Announce, ChipInv
  <2>2. ReadingInv'
    BY <1>1, ClockAssumption
    DEF Announce, ReadingInv, ReadingIsOneTime, driver, Encoded
  <2> QED
    BY <2>1, <2>2
<1>2. CASE Update
  <2>1. updating /\ now' = NextSecond(now) /\ updating' = FALSE /\ margin' = 0
        /\ binary' = binary
    BY <1>2 DEF Update
  <2>2. NextSecond(now) \in Times
    <3>1. NextSecond(now).year \in Years
      BY <2>1 DEF ChipInv
    <3>2. PICK y \in Years : y = NextSecond(now).year
      BY <3>1
    <3>3. y \in 2000 .. 2099
      BY ClockAssumption
    <3>4. NextSecond(now).year \in 2000 .. 2099
      BY <3>2, <3>3
    <3> QED
      BY <3>4, NextSecondType DEF ChipInv
  <2>5. ChipInv'
    <3>1. now' \in Times
      BY <2>1, <2>2
    <3> QED
      BY <2>1, <3>1 DEF ChipInv
  <2>3. pc = "read" => ~ next < 8
    BY <1>2 DEF Update, ReadingInv
  <2>4. ReadingInv'
    BY <1>2, <2>3 DEF Update, ReadingInv, ReadingIsOneTime, driver, Encoded
  <2> QED
    BY <2>4, <2>5
<1>3. ASSUME NEW hour \in Hours, Pass(hour) PROVE ClockInv'
  <2>1. hour \in 0 .. 23
    BY ClockAssumption
  <2>2. now' \in Times
    BY <1>3, <2>1 DEF Pass, ChipInv, SameDay, Time, Times, Field
  <2>3. ChipInv'
    BY <1>3, <2>2 DEF Pass, ChipInv
  <2>4. ReadingInv'
    BY <1>3 DEF Pass, ReadingInv, ReadingIsOneTime, driver
  <2> QED
    BY <2>3, <2>4
<1> QED
  BY <1>1, <1>2, <1>3 DEF Chip

LEMMA DriverStep ==
    ASSUME ClockInv, Driver
    PROVE  ClockInv'
<1> USE DEF ClockInv
<1>1. CASE Begin
  BY <1>1 DEF Begin, ChipInv, ReadingInv, ReadingIsOneTime, chip
<1>2. CASE Waited
  <2>1. ChipInv'
    BY <1>2 DEF Waited, ChipInv, chip
  <2>2. ~ updating
    BY <1>2, ClockAssumption DEF Waited, is_updating, RegisterA
  <2>3. ReadingInv'
    BY <1>2, <2>2 DEF Waited, ChipInv, ReadingInv, ReadingIsOneTime, chip
  <2> QED
    BY <2>1, <2>3
<1>3. CASE ReadRegister
  <2>1. /\ pc = "read" /\ next \in 1 .. 7 /\ next' = next + 1
        /\ reading' = [reading EXCEPT ![Registers[next]] = cmos_read(Registers[next])]
        /\ UNCHANGED <<now, binary, updating, pc, started>>
        /\ started = now /\ started \in Times
        /\ updating => margin >= 8 - next /\ margin' = margin - 1
        /\ ~ updating => margin' = margin
    BY <1>3, RegistersOnce DEF ReadRegister, ReadingInv
  <2>2. margin \in Nat /\ binary \in BOOLEAN /\ updating \in BOOLEAN
    BY DEF ChipInv
  <2>3. ChipInv'
    BY <2>1, <2>2 DEF ChipInv
  <2>4. /\ Registers[next] \in Field
        /\ cmos_read(Registers[next]) = Encoded(TwoDigits(started)[Registers[next]])
        /\ cmos_read(Registers[next]) \in Int
    BY <2>1, RegistersOnce, RegisterDigits, EncodedType DEF cmos_read
  <2>5. reading' \in [Field -> Int]
    BY <2>1, <2>4 DEF ReadingInv
  <2>6. ASSUME NEW k \in 1 .. 7, k < next'
        PROVE  reading'[Registers[k]] = Encoded(TwoDigits(started)[Registers[k]])
    <3>1. CASE k = next
      BY <2>1, <2>4, <3>1 DEF ReadingInv
    <3>2. CASE k < next
      <4>1. Registers[k] # Registers[next] /\ Registers[k] \in Field
        BY <2>1, <3>2, RegistersOnce
      <4>2. reading'[Registers[k]] = reading[Registers[k]]
        BY <2>1, <4>1 DEF ReadingInv
      <4> QED
        BY <2>1, <3>2, <4>2 DEF ReadingInv
    <3> QED
      BY <2>1, <2>6, <3>1, <3>2
  <2>7. \A n : Encoded(n)' = Encoded(n)
    BY <2>1 DEF Encoded
  <2>8. ReadingInv'
    BY <2>1, <2>2, <2>5, <2>6, <2>7 DEF ReadingInv, ReadingIsOneTime, Encoded
  <2> QED
    BY <2>3, <2>8
<1>4. CASE Decode
  <2>1. /\ pc = "read" /\ next = 8 /\ pc' = "done" /\ UNCHANGED <<chip, next, started>>
        /\ started \in Times /\ binary \in BOOLEAN
        /\ \A k \in 1 .. 7 :
              reading[Registers[k]] = Encoded(TwoDigits(started)[Registers[k]])
    BY <1>4, RegistersOnce DEF Decode, ReadingInv, ChipInv
  <2>2. \A f \in Field : reading[f] = Encoded(TwoDigits(started)[f])
    BY <2>1, RegistersOnce
  <2>3. ASSUME NEW f \in Field
        PROVE  (IF binary THEN reading[f] ELSE bcd_to_binary(reading[f]))
                   + (IF f = "year" THEN 2000 ELSE 0) = started[f]
    <3>1. TwoDigits(started)[f] \in 0 .. 99
      BY <2>1, RegisterDigits
    <3>2. (IF binary THEN reading[f] ELSE bcd_to_binary(reading[f]))
              = TwoDigits(started)[f]
      <4>1. CASE binary
        BY <2>2, <4>1 DEF Encoded
      <4>2. CASE ~ binary
        <5>1. reading[f] = ((TwoDigits(started)[f] \div 10) * 16)
                              + (TwoDigits(started)[f] % 10)
          BY <2>2, <4>2 DEF Encoded
        <5> QED
          BY <3>1, <4>2, <5>1, BcdDecoded
      <4> QED
        BY <4>1, <4>2
    <3> QED
      BY <2>1, <3>2, RegisterDigits
  <2>4. reading' = [f \in Field |-> started[f]]
    BY <1>4, <2>3 DEF Decode
  <2>5. started = [f \in Field |-> started[f]] /\ started \in [Field -> Int]
    BY <2>1 DEF Times
  <2>6. ReadingInv'
    BY <2>1, <2>4, <2>5 DEF ReadingInv, ReadingIsOneTime
  <2>7. ChipInv'
    BY <2>1 DEF ChipInv, chip
  <2> QED
    BY <2>6, <2>7
<1>5. CASE Return
  <2>1. ChipInv'
    BY <1>5 DEF Return, ChipInv, chip
  <2>2. Nothing \in [Field -> Int]
    BY DEF Nothing
  <2>3. ReadingInv'
    BY <1>5, <2>2 DEF Return, ReadingInv, ReadingIsOneTime
  <2> QED
    BY <2>1, <2>3
<1> QED
  BY <1>1, <1>2, <1>3, <1>4, <1>5 DEF Driver

LEMMA ClockInvNext == ClockInv /\ [ClockNext]_clockVars => ClockInv'
<1> SUFFICES ASSUME ClockInv, [ClockNext]_clockVars PROVE ClockInv'
  OBVIOUS
<1>1. CASE UNCHANGED clockVars
  BY <1>1
  DEF clockVars, chip, driver, ClockInv, ChipInv, ReadingInv, ReadingIsOneTime, Encoded
<1> QED
  BY <1>1, ChipStep, DriverStep DEF ClockNext

(***************************************************************************)
(* rtc_get_time checks the bit once and reads seven registers that a tick  *)
(* may change together: for every margin of at least seven reads it        *)
(* returns one time that the chip showed, decoded.                         *)
(***************************************************************************)
THEOREM OneTimeRead == ClockSpec => []ReadingIsOneTime
<1>1. ClockInv => ReadingIsOneTime
  BY DEF ClockInv, ReadingInv
<1> QED
  BY <1>1, InitialInv, ClockInvNext, PTL DEF ClockSpec

-----------------------------------------------------------------------------
(* The calendar and the loops of rtc_get_unix_timestamp                    *)

Year == 1970 .. 2099

LEMMA LeastYear ==
    ASSUME NEW S \in SUBSET Nat, S # {}
    PROVE  \E m \in S : \A n \in S : ~ (n < m)
<1> DEFINE Less == {ss \in Nat \X Nat : ss[1] < ss[2]}
<1>1. IsWellFoundedOn(Less, Nat)
  BY NatLessThanWellFounded DEF OpToRel
<1>2. PICK m \in S : \A n \in S : <<n, m>> \notin Less
  BY <1>1, WFMin
<1>3. ASSUME NEW n \in S, n < m PROVE FALSE
  <2>1. <<n, m>> \in Nat \X Nat /\ <<n, m>>[1] = n /\ <<n, m>>[2] = m
    BY <1>3
  <2>2. <<n, m>> \in Less
    BY <1>3, <2>1
  <2> QED
    BY <1>2, <2>2
<1> QED
  BY <1>3

\* An equation that holds from each year to the next holds of all.
LEMMA YearInduction ==
    ASSUME NEW T \in SUBSET Year, 1970 \in T,
           \A y \in Year : y # 1970 /\ y - 1 \in T => y \in T
    PROVE  T = Year
<1> SUFFICES ASSUME T # Year PROVE FALSE
  OBVIOUS
<1> DEFINE Missed == Year \ T
<1>1. Missed # {} /\ Missed \in SUBSET Nat
  <2>1. Missed # {} /\ Missed \subseteq Year
    OBVIOUS
  <2>2. Year \subseteq Nat
    BY DEF Year
  <2> QED
    BY <2>1, <2>2
<1> HIDE DEF Missed
<1>2. PICK y \in Missed : \A z \in Missed : ~ (z < y)
  BY <1>1, LeastYear
<1> USE DEF Missed
<1>3. y \in Year /\ y # 1970 /\ y \notin T
  BY <1>2
<1>4. y - 1 < y /\ y - 1 \in Year
  BY <1>3 DEF Year
<1>5. y - 1 \in T
  BY <1>2, <1>4
<1> QED
  BY <1>3, <1>5

LEMMA NextYear ==
    ASSUME NEW y \in Year
    PROVE  /\ DaysToYear(y) \in Int
           /\ DaysToYear(1970) = 0
           /\ DaysToYear(y + 1) = DaysToYear(y) + (IF Leap(y) THEN 366 ELSE 365)
<1>1. DaysToYear(y) \in Int /\ DaysToYear(1970) = 0
  BY DEF DaysToYear, Year
<1>2. /\ (y - 1968) \div 4 = ((y - 1969) \div 4) + (IF y % 4 = 0 THEN 1 ELSE 0)
      /\ (y - 1900) \div 100 = ((y - 1901) \div 100) + (IF y % 100 = 0 THEN 1 ELSE 0)
      /\ (y - 1600) \div 400 = ((y - 1601) \div 400) + (IF y % 400 = 0 THEN 1 ELSE 0)
  BY DEF Year
<1>3. (y % 400 = 0 => y % 100 = 0) /\ (y % 100 = 0 => y % 4 = 0)
  BY DEF Year
<1>4. /\ (y + 1) - 1969 = y - 1968 /\ (y + 1) - 1901 = y - 1900
      /\ (y + 1) - 1601 = y - 1600 /\ (y + 1) - 1970 = (y - 1970) + 1
  BY DEF Year
<1>5. /\ (y - 1969) \div 4 \in Int /\ (y - 1901) \div 100 \in Int
      /\ (y - 1601) \div 400 \in Int
  BY DEF Year
<1> DEFINE a == (y - 1969) \div 4
           b == (y - 1901) \div 100
           c == (y - 1601) \div 400
           Day(x) == IF x = 0 THEN 1 ELSE 0
<1>6. DaysToYear(y) = 365 * (y - 1970) + a - b + c
  BY DEF DaysToYear
<1>7. DaysToYear(y + 1) = 365 * ((y - 1970) + 1) + (a + Day(y % 4))
                              - (b + Day(y % 100)) + (c + Day(y % 400))
  BY <1>2, <1>4 DEF DaysToYear
<1>8. a \in Int /\ b \in Int /\ c \in Int /\ y - 1970 \in Int
  BY <1>5 DEF Year
<1>9. Day(y % 4) - Day(y % 100) + Day(y % 400) = (IF Leap(y) THEN 1 ELSE 0)
  BY <1>3 DEF Leap
<1>10. /\ Day(y % 4) \in Int /\ Day(y % 100) \in Int /\ Day(y % 400) \in Int
  OBVIOUS
<1> HIDE DEF a, b, c, Day, Leap
<1> QED
  BY <1>1, <1>6, <1>7, <1>8, <1>9, <1>10

LEMMA NextMonth ==
    ASSUME NEW y \in Year, NEW m \in 1 .. 12
    PROVE  /\ DaysToMonth(y, m) \in Nat
           /\ DaysToMonth(y, 1) = 0
           /\ m < 12 => DaysToMonth(y, m + 1) = DaysToMonth(y, m) + MonthLength(y, m)
           /\ DaysToMonth(y, 12) + 31 = (IF Leap(y) THEN 366 ELSE 365)
           /\ MonthLength(y, 12) = 31
<1>1. m = 1 \/ m = 2 \/ m = 3 \/ m = 4 \/ m = 5 \/ m = 6 \/ m = 7 \/ m = 8
      \/ m = 9 \/ m = 10 \/ m = 11 \/ m = 12
  OBVIOUS
<1>2. PICK l \in {0, 1} : l = (IF Leap(y) THEN 1 ELSE 0)
  OBVIOUS
<1> HIDE DEF Leap
<1>3. /\ DaysToMonth(y, 1) = 0 /\ DaysToMonth(y, 2) = 31
      /\ DaysToMonth(y, 3) = 59 + l /\ DaysToMonth(y, 4) = 90 + l
      /\ DaysToMonth(y, 5) = 120 + l /\ DaysToMonth(y, 6) = 151 + l
      /\ DaysToMonth(y, 7) = 181 + l /\ DaysToMonth(y, 8) = 212 + l
      /\ DaysToMonth(y, 9) = 243 + l /\ DaysToMonth(y, 10) = 273 + l
      /\ DaysToMonth(y, 11) = 304 + l /\ DaysToMonth(y, 12) = 334 + l
  BY <1>2 DEF DaysToMonth
<1>4. /\ MonthLength(y, 1) = 31 /\ MonthLength(y, 2) = 28 + l
      /\ MonthLength(y, 3) = 31 /\ MonthLength(y, 4) = 30
      /\ MonthLength(y, 5) = 31 /\ MonthLength(y, 6) = 30
      /\ MonthLength(y, 7) = 31 /\ MonthLength(y, 8) = 31
      /\ MonthLength(y, 9) = 30 /\ MonthLength(y, 10) = 31
      /\ MonthLength(y, 11) = 30 /\ MonthLength(y, 12) = 31
  BY <1>2 DEF MonthLength
<1> QED
  BY <1>1, <1>2, <1>3, <1>4

\* The first loop.
LEMMA YearLoop ==
    ASSUME NEW year \in Year
    PROVE  days_before_year[year] = DaysToYear(year)
<1> DEFINE Length(y) == IF DriverLeap(y) THEN 366 ELSE 365
           Value(f, y) == IF y = 1970 THEN 0 ELSE f[y - 1] + Length(y - 1)
           Body(f) == [y \in Year |-> Value(f, y)]
           g == [y \in Year |-> DaysToYear(y)]
<1>1. ASSUME NEW y \in Year, y # 1970
      PROVE  /\ y - 1 \in Year
             /\ DaysToYear(y) = DaysToYear(y - 1) + Length(y - 1)
  <2>1. PICK x \in Year : x = y - 1
    BY <1>1 DEF Year
  <2>2. y = x + 1
    BY <2>1 DEF Year
  <2>3. DaysToYear(x + 1) = DaysToYear(x) + (IF Leap(x) THEN 366 ELSE 365)
    BY NextYear
  <2> QED
    BY <2>1, <2>2, <2>3 DEF Year, DriverLeap, Leap
<1>2. DaysToYear(1970) = 0 /\ 1970 \in Year
  BY NextYear DEF Year
<1> HIDE DEF Length
<1>3. g = Body(g)
  BY <1>1, <1>2
<1>4. days_before_year = CHOOSE f : f = Body(f)
  BY DEF days_before_year, Year, Length
<1>5. days_before_year = Body(days_before_year)
  BY <1>3, <1>4
<1> HIDE DEF g, Value
<1>6. \A y \in Year : days_before_year[y] = Value(days_before_year, y)
  BY <1>5
<1> HIDE DEF Body
<1> USE DEF Value
<1> DEFINE T == {y \in Year : days_before_year[y] = DaysToYear(y)}
<1>7. 1970 \in T
  BY <1>2, <1>6
<1>8. \A y \in Year : y # 1970 /\ y - 1 \in T => y \in T
  BY <1>1, <1>6
<1> HIDE DEF T
<1>9. T \in SUBSET Year
  BY DEF T
<1>10. T = Year
  BY <1>7, <1>8, <1>9, YearInduction
<1> QED
  BY <1>10 DEF T

LEMMA DriverMonth ==
    ASSUME NEW y \in Year, NEW m \in 1 .. 12
    PROVE  days_in_month(y)[m] = MonthLength(y, m)
<1>1. m = 1 \/ m = 2 \/ m = 3 \/ m = 4 \/ m = 5 \/ m = 6 \/ m = 7 \/ m = 8
      \/ m = 9 \/ m = 10 \/ m = 11 \/ m = 12
  OBVIOUS
<1>2. Leap(y) <=> DriverLeap(y)
  BY DEF Leap, DriverLeap
<1> DEFINE table == <<31, 28, 31, 30, 31, 30, 31, 31, 30, 31, 30, 31>>
<1>3. DOMAIN table = 1 .. 12
  OBVIOUS
<1>4. days_in_month(y)[m] = IF m = 2 THEN (IF DriverLeap(y) THEN 29 ELSE 28) ELSE table[m]
  BY <1>3 DEF days_in_month
<1>5. /\ table[1] = 31 /\ table[3] = 31 /\ table[4] = 30 /\ table[5] = 31
      /\ table[6] = 30 /\ table[7] = 31 /\ table[8] = 31 /\ table[9] = 30
      /\ table[10] = 31 /\ table[11] = 30 /\ table[12] = 31
  OBVIOUS
<1> HIDE DEF table
<1> QED
  BY <1>1, <1>2, <1>4, <1>5 DEF MonthLength

\* The second loop.
LEMMA MonthLoop ==
    ASSUME NEW year \in Year, NEW month \in 1 .. 12
    PROVE  days_before_month[year][month] = DaysToMonth(year, month)
<1> DEFINE Row(f, y) == [m \in 1 .. 12 |-> IF m = 1 THEN 0
                              ELSE f[y][m - 1] + days_in_month(y)[m - 1]]
           Body(f) == [y \in Year |-> Row(f, y)]
           g == [y \in Year |-> [m \in 1 .. 12 |-> DaysToMonth(y, m)]]
<1>1. ASSUME NEW y \in Year, NEW m \in 1 .. 12, m # 1
      PROVE  /\ m - 1 \in 1 .. 12
             /\ DaysToMonth(y, m) = DaysToMonth(y, m - 1) + days_in_month(y)[m - 1]
  <2>1. PICK n \in 1 .. 12 : n = m - 1 /\ m = n + 1 /\ n < 12
    BY <1>1
  <2>3. DaysToMonth(y, n + 1) = DaysToMonth(y, n) + MonthLength(y, n)
    BY <2>1, NextMonth
  <2>4. days_in_month(y)[n] = MonthLength(y, n)
    BY <2>1, DriverMonth
  <2> QED
    BY <2>1, <2>3, <2>4
<1>2. \A y \in Year : DaysToMonth(y, 1) = 0
  BY NextMonth
<1>3. g = Body(g)
  <2>1. ASSUME NEW y \in Year, NEW m \in 1 .. 12
        PROVE  DaysToMonth(y, m) = IF m = 1 THEN 0
                                   ELSE g[y][m - 1] + days_in_month(y)[m - 1]
    <3>1. CASE m = 1
      BY <1>2, <3>1
    <3>2. CASE m # 1
      BY <1>1, <3>2
    <3> QED
      BY <3>1, <3>2
  <2> QED
    BY <2>1
<1>4. days_before_month = CHOOSE f : f = Body(f)
  BY DEF days_before_month, Year
<1>5. days_before_month = Body(days_before_month)
  BY <1>3, <1>4
<1>6. \A y \in Year : \A m \in 1 .. 12 :
         days_before_month[y][m] = IF m = 1 THEN 0
             ELSE days_before_month[y][m - 1] + days_in_month(y)[m - 1]
  BY <1>5
<1> HIDE DEF Body, g
<1> DEFINE Agree(m) == days_before_month[year][m] = DaysToMonth(year, m)
<1>7. Agree(1)
  BY <1>2, <1>6
<1>8. \A m \in 2 .. 12 : Agree(m - 1) => Agree(m)
  <2> SUFFICES ASSUME NEW m \in 2 .. 12, Agree(m - 1) PROVE Agree(m)
    OBVIOUS
  <2>1. m \in 1 .. 12 /\ m # 1
    OBVIOUS
  <2> QED
    BY <1>1, <1>6, <2>1
<1> HIDE DEF Agree
<1>9. /\ Agree(2) /\ Agree(3) /\ Agree(4) /\ Agree(5) /\ Agree(6) /\ Agree(7)
      /\ Agree(8) /\ Agree(9) /\ Agree(10) /\ Agree(11) /\ Agree(12)
  BY <1>7, <1>8
<1>10. \A m \in 1 .. 12 : Agree(m)
  BY <1>7, <1>9
<1> QED
  BY <1>10 DEF Agree

-----------------------------------------------------------------------------
(* The chip keeps a date, and its day of the week                          *)

Dated(t) ==
    /\ t \in Times
    /\ t.day <= MonthLength(t.year, t.month)
    /\ t.weekday = WeekdayOf(DayNumber(t))

LEMMA NextWeekdayOf ==
    ASSUME NEW t, NEW n \in Int, t.weekday = WeekdayOf(n)
    PROVE  NextWeekday(t) = WeekdayOf(n + 1)
BY DEF NextWeekday, WeekdayOf

LEMMA NextDayDated ==
    ASSUME NEW t, Dated(t), NextDay(t).year \in 2000 .. 2099
    PROVE  Dated(NextDay(t))
<1>1. /\ t \in Times /\ NextDay(t) \in Times
      /\ t.year \in Year /\ t.month \in 1 .. 12 /\ t.day \in 1 .. 31
      /\ t.day <= MonthLength(t.year, t.month)
      /\ t.weekday = WeekdayOf(DayNumber(t))
  BY NextDayType DEF Dated, Times, Year
<1> DEFINE u == NextDay(t)
<1>2. /\ DaysToYear(t.year) \in Int /\ DaysToMonth(t.year, t.month) \in Nat
      /\ MonthLength(t.year, t.month) \in 28 .. 31
  BY <1>1, NextYear, NextMonth DEF MonthLength
<1>3. DayNumber(t) \in Int
  BY <1>1, <1>2 DEF DayNumber
<1> SUFFICES /\ u.day <= MonthLength(u.year, u.month)
             /\ u.weekday = NextWeekday(t)
             /\ DayNumber(u) = DayNumber(t) + 1
  BY <1>1, <1>3, NextWeekdayOf DEF Dated
<1>4. CASE t.day < MonthLength(t.year, t.month)
  <2>1. /\ u.year = t.year /\ u.month = t.month /\ u.day = t.day + 1
        /\ u.weekday = NextWeekday(t)
    BY <1>4 DEF NextDay, Time
  <2> HIDE DEF u
  <2> QED
    BY <1>1, <1>2, <1>4, <2>1 DEF DayNumber
<1>5. CASE ~ t.day < MonthLength(t.year, t.month) /\ t.month < 12
  <2>1. /\ u.year = t.year /\ u.month = t.month + 1 /\ u.day = 1
        /\ u.weekday = NextWeekday(t)
    BY <1>5 DEF NextDay, Time
  <2>2. DaysToMonth(t.year, t.month + 1)
            = DaysToMonth(t.year, t.month) + MonthLength(t.year, t.month)
    BY <1>1, <1>5, NextMonth
  <2>3. t.day = MonthLength(t.year, t.month)
    BY <1>1, <1>2, <1>5
  <2>4. t.month + 1 \in 1 .. 12
    BY <1>1, <1>5
  <2>5. MonthLength(t.year, t.month + 1) \in 28 .. 31
    BY <2>4 DEF MonthLength
  <2> HIDE DEF u
  <2>6. DayNumber(u) = DaysToYear(t.year) + DaysToMonth(t.year, t.month + 1) + 1 - 1
    BY <2>1 DEF DayNumber
  <2>7. DayNumber(t) = DaysToYear(t.year) + DaysToMonth(t.year, t.month) + t.day - 1
    BY DEF DayNumber
  <2> QED
    BY <1>1, <1>2, <2>1, <2>2, <2>3, <2>5, <2>6, <2>7
<1>6. CASE ~ t.day < MonthLength(t.year, t.month) /\ ~ t.month < 12
  <2>1. /\ u.year = t.year + 1 /\ u.month = 1 /\ u.day = 1
        /\ u.weekday = NextWeekday(t)
    BY <1>6 DEF NextDay, Time
  <2>2. t.month = 12
    BY <1>1, <1>6
  <2>3. t.year + 1 \in Year
    BY <1>1, <2>1 DEF Times, Year
  <2>4. /\ MonthLength(t.year, 12) = 31
        /\ DaysToYear(t.year + 1) = DaysToYear(t.year) + DaysToMonth(t.year, 12) + 31
    BY <1>1, <1>2, NextYear, NextMonth
  <2>5. DaysToMonth(t.year + 1, 1) = 0
    BY <2>3, NextMonth
  <2>6. MonthLength(t.year + 1, 1) = 31
    BY DEF MonthLength
  <2>7. t.day = 31
    BY <1>1, <1>6, <2>2, <2>4
  <2> HIDE DEF u
  <2>8. DayNumber(u) = DaysToYear(t.year + 1) + DaysToMonth(t.year + 1, 1) + 1 - 1
    BY <2>1 DEF DayNumber
  <2>9. DayNumber(t) = DaysToYear(t.year) + DaysToMonth(t.year, 12) + 31 - 1
    BY <2>2, <2>7 DEF DayNumber
  <2>10. DaysToMonth(t.year, 12) \in Nat
    BY <1>2, <2>2
  <2> QED
    BY <1>2, <2>1, <2>4, <2>5, <2>6, <2>8, <2>9, <2>10
<1> QED
  BY <1>4, <1>5, <1>6

OfDay == 0 .. 23        \* hours
OfHour == 0 .. 59       \* minutes, and seconds of a minute

LEMMA SameDayDated ==
    ASSUME NEW t, Dated(t), NEW h \in OfDay, NEW mi \in OfHour, NEW s \in OfHour
    PROVE  Dated(SameDay(t, h, mi, s))
<1> DEFINE u == SameDay(t, h, mi, s)
<1>1. /\ u.year = t.year /\ u.month = t.month /\ u.day = t.day
      /\ u.weekday = t.weekday
  BY DEF SameDay, Time
<1>2. u \in Times
  BY DEF Dated, SameDay, Time, Times, Field, OfDay, OfHour
<1> HIDE DEF u
<1>3. DayNumber(u) = DayNumber(t)
  BY <1>1 DEF DayNumber
<1>4. Dated(u)
  BY <1>1, <1>2, <1>3 DEF Dated
<1> QED
  BY <1>4 DEF u

LEMMA NextSecondDated ==
    ASSUME NEW t, Dated(t), NextSecond(t).year \in 2000 .. 2099
    PROVE  Dated(NextSecond(t))
<1>1. t.hour \in OfDay /\ t.minute \in OfHour /\ t.second \in OfHour /\ 0 \in OfHour
  BY DEF Dated, Times, OfDay, OfHour
<1>2. CASE t.second < 59
  <2>1. PICK k \in OfHour : k = t.second + 1
    BY <1>1, <1>2 DEF OfDay, OfHour
  <2>2. NextSecond(t) = SameDay(t, t.hour, t.minute, k)
    BY <1>2, <2>1 DEF NextSecond
  <2>3. Dated(SameDay(t, t.hour, t.minute, k))
    BY <1>1, SameDayDated
  <2> QED
    BY <2>2, <2>3
<1>3. CASE ~ t.second < 59 /\ t.minute < 59
  <2>1. PICK k \in OfHour : k = t.minute + 1
    BY <1>1, <1>3 DEF OfDay, OfHour
  <2>2. NextSecond(t) = SameDay(t, t.hour, k, 0)
    BY <1>3, <2>1 DEF NextSecond
  <2>3. Dated(SameDay(t, t.hour, k, 0))
    BY <1>1, SameDayDated
  <2> QED
    BY <2>2, <2>3
<1>4. CASE ~ t.second < 59 /\ ~ t.minute < 59 /\ t.hour < 23
  <2>1. PICK k \in OfDay : k = t.hour + 1
    BY <1>1, <1>4 DEF OfDay, OfHour
  <2>2. NextSecond(t) = SameDay(t, k, 0, 0)
    BY <1>4, <2>1 DEF NextSecond
  <2>3. Dated(SameDay(t, k, 0, 0))
    BY <1>1, SameDayDated
  <2> QED
    BY <2>2, <2>3
<1>5. CASE ~ t.second < 59 /\ ~ t.minute < 59 /\ ~ t.hour < 23
  BY <1>5, NextDayDated DEF NextSecond
<1> QED
  BY <1>2, <1>3, <1>4, <1>5

\* ... and so does what is being read.
DateInv ==
    /\ Dated(now)
    /\ pc \in {"read", "done"} => Dated(started)

LEMMA DateInit == ClockInit => DateInv
<1> SUFFICES ASSUME ClockInit PROVE DateInv
  OBVIOUS
<1>1. PICK y \in Years : now = Time(y, 1, 1, WeekdayOf(DaysToYear(y)), 0, 0, 0)
  BY DEF ClockInit
<1>2. y \in 2000 .. 2099 /\ y \in Year
  BY ClockAssumption DEF Year
<1>3. /\ now.year = y /\ now.month = 1 /\ now.day = 1
      /\ now.weekday = WeekdayOf(DaysToYear(y))
  BY <1>1 DEF Time
<1>4. DaysToYear(y) \in Int /\ DaysToMonth(y, 1) = 0 /\ 1 \in 1 .. 12
  BY <1>2, NextYear, NextMonth
<1>5. DayNumber(now) = DaysToYear(y)
  <2>1. DayNumber(now) = DaysToYear(y) + DaysToMonth(y, 1) + 1 - 1
    BY <1>3 DEF DayNumber
  <2> QED
    BY <1>4, <2>1
<1>6. now \in Times
  BY InitialInv DEF ClockInv, ChipInv
<1>7. now.day <= MonthLength(now.year, now.month)
  BY <1>3 DEF MonthLength
<1>8. Dated(now)
  BY <1>3, <1>5, <1>6, <1>7 DEF Dated
<1> QED
  BY <1>8 DEF ClockInit, DateInv

LEMMA DateNext == ClockInv /\ DateInv /\ [ClockNext]_clockVars => DateInv'
<1> SUFFICES ASSUME ClockInv, DateInv, [ClockNext]_clockVars PROVE DateInv'
  OBVIOUS
<1>1. ASSUME now' = now, pc' \in {"read", "done"} => pc \in {"read", "done"} /\ started' = started
      PROVE  DateInv'
  BY <1>1 DEF DateInv
<1>2. CASE Update
  <2>1. now' = NextSecond(now) /\ pc' = pc /\ started' = started /\ updating
    BY <1>2 DEF Update, driver
  <2>2. NextSecond(now).year \in Years
    BY <2>1 DEF ClockInv, ChipInv
  <2>3. NextSecond(now).year \in 2000 .. 2099
    <3>1. PICK y \in Years : y = NextSecond(now).year
      BY <2>2
    <3>2. y \in 2000 .. 2099
      BY ClockAssumption
    <3> QED
      BY <3>1, <3>2
  <2>4. Dated(NextSecond(now))
    BY <2>3, NextSecondDated DEF DateInv
  <2> QED
    BY <2>1, <2>4 DEF DateInv
<1>3. ASSUME NEW hour \in Hours, Pass(hour) PROVE DateInv'
  <2>1. hour \in OfDay /\ 59 \in OfHour
    BY ClockAssumption DEF OfDay, OfHour
  <2>2. now' = SameDay(now, hour, 59, 59) /\ pc' = "idle"
    BY <1>3 DEF Pass, driver
  <2> QED
    BY <2>1, <2>2, SameDayDated DEF DateInv
<1>4. CASE Waited
  BY <1>4 DEF Waited, chip, DateInv
<1>5. CASE Announce \/ Begin \/ ReadRegister \/ Decode \/ Return
  BY <1>1, <1>5 DEF Announce, Begin, ReadRegister, Decode, Return, chip, driver
<1>6. CASE UNCHANGED clockVars
  BY <1>1, <1>6 DEF clockVars, chip, driver
<1> QED
  BY <1>2, <1>3, <1>4, <1>5, <1>6 DEF ClockNext, Chip, Driver

(***************************************************************************)
(* The two loops of rtc_get_unix_timestamp add up to the Gregorian         *)
(* calendar, in every year two digits can name: the days and seconds it    *)
(* returns are those of the time read, and agree with the day of the week  *)
(* that the chip keeps on its own.                                         *)
(***************************************************************************)
THEOREM TimestampIsExact == ClockSpec => []TimestampExact
<1>1. ClockInv /\ DateInv => TimestampExact
  <2> SUFFICES ASSUME ClockInv, DateInv, pc = "done"
               PROVE  /\ TimestampDay(reading) = DayNumber(started)
                      /\ TimestampSecond(reading) = SecondOfDay(started)
                      /\ reading.weekday = WeekdayOf(TimestampDay(reading))
    BY DEF TimestampExact
  <2>1. reading = started /\ Dated(started)
    BY DEF ClockInv, ReadingInv, ReadingIsOneTime, DateInv
  <2>2. started.year \in Year /\ started.month \in 1 .. 12
    BY <2>1 DEF Dated, Times, Year
  <2>3. TimestampDay(started) = DayNumber(started)
    BY <2>2, YearLoop, MonthLoop DEF TimestampDay, DayNumber
  <2> QED
    BY <2>1, <2>3 DEF Dated, TimestampSecond, SecondOfDay
<1> QED
  BY <1>1, InitialInv, ClockInvNext, DateInit, DateNext, PTL DEF ClockSpec

=============================================================================

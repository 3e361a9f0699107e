-------------------------------- MODULE Clock --------------------------------
(***************************************************************************)
(* The real-time clock and its driver (src/drivers/rtc.c): rtc_get_time    *)
(* reads eight registers of the CMOS, one port access at a time, while the *)
(* chip counts on, and rtc_get_unix_timestamp turns the reading into       *)
(* seconds since 1970.                                                     *)
(*                                                                         *)
(* The chip is external.  It announces an update of its registers with a   *)
(* bit (update in progress) that rises some time before they change; MARGIN *)
(* is how many registers the driver can read in that time (244 us): its    *)
(* check of the bit protects the seven reads only if they fit.  The chip   *)
(* keeps two digits of the year and counts in binary or in BCD, as the     *)
(* firmware left it; the firmware and rtc_init both select 24 hours, so    *)
(* the driver's branch for 12 hours is dead.                               *)
(*                                                                         *)
(* A number of seconds is a pair of days and seconds of the day: the       *)
(* driver's uint32_t holds them to the year 2106.  Of the seconds of a day *)
(* the chip shows the first, and the last and first of some hours.         *)
(***************************************************************************)
EXTENDS Integers, Sequences

CONSTANTS
    MARGIN,     \* register reads between the rise of the bit and the update
    RATE,       \* the other seven bits of register A: divider and rate
    Years,      \* bound: the years in which the chip is watched
    Hours       \* bound: the hours whose end is watched, 23 among them

ASSUME ClockAssumption ==
    /\ MARGIN \in Nat /\ MARGIN >= 7
    /\ RATE \in 0 .. 127
    /\ Years \subseteq 2000 .. 2099
    /\ Hours \subseteq 0 .. 23

\* The registers in the order in which rtc_get_time reads them.
Registers == <<"second", "minute", "hour", "day", "month", "year", "weekday">>
Field == {"second", "minute", "hour", "day", "month", "year", "weekday"}

VARIABLES
    now,        \* the chip's time, the year with all its digits
    binary,     \* register B: the chip counts in binary, not in BCD
    updating,   \* the update-in-progress bit
    margin,     \* register reads that still fit before the update
    pc,         \* rtc_get_time: "idle", "wait", "read", "done"
    next,       \* index in Registers of the next read
    reading,    \* rtc_time_t: the raw values, and when done the decoded ones
    started     \* history: the chip's time when the wait ended

chip == <<now, binary, updating, margin>>
driver == <<pc, next, reading, started>>
clockVars == <<chip, driver>>
-----------------------------------------------------------------------------
(* The calendar                                                            *)

Leap(y) == (y % 4 = 0 /\ y % 100 # 0) \/ y % 400 = 0

MonthLength(y, m) ==
    CASE m \in {1, 3, 5, 7, 8, 10, 12} -> 31
      [] m \in {4, 6, 9, 11} -> 30
      [] m = 2 -> IF Leap(y) THEN 29 ELSE 28

Time(y, m, d, wd, h, mi, s) ==
    [year |-> y, month |-> m, day |-> d, weekday |-> wd,
     hour |-> h, minute |-> mi, second |-> s]

NextWeekday(t) == (t.weekday % 7) + 1
NextDay(t) ==
    IF t.day < MonthLength(t.year, t.month)
    THEN Time(t.year, t.month, t.day + 1, NextWeekday(t), 0, 0, 0)
    ELSE IF t.month < 12 THEN Time(t.year, t.month + 1, 1, NextWeekday(t), 0, 0, 0)
    ELSE Time(t.year + 1, 1, 1, NextWeekday(t), 0, 0, 0)

SameDay(t, h, mi, s) == Time(t.year, t.month, t.day, t.weekday, h, mi, s)

NextSecond(t) ==
    IF t.second < 59 THEN SameDay(t, t.hour, t.minute, t.second + 1)
    ELSE IF t.minute < 59 THEN SameDay(t, t.hour, t.minute + 1, 0)
    ELSE IF t.hour < 23 THEN SameDay(t, t.hour + 1, 0, 0)
    ELSE NextDay(t)

\* Reference: the days from the first of January 1970 to that of year y, by
\* the rule of the Gregorian calendar; and to the first of month m by its table.
DaysToYear(y) ==
    (365 * (y - 1970)) + ((y - 1969) \div 4) - ((y - 1901) \div 100)
        + ((y - 1601) \div 400)
DaysToMonth(y, m) ==
    <<0, 31, 59, 90, 120, 151, 181, 212, 243, 273, 304, 334>>[m]
        + (IF m > 2 /\ Leap(y) THEN 1 ELSE 0)
DayNumber(t) == DaysToYear(t.year) + DaysToMonth(t.year, t.month) + t.day - 1
SecondOfDay(t) == (t.hour * 3600) + (t.minute * 60) + t.second

\* The first of January 1970 was a Thursday; Sunday is 1.
WeekdayOf(day) == ((day + 4) % 7) + 1

Nothing == [f \in Field |-> 0]

ClockInit ==
    /\ \E y \in Years :
           now = Time(y, 1, 1, WeekdayOf(DaysToYear(y)), 0, 0, 0)
    /\ binary \in BOOLEAN
    /\ updating = FALSE
    /\ margin = 0
    /\ pc = "idle"
    /\ next = 1
    /\ reading = Nothing
    /\ started = Nothing
-----------------------------------------------------------------------------
(* The chip                                                                *)

Announce ==
    /\ ~ updating
    /\ now.second = 59 /\ NextSecond(now).year \in Years
    /\ updating' = TRUE
    /\ margin' = MARGIN
    /\ UNCHANGED <<now, binary, driver>>

\* While the driver is reading, its reads measure the time that passes.
Update ==
    /\ updating
    /\ pc = "read" => margin = 0
    /\ now' = NextSecond(now)
    /\ updating' = FALSE
    /\ margin' = 0
    /\ UNCHANGED <<binary, driver>>

\* Time in which nobody asks for it.
Pass(hour) ==
    /\ pc = "idle" /\ ~ updating
    /\ now.second = 0 /\ now.hour <= hour
    /\ now' = SameDay(now, hour, 59, 59)
    /\ UNCHANGED <<binary, updating, margin, driver>>

TwoDigits(t) == [t EXCEPT !.year = @ % 100]
Encoded(n) == IF binary THEN n ELSE ((n \div 10) * 16) + (n % 10)
cmos_read(register) == Encoded(TwoDigits(now)[register])

\* The firmware's choice of divider and rate stands beside the bit (0x26 on a PC).
RegisterA == RATE + (IF updating THEN 128 ELSE 0)
-----------------------------------------------------------------------------
(* rtc_get_time                                                            *)

Begin ==
    /\ pc = "idle"
    /\ pc' = "wait"
    /\ UNCHANGED <<chip, next, reading, started>>

\* Bit 7 of register A.  Mutants: the whole register is tested; another bit is.
is_updating_unmasked == RegisterA # 0
is_updating_bit_6 == (RegisterA \div 64) % 2 = 1
is_updating == RegisterA >= 128

\* while (is_updating()); -- the turns that go round change nothing.
Waited ==
    /\ pc = "wait"
    /\ ~ is_updating
    /\ pc' = "read"
    /\ next' = 1
    /\ started' = now
    /\ UNCHANGED <<chip, reading>>

ReadRegister ==
    /\ pc = "read"
    /\ next <= Len(Registers)
    /\ updating => margin > 0
    /\ reading' = [reading EXCEPT ![Registers[next]] = cmos_read(Registers[next])]
    /\ next' = next + 1
    /\ margin' = IF updating THEN margin - 1 ELSE margin
    /\ UNCHANGED <<now, binary, updating, pc, started>>

bcd_to_binary(b) == ((b \div 16) * 10) + (b % 16)

\* Register B is read, the values are decoded, the century is added.
Decode ==
    /\ pc = "read"
    /\ next > Len(Registers)
    /\ reading' = [f \in Field |->
           (IF binary THEN reading[f] ELSE bcd_to_binary(reading[f]))
               + (IF f = "year" THEN 2000 ELSE 0)]
    /\ pc' = "done"
    /\ UNCHANGED <<chip, next, started>>

Return ==
    /\ pc = "done"
    /\ pc' = "idle"
    /\ next' = 1
    /\ reading' = Nothing
    /\ started' = Nothing
    /\ UNCHANGED chip
-----------------------------------------------------------------------------
(* rtc_get_unix_timestamp                                                  *)

\* The test of both loops.  Mutant: the rule of 400 years is left out.
LeapNeverInCenturies(y) == y % 4 = 0 /\ y % 100 # 0
DriverLeap(y) == (y % 4 = 0 /\ y % 100 # 0) \/ (y % 400 = 0)
days_before_year[y \in 1970 .. 2099] ==
    IF y = 1970 THEN 0
    ELSE days_before_year[y - 1] + (IF DriverLeap(y - 1) THEN 366 ELSE 365)

days_in_month(y) ==
    [<<31, 28, 31, 30, 31, 30, 31, 31, 30, 31, 30, 31>>
        EXCEPT ![2] = IF DriverLeap(y) THEN 29 ELSE 28]
days_before_month[y \in 1970 .. 2099] ==
    [m \in 1 .. 12 |-> IF m = 1 THEN 0
                       ELSE days_before_month[y][m - 1] + days_in_month(y)[m - 1]]

TimestampDay(t) ==
    days_before_year[t.year] + days_before_month[t.year][t.month] + t.day - 1
TimestampSecond(t) == (t.hour * 3600) + (t.minute * 60) + t.second

-----------------------------------------------------------------------------
Chip == Announce \/ Update \/ \E hour \in Hours : Pass(hour)
Driver == Begin \/ Waited \/ ReadRegister \/ Decode \/ Return
ClockNext == Chip \/ Driver

(***************************************************************************)
(* Fairness.  The driver is the only thread.  The chip ends every update   *)
(* it has announced.  The bit is set for 2 ms of every second and a turn   *)
(* of the wait takes microseconds, so a wait that can end again and again  *)
(* ends (SF).                                                              *)
(***************************************************************************)
ClockSpec ==
    /\ ClockInit /\ [][ClockNext]_clockVars
    /\ WF_clockVars(Update)
    /\ SF_clockVars(Waited)
    /\ WF_clockVars(ReadRegister \/ Decode \/ Return)

-----------------------------------------------------------------------------
(* Properties                                                              *)

(***************************************************************************)
(* rtc_get_time reads registers that change under it and checks the bit    *)
(* once, before the first read: what it returns is still one time that     *)
(* the chip showed, with all its digits and its day of the week, in BCD or *)
(* in binary, never the hour of one day with the date of the next.         *)
(***************************************************************************)
ReadingIsOneTime ==
    pc = "done" => reading = started

(***************************************************************************)
(* rtc_get_unix_timestamp counts years and months in loops; it returns the *)
(* days and seconds that the Gregorian calendar gives for the time read.   *)
(***************************************************************************)
TimestampExact ==
    pc = "done" =>
        /\ TimestampDay(reading) = DayNumber(started)
        /\ TimestampSecond(reading) = SecondOfDay(started)
        /\ reading.weekday = WeekdayOf(TimestampDay(reading))

(***************************************************************************)
(* The wait for the end of an update has no bound of its own: the call     *)
(* returns because updates end and the loop sees it, whatever else stands  *)
(* in the register it reads.                                               *)
(***************************************************************************)
ReadReturns == (pc = "wait") ~> (pc = "done")

=============================================================================

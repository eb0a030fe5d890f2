------------------------------ MODULE SkyTime ------------------------------
(* src/sky/src/sky_sys.c, calendar time: a caller takes the time as seconds  *)
(* (SKY_TIME) or as a date (SKY_SYSTEM_TIME), and turns one into the other,  *)
(* in a process whose time zone is fixed.  The calendar is the Gregorian one *)
(* of gmtime_r(3), localtime_r(3) and mktime(3).                             *)
(*                                                                           *)
(* A definition named for a fault (MonthFromOne) is a variant of the one     *)
(* that follows it and no action uses it.                                    *)
EXTENDS Integers

CONSTANTS None,
          Moments,       \* bound: what the clock reads, in seconds
          Microseconds,  \* bound: and in microseconds
          Zones          \* seconds west of Greenwich, and is there a summer time?

\* The calendar is that of the years from 1970 to 2038, in which a time fits 32
\* bits.
LastMoment == 2147483647
LastMicro == 999999
Micros == 0..LastMicro

\* TZ can say less than 25 hours, either way.
LastZone == 89999
MinutesWest == -1499..1499

TimeAssumption ==
    /\ Moments \subseteq 0..LastMoment /\ Microseconds \subseteq Micros
    /\ Zones \subseteq [west : -LastZone..LastZone, summer : BOOLEAN]

VARIABLES
    zone,      \* of the process
    clock,     \* the wall clock
    time,      \* the caller's SKY_TIME, None before it has one
    sys_time,  \* the caller's SKY_SYSTEM_TIME, None before it has one
    source     \* history: the SKY_TIME sys_time was made from, and by which call

vars == <<zone, clock, time, sys_time, source>>

SKY_TIME == [time : Int, useconds : Micros]

Init == /\ zone \in Zones /\ clock \in [time : Moments, useconds : Microseconds]
        /\ time = None /\ sys_time = None /\ source = None
----------------------------------------------------------------------------
(* The C library *)

Leap(y) == y % 4 = 0 /\ (y % 100 # 0 \/ y % 400 = 0)

\* Days from 1970 to the beginning of a year, and of a month of it.
DaysTo(y) == 365 * (y - 1970) + (y - 1969) \div 4 - (y - 1901) \div 100 + (y - 1601) \div 400
DaysToMonth(y, m) ==
    <<0, 31, 59, 90, 120, 151, 181, 212, 243, 273, 304, 334>>[m + 1]
        + (IF Leap(y) /\ m > 1 THEN 1 ELSE 0)

gmtime_r(t) ==
    LET day == t \div 86400
        second == t % 86400
        y == CHOOSE x \in 1969..2038 : DaysTo(x) <= day /\ day < DaysTo(x + 1)
        yday == day - DaysTo(y)
        mon == CHOOSE m \in 0..11 : /\ DaysToMonth(y, m) <= yday
                                    /\ m < 11 => yday < DaysToMonth(y, m + 1) IN
    [tm_year |-> y - 1900, tm_mon |-> mon, tm_mday |-> yday - DaysToMonth(y, mon) + 1,
     tm_wday |-> (day + 4) % 7, tm_yday |-> yday,
     tm_hour |-> second \div 3600, tm_min |-> (second \div 60) % 60, tm_sec |-> second % 60]

\* Where there is a summer time it is from April to September.
Summer(t) == zone.summer /\ gmtime_r(t).tm_mon \in 3..8

SummerHour(t) == IF Summer(t) THEN 3600 ELSE 0
localtime_r(t) == gmtime_r(t - zone.west + SummerHour(t))

\* mktime takes the date as local time, and believes tm_isdst if it is not
\* negative, which it never is here.
mktime(tm, isdst) ==
    LET y == tm.tm_year + 1900 IN
    86400 * (DaysTo(y) + DaysToMonth(y, tm.tm_mon) + tm.tm_mday - 1)
      + 3600 * tm.tm_hour + 60 * tm.tm_min + tm.tm_sec + zone.west
      - (IF isdst > 0 THEN 3600 ELSE 0)
----------------------------------------------------------------------------
(* sky_sys.c *)

tm_time_to_sys_time(tm) ==
    [year |-> tm.tm_year + 1900, month |-> tm.tm_mon + 1, day |-> tm.tm_mday,
     day_of_week |-> tm.tm_wday + 1, day_of_year |-> tm.tm_yday + 1,
     hour |-> tm.tm_hour, minute |-> tm.tm_min, second |-> tm.tm_sec]

MonthFromOne(date) ==
    [tm_year |-> date.year - 1900, tm_mon |-> date.month % 12, tm_mday |-> date.day,
     tm_wday |-> date.day_of_week - 1, tm_yday |-> date.day_of_year - 1,
     tm_hour |-> date.hour, tm_min |-> date.minute, tm_sec |-> date.second]

sys_time_to_tm_time(date) ==
    [tm_year |-> date.year - 1900, tm_mon |-> date.month - 1, tm_mday |-> date.day,
     tm_wday |-> date.day_of_week - 1, tm_yday |-> date.day_of_year - 1,
     tm_hour |-> date.hour, tm_min |-> date.minute, tm_sec |-> date.second]

\* timezone / 60, towards zero as in C.
ZoneInMinutes == IF zone.west < 0 THEN -((-zone.west) \div 60) ELSE zone.west \div 60

\* sys_time, made from a time by the given call.
Made(from, tm, west, call) ==
    /\ sys_time' = [date |-> tm_time_to_sys_time(tm), timezone |-> west, dstflag |-> 0,
                    milliseconds |-> from.useconds \div 1000]
    /\ source' = [from |-> from, call |-> call]
    /\ UNCHANGED <<zone, clock, time>>

sky_time_get_localtime == Made(clock, localtime_r(clock.time), ZoneInMinutes, "localtime")
sky_time_get_gmtime == Made(clock, gmtime_r(clock.time), ZoneInMinutes, "gmtime")

\* Bound: of the times the clock can read.
sky_time_to_sys_time ==
    /\ time # None /\ time.time \in Moments
    /\ Made(time, gmtime_r(time.time), 0, "to_sys_time")

sky_time_get ==
    /\ time' = clock
    /\ UNCHANGED <<zone, clock, sys_time, source>>

\* A result of -1 is an error.
sky_time_from_sys_time ==
    /\ sys_time # None
    /\ LET t == mktime(sys_time_to_tm_time(sys_time.date), sys_time.dstflag) IN
          /\ t # -1
          /\ time' = [time |-> t, useconds |-> sys_time.milliseconds * 1000]
    /\ UNCHANGED <<zone, clock, sys_time, source>>

\* Time passes, or anybody sets the clock: sky_time_set itself never does,
\* because clock_settime refuses CLOCK_REALTIME_COARSE.
ClockMoves ==
    /\ clock' \in [time : Moments, useconds : Microseconds]
    /\ UNCHANGED <<zone, time, sys_time, source>>

Next == \/ sky_time_get_localtime \/ sky_time_get_gmtime \/ sky_time_to_sys_time
        \/ sky_time_get \/ sky_time_from_sys_time \/ ClockMoves

Spec == Init /\ [][Next]_vars
----------------------------------------------------------------------------
(* Properties *)

\* Every variable has its type, the fields of a date those that sky_sys.h:39-52
\* gives them.
TypeOK ==
    /\ zone \in Zones /\ clock \in SKY_TIME
    /\ time = None \/ time \in SKY_TIME
    /\ sys_time = None \/
          LET d == sys_time.date IN
          /\ d.year \in 1900..2038 /\ d.month \in 1..12 /\ d.day \in 1..31
          /\ d.day_of_week \in 1..7 /\ d.day_of_year \in 1..366
          /\ d.hour \in 0..23 /\ d.minute \in 0..59 /\ d.second \in 0..59
          /\ sys_time.milliseconds \in 0..999
          /\ sys_time.timezone \in MinutesWest /\ sys_time.dstflag \in {-1, 0, 1}

\* By how much a date turned into seconds misses the moment it was made from:
\* the hour of summer time which the date does not tell, and all of the time
\* zone if the date is in UTC.
Missed == IF source.call = "localtime" THEN SummerHour(source.from.time) ELSE zone.west

\* A date turned into seconds is the moment it was made from, to the
\* millisecond, over leap days and the ends of years, in every zone, by no more
\* and no less than that.
DateKeepsMoment ==
    [][sky_time_from_sys_time =>
          time' = [time |-> source.from.time + Missed,
                   useconds |-> (source.from.useconds \div 1000) * 1000]]_vars

\* dstflag is positive if daylight saving time is in effect, and zero if it is
\* not (sky_sys.h:49-52).  The code writes zero always (sky_sys.c:202).
DstflagTells ==
    source # None /\ source.call = "localtime" =>
        (sys_time.dstflag > 0 <=> Summer(source.from.time))
=============================================================================

------------------------------ MODULE HttpDate ------------------------------
(***************************************************************************)
(* The dates of HTTP headers (src/http/date.rs): HttpDate::from_unix and   *)
(* the one-second cache over it.  A time is a day since 1970-01-01 and a   *)
(* second of that day, the two halves from_unix first splits it into.      *)
(***************************************************************************)
EXTENDS Integers, TLAPS

CONSTANTS
  FirstDay, LastDay,  \* the days the calendar is followed over
  AskDays             \* the days the cache is asked on (a bound)

VARIABLE hd

\* The era, the year and day of the era, and the March-based month of day z
\* counted from 0000-03-01.
Doe(z) == z % 146097
Yoe(doe) == (doe - (doe \div 1460) + (doe \div 36524) - (doe \div 146096)) \div 365
Doy(doe, yoe) == doe - (365 * yoe + (yoe \div 4) - (yoe \div 100))
Mp(doy) == (5 * doy + 2) \div 153
DayOf(doy, mp) == doy - ((153 * mp + 2) \div 5) + 1
MonthOf(mp) == IF mp < 10 THEN mp + 3 ELSE mp - 9

\* Mutant: the turn of the year is not carried back from March.
YearOfMarch(y, month) == y

YearOf(y, month) == IF month <= 2 THEN y + 1 ELSE y

FromUnix(days, sod) ==
  LET z == days + 719468
      doe == Doe(z)
      yoe == Yoe(doe)
      doy == Doy(doe, yoe)
      mp == Mp(doy)
      month == MonthOf(mp)
  IN  [year |-> YearOf(yoe + (z \div 146097) * 400, month), month |-> month,
       day |-> DayOf(doy, mp), weekday |-> (days + 4) % 7,
       hour |-> sod \div 3600, minute |-> (sod \div 60) % 60,
       second |-> sod % 60]

-----------------------------------------------------------------------------
(* The calendar itself, one day at a time.                                 *)

Leap(y) == y % 4 = 0 /\ (y % 100 # 0 \/ y % 400 = 0)

DaysIn(y, month) ==
  CASE month = 2 -> IF Leap(y) THEN 29 ELSE 28
    [] month \in {4, 6, 9, 11} -> 30
    [] OTHER -> 31

Tomorrow(c) ==
  CASE c.day < DaysIn(c.year, c.month) -> [c EXCEPT !.day = @ + 1]
    [] c.day = DaysIn(c.year, c.month) /\ c.month < 12 ->
         [c EXCEPT !.day = 1, !.month = @ + 1]
    [] OTHER -> [year |-> c.year + 1, month |-> 1, day |-> 1]

Yesterday(c) ==
  CASE c.day > 1 -> [c EXCEPT !.day = @ - 1]
    [] c.day = 1 /\ c.month > 1 ->
         [c EXCEPT !.day = DaysIn(c.year, c.month - 1), !.month = @ - 1]
    [] OTHER -> [year |-> c.year - 1, month |-> 12, day |-> 31]

\* The end of a day, its start, and a second in between.
Seconds == {0, 59, 3661, 86399}

-----------------------------------------------------------------------------

\* DateCache: the second it holds and the text rendered for it.
DateInit ==
  hd = [days |-> 0, cal |-> [year |-> 1970, month |-> 1, day |-> 1],
        sec |-> <<>>, text |-> <<>>, asked |-> <<>>]

\* DateCache::get
Get(c, days, sod) ==
  IF c.sec = <<days, sod>> THEN c
  ELSE [c EXCEPT !.sec = <<days, sod>>, !.text = FromUnix(days, sod)]

AskDate ==
  /\ hd.days \in AskDays
  /\ \E s \in Seconds :
       hd' = [Get(hd, hd.days, s) EXCEPT !.asked = <<hd.days, s>>]

Follows(day) == hd.sec = <<>> \/ day \in AskDays

\* The clock moves on, or is set back; the cache is left as it is.
DayPasses ==
  /\ hd.days < LastDay /\ Follows(hd.days + 1)
  /\ hd' = [hd EXCEPT !.days = @ + 1, !.cal = Tomorrow(@), !.asked = <<>>]

DayBack ==
  /\ hd.days > FirstDay /\ Follows(hd.days - 1)
  /\ hd' = [hd EXCEPT !.days = @ - 1, !.cal = Yesterday(@), !.asked = <<>>]

DateNext == AskDate \/ DayPasses \/ DayBack

-----------------------------------------------------------------------------

\* The parts a date is rendered from by Display's tables (HttpDate).
InRange(d) ==
  /\ d.month \in 1..12 /\ d.day \in 1..31 /\ d.weekday \in 0..6
  /\ d.hour \in 0..23 /\ d.minute \in 0..59 /\ d.second \in 0..59

\* Every date is the calendar's, leap years and centuries included, before and
\* after 1970, and what the cache answers is the date of the second asked for
\* however the clock moved (HttpDate::from_unix, DateCache::get).
DateExact ==
  LET d == FromUnix(hd.days, 0)
  IN  /\ d.year = hd.cal.year /\ d.month = hd.cal.month /\ d.day = hd.cal.day
      /\ hd.asked # <<>> =>
           /\ hd.text = FromUnix(hd.asked[1], hd.asked[2])
           /\ hd.text.hour * 3600 + hd.text.minute * 60 + hd.text.second
                = hd.asked[2]


(***************************************************************************)
(* That the parts of a date stay in their ranges for every time there is,  *)
(* which is what the tables Display indexes rely on.                       *)
(***************************************************************************)
\* The day of the era is one of 0..146096.
LEMMA DayOfEra ==
  ASSUME NEW z \in Int
  PROVE  Doe(z) \in Nat /\ Doe(z) <= 146096
BY DEF Doe

\* The day of the year is one of 0..365.
LEMMA DayOfYear ==
  ASSUME NEW doe \in Nat, doe <= 146096
  PROVE  Doy(doe, Yoe(doe)) \in Nat /\ Doy(doe, Yoe(doe)) <= 365
<1>1. Yoe(doe) \in Int
  BY DEF Yoe
<1>2. ASSUME NEW y \in Int, y = Yoe(doe)
      PROVE  doe - (365 * y + (y \div 4) - (y \div 100)) >= 0
  BY <1>2, SMTT(120) DEF Yoe
<1>3. ASSUME NEW y \in Int, y = Yoe(doe)
      PROVE  doe - (365 * y + (y \div 4) - (y \div 100)) <= 365
  BY <1>3, SMTT(120) DEF Yoe
<1>4. ASSUME NEW y \in Int
      PROVE  Doy(doe, y) \in Int
  BY DEF Doy
<1> QED
  BY <1>1, <1>2, <1>3, <1>4 DEF Doy

\* The March-based month, and the day in it.
LEMMA MonthAndDay ==
  ASSUME NEW doy \in Nat, doy <= 365
  PROVE  Mp(doy) \in 0..11 /\ DayOf(doy, Mp(doy)) \in 1..31
BY DEF Mp, DayOf

\* The month of the calendar.
LEMMA CalendarMonth ==
  ASSUME NEW mp \in 0..11
  PROVE  MonthOf(mp) \in 1..12
BY DEF MonthOf

\* The time of day.
LEMMA TimeOfDay ==
  ASSUME NEW sod \in Nat, sod < 86400
  PROVE  sod \div 3600 \in 0..23 /\ (sod \div 60) % 60 \in 0..59 /\ sod % 60 \in 0..59
<1>1. sod \div 3600 \in 0..23
  OBVIOUS
<1>2. ASSUME NEW n \in Int PROVE n % 60 \in 0..59
  OBVIOUS
<1>3. sod \div 60 \in Int
  OBVIOUS
<1> QED
  BY <1>1, <1>2, <1>3

\* For every day and second: the month is one of the twelve, the day one of
\* 1..31, the weekday one of the seven and the time of day in range, so that
\* Display's MONTHS[month - 1] and WEEKDAYS[weekday] are always in bounds.
THEOREM DateInRange ==
  ASSUME NEW days \in Int, NEW sod \in Nat, sod < 86400
  PROVE  InRange(FromUnix(days, sod))
<1>1. days + 719468 \in Int /\ days + 4 \in Int
  OBVIOUS
<1>2. PICK doe : doe = Doe(days + 719468)
  OBVIOUS
<1>3. doe \in Nat /\ doe <= 146096
  BY <1>1, <1>2, DayOfEra
<1>4. PICK doy : doy = Doy(doe, Yoe(doe))
  OBVIOUS
<1>5. doy \in Nat /\ doy <= 365
  BY <1>3, <1>4, DayOfYear
<1>6. PICK mp : mp = Mp(doy)
  OBVIOUS
<1>7. mp \in 0..11 /\ DayOf(doy, mp) \in 1..31
  BY <1>5, <1>6, MonthAndDay
<1>8. MonthOf(mp) \in 1..12
  BY <1>7, CalendarMonth
<1>9. ASSUME NEW n \in Int PROVE n % 7 \in 0..6
  OBVIOUS
<1>10. (days + 4) % 7 \in 0..6
  BY <1>1, <1>9
<1>11. FromUnix(days, sod).month = MonthOf(mp)
  BY <1>2, <1>4, <1>6 DEF FromUnix
<1>12. FromUnix(days, sod).day = DayOf(doy, mp)
  BY <1>2, <1>4, <1>6 DEF FromUnix
<1>13. FromUnix(days, sod).weekday = (days + 4) % 7
  BY DEF FromUnix
<1>14. FromUnix(days, sod).hour = sod \div 3600
  BY DEF FromUnix
<1>15. FromUnix(days, sod).minute = (sod \div 60) % 60
  BY DEF FromUnix
<1>16. FromUnix(days, sod).second = sod % 60
  BY DEF FromUnix
<1>17. sod \div 3600 \in 0..23 /\ (sod \div 60) % 60 \in 0..59 /\ sod % 60 \in 0..59
  BY TimeOfDay
<1>18. FromUnix(days, sod).month \in 1..12 /\ FromUnix(days, sod).day \in 1..31
  BY <1>7, <1>8, <1>11, <1>12
<1>19. FromUnix(days, sod).weekday \in 0..6
  BY <1>10, <1>13
<1>20. FromUnix(days, sod).hour \in 0..23
  BY <1>14, <1>17
<1>21. FromUnix(days, sod).minute \in 0..59
  BY <1>15, <1>17
<1>22. FromUnix(days, sod).second \in 0..59
  BY <1>16, <1>17
<1> QED
  BY <1>18, <1>19, <1>20, <1>21, <1>22 DEF InRange

=============================================================================

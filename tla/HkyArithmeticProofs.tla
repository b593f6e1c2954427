------------------------ MODULE HkyArithmeticProofs ------------------------
(***************************************************************************)
(* Arithmetic, for every value of the constants and arguments: the tests   *)
(* against overflow of the conversions, the civil date of a day, the       *)
(* layout of a zone, the order of moments on a counter that wraps.         *)
(***************************************************************************)
EXTENDS HkyNumbers, HkyArithmetic, HkyMsec, TLAPS

(* The test with max / 10 and max % 10 decides whether ten times the value *)
(* and the digit are beyond max, without computing that number.            *)
THEOREM NextDecimalExact ==
  ASSUME NEW max \in Nat, NEW value \in 0..max, NEW d \in 0..9
  PROVE NextDecimal(value, d, max) = Fits(value * 10 + d, max)
<1> DEFINE q == max \div 10
           r == max % 10
<1>1. q \in Int /\ r \in 0..9 /\ max = 10 * q + r
  BY SMT
<1>2. (value >= q /\ (value > q \/ d > r)) <=> value * 10 + d > max
  <2> HIDE DEF q, r
  <2> QED
    BY <1>1, SMT
<1> QED
  BY <1>2, SMT DEF NextDecimal, Fits

(* In base 16 the remainder is always the largest digit and needs no test, *)
(* provided that the type has all its bits set in its largest value.       *)
THEOREM NextHexExact ==
  ASSUME NEW max \in Nat, max % 16 = 15, NEW value \in 0..max, NEW d \in 0..15
  PROVE NextHex(value, d, max) = Fits(value * 16 + d, max)
<1> DEFINE q == max \div 16
<1>1. q \in Int /\ max = 16 * q + 15
  BY SMT
<1>2. value > q <=> value * 16 + d > max
  <2> HIDE DEF q
  <2> QED
    BY <1>1, SMT
<1> QED
  BY <1>2, SMT DEF NextHex, Fits

-----------------------------------------------------------------------------
(* hky_gmtime for every day: the date of a day is the one the calendar     *)
(* puts after the date of the day before.  The guess of the year is at     *)
(* most one too high (GuessTight), so that the year counted from March and *)
(* the day in it are the only ones that make up the day (MarchYearRight,   *)
(* MarchYearUnique); the next day is the next of that year or the first of *)
(* the following one (MarchYearNext); month and day are read off the day   *)
(* of the year (CivilNext).                                                *)

(* Days before 1 March of the year y, from 1 March of the year 0.          *)
Before(y) == (365 * y) + (y \div 4) - (y \div 100) + (y \div 400)

(* A quotient stays within one divisor of its number.                      *)
LEMMA Quotient ==
  ASSUME NEW n \in Int, NEW k \in {4, 12, 100, 306, 400}
  PROVE n \div k \in Int /\ k * (n \div k) <= n /\ n < k * (n \div k) + k
  BY SMTT(30)

(* A year is 365 days, and one more if the calendar says so.               *)
LEMMA YearLength ==
  ASSUME NEW y \in Nat
  PROVE Before(y + 1) = Before(y) + 365 + Leap(y + 1)
<1>1. (y + 1) \div 4 = (y \div 4) + (IF (y + 1) % 4 = 0 THEN 1 ELSE 0)
  BY SMTT(30)
<1>2. (y + 1) \div 100 = (y \div 100) + (IF (y + 1) % 100 = 0 THEN 1 ELSE 0)
  BY SMTT(30)
<1>3. (y + 1) \div 400 = (y \div 400) + (IF (y + 1) % 400 = 0 THEN 1 ELSE 0)
  BY SMTT(30)
<1>4. ((y + 1) % 400 = 0 => (y + 1) % 100 = 0) /\ ((y + 1) % 100 = 0 => (y + 1) % 4 = 0)
  BY SMTT(30)
<1>5. y \div 4 \in Int /\ y \div 100 \in Int /\ y \div 400 \in Int
  BY Quotient
<1> QED
  BY <1>1, <1>2, <1>3, <1>4, <1>5, SMTT(30) DEF Before, Leap

(* Later years begin later, by all the years between.                      *)
LEMMA BeforeGrows ==
  ASSUME NEW x \in Nat, NEW y \in Nat, x <= y
  PROVE Before(x) \in Int /\ Before(y) \in Int /\ Before(x) <= Before(y)
<1>1. \A k \in {4, 100, 400} :
        /\ x \div k \in Int /\ k * (x \div k) <= x /\ x < k * (x \div k) + k
        /\ y \div k \in Int /\ k * (y \div k) <= y /\ y < k * (y \div k) + k
  BY Quotient
<1> QED
  BY <1>1, SMTT(60) DEF Before

(* What the division by the mean length of a year gives.                   *)
LEMMA GuessBounds ==
  ASSUME NEW d \in Nat
  PROVE LET g == GuessedYear(d) IN
        g \in Nat /\ 146097 * g <= 400 * d + 800 /\ 400 * d + 800 < 146097 * g + 146097
  BY SMTT(30) DEF GuessedYear

(* The guess misses the year by at most two days before its beginning.     *)
LEMMA GuessTight ==
  ASSUME NEW d \in Nat
  PROVE YearDay(d, GuessedYear(d)) \in -2..364
<1> DEFINE g == GuessedYear(d)
<1>1. g \in Nat /\ 146097 * g <= 400 * d + 800 /\ 400 * d + 800 < 146097 * g + 146097
  BY GuessBounds
<1>2. \A k \in {4, 100, 400} : g \div k \in Int /\ k * (g \div k) <= g /\ g < k * (g \div k) + k
  BY <1>1, Quotient
<1> HIDE DEF g
<1>3. d - Before(g) \in -2..364
  BY <1>1, <1>2, SMTT(60) DEF Before
<1> QED
  BY <1>3 DEF g, Before, YearDay

(* d is the day yday of the year y, both counted from March.               *)
Splits(d, y, yday) == y \in Nat /\ yday \in 0..364 + Leap(y + 1) /\ d = Before(y) + yday

LEMMA MarchYearRight ==
  ASSUME NEW d \in Nat
  PROVE Splits(d, MarchYear(d).year, MarchYear(d).yday)
<1> DEFINE g == GuessedYear(d)
           r == YearDay(d, g)
<1>1. g \in Nat /\ r \in -2..364 /\ r = d - Before(g)
  BY GuessBounds, GuessTight DEF YearDay, Before
<1>2. Before(g) \in Int /\ Leap(g) \in 0..1 /\ Leap(g + 1) \in 0..1
  BY <1>1, BeforeGrows DEF Leap
<1>3. CASE r >= 0
  <2>1. MarchYear(d).year = g /\ MarchYear(d).yday = r
    BY <1>1, <1>3 DEF MarchYear
  <2> HIDE DEF g, r
  <2> QED
    BY <1>1, <1>2, <1>3, <2>1 DEF Splits
<1>4. CASE r < 0
  <2>1. MarchYear(d).year = g - 1 /\ MarchYear(d).yday = 365 + Leap(g) + r
    BY <1>1, <1>4 DEF MarchYear
  <2>2. g >= 1
    <3>1. g = 0 => Before(g) = 0
      BY DEF Before
    <3> QED
      BY <3>1, <1>1, <1>4
  <2>3. g - 1 \in Nat /\ (g - 1) + 1 = g
    BY <1>1, <2>2
  <2>4. Before((g - 1) + 1) = Before(g - 1) + 365 + Leap((g - 1) + 1) /\ Before(g - 1) \in Int
    BY <2>3, YearLength, BeforeGrows
  <2> HIDE DEF g, r
  <2> QED
    BY <1>1, <1>2, <1>4, <2>1, <2>3, <2>4 DEF Splits
<1> QED
  BY <1>1, <1>3, <1>4

(* There is one such pair only.                                            *)
LEMMA MarchYearUnique ==
  ASSUME NEW d \in Nat, NEW y, NEW yday, NEW z, NEW zday,
         Splits(d, y, yday), Splits(d, z, zday)
  PROVE y = z /\ yday = zday
<1>1. ASSUME NEW a \in Nat, NEW aday, NEW b \in Nat, NEW bday,
             Splits(d, a, aday), Splits(d, b, bday), a < b
      PROVE FALSE
  <2>1. Before(a + 1) <= Before(b) /\ Before(b) \in Int
    BY <1>1, BeforeGrows
  <2>2. Before(a + 1) = Before(a) + 365 + Leap(a + 1) /\ Before(a) \in Int
    BY <1>1, YearLength, BeforeGrows
  <2>3. Leap(a + 1) \in 0..1 /\ Leap(b + 1) \in 0..1
    BY DEF Leap
  <2> QED
    BY <1>1, <2>1, <2>2, <2>3 DEF Splits
<1>2. y \in Nat /\ z \in Nat /\ Before(y) \in Int /\ Leap(y + 1) \in 0..1
  BY BeforeGrows DEF Splits, Leap
<1>3. y = z
  BY <1>1, <1>2
<1> QED
  BY <1>2, <1>3 DEF Splits

(* The day after is the next of its year, or the first of the year after.  *)
LEMMA MarchYearNext ==
  ASSUME NEW d \in Nat
  PROVE LET m == MarchYear(d)
            n == MarchYear(d + 1)
        IN IF m.yday < 364 + Leap(m.year + 1)
           THEN n.year = m.year /\ n.yday = m.yday + 1
           ELSE n.year = m.year + 1 /\ n.yday = 0
<1> DEFINE m == MarchYear(d)
           n == MarchYear(d + 1)
<1>1. Splits(d, m.year, m.yday) /\ Splits(d + 1, n.year, n.yday)
  BY MarchYearRight
<1> HIDE DEF m, n
<1>2. /\ Leap(m.year + 1) \in 0..1 /\ Leap((m.year + 1) + 1) \in 0..1
      /\ m.year \in Nat /\ Before(m.year) \in Int
  BY <1>1, BeforeGrows DEF Splits, Leap
<1>3. CASE m.yday < 364 + Leap(m.year + 1)
  <2>1. Splits(d + 1, m.year, m.yday + 1)
    BY <1>1, <1>2, <1>3 DEF Splits
  <2> QED
    BY <1>1, <1>3, <2>1, MarchYearUnique DEF m, n
<1>4. CASE ~(m.yday < 364 + Leap(m.year + 1))
  <2>1. Before(m.year + 1) = Before(m.year) + 365 + Leap(m.year + 1)
    BY <1>2, YearLength
  <2>2. Splits(d + 1, m.year + 1, 0)
    BY <1>1, <1>2, <1>4, <2>1 DEF Splits
  <2> QED
    BY <1>1, <1>4, <2>2, MarchYearUnique DEF m, n
<1> QED
  BY <1>3, <1>4 DEF m, n

(* The months counted from March: the day of the year each begins with.    *)
Starts(m) ==
    CASE m = 1 -> 0 [] m = 2 -> 31 [] m = 3 -> 61 [] m = 4 -> 92 [] m = 5 -> 122
      [] m = 6 -> 153 [] m = 7 -> 184 [] m = 8 -> 214 [] m = 9 -> 245
      [] m = 10 -> 275 [] m = 11 -> 306 [] m = 12 -> 337 [] m = 13 -> 367

(* The divisions by 306 and 12 find month and day of this table.           *)
LEMMA MonthTable ==
  ASSUME NEW yday \in 0..366
  PROVE LET m == MarchMonth(yday)
        IN /\ m \in 1..12
           /\ Starts(m) <= yday /\ yday < Starts(m + 1)
           /\ MonthDay(yday) = yday - Starts(m) + 1
<1> DEFINE m == MarchMonth(yday)
           k == (367 * m) \div 12
<1>1. m \in Int /\ 306 * m <= 10 * yday + 310 /\ 10 * yday + 310 < 306 * m + 306
  BY SMTT(30) DEF MarchMonth
<1>2. k \in Int /\ 12 * k <= 367 * m /\ 367 * m < 12 * k + 12
  BY <1>1, Quotient
<1>3. MonthDay(yday) = yday - (k - 30) + 1
  BY <1>1, <1>2 DEF MonthDay
<1> HIDE DEF m, k
<1>4. m \in 1..12
  BY <1>1
<1>5. k - 30 = Starts(m) /\ Starts(m) <= yday /\ yday < Starts(m + 1)
  <2>1. CASE m \in 1..4
    BY <2>1, <1>1, <1>2, SMTT(30) DEF Starts
  <2>2. CASE m \in 5..8
    BY <2>2, <1>1, <1>2, SMTT(30) DEF Starts
  <2>3. CASE m \in 9..12
    BY <2>3, <1>1, <1>2, SMTT(30) DEF Starts
  <2> QED
    BY <1>4, <2>1, <2>2, <2>3
<1>6. MonthDay(yday) = yday - Starts(m) + 1
  BY <1>3, <1>5
<1> QED
  BY <1>4, <1>5, <1>6 DEF m

(* Month and day of the month, read off the day of the year: one day more  *)
(* is the next day of the calendar, also at the end of a month.            *)
LEMMA CivilNext ==
  ASSUME NEW y \in Nat, NEW yday \in 0..364 + Leap(y + 1)
  PROVE LET m == [year |-> y, yday |-> yday]
            n == IF yday < 364 + Leap(y + 1)
                 THEN [year |-> y, yday |-> yday + 1]
                 ELSE [year |-> y + 1, yday |-> 0]
        IN Civil(n) = NextDate(Civil(m))
<1> DEFINE mm == MarchMonth(yday)
           nm == MarchMonth(yday + 1)
           date == [year |-> IF yday >= 306 THEN y + 1 ELSE y,
                    mon |-> IF yday >= 306 THEN mm - 10 ELSE mm + 2,
                    mday |-> yday - Starts(mm) + 1]
<1>1. /\ Leap(y + 1) \in 0..1 /\ yday \in 0..365 /\ yday + 1 \in 0..366
      /\ LeapYear(y + 1) <=> Leap(y + 1) = 1
  BY DEF Leap, LeapYear
<1>2. /\ mm \in 1..12 /\ Starts(mm) <= yday /\ yday < Starts(mm + 1)
      /\ nm \in 1..12 /\ Starts(nm) <= yday + 1 /\ yday + 1 < Starts(nm + 1)
      /\ MonthDay(yday) = yday - Starts(mm) + 1
      /\ MonthDay(yday + 1) = (yday + 1) - Starts(nm) + 1
  BY <1>1, MonthTable
<1>3. Civil([year |-> y, yday |-> yday]) = date
  BY <1>2 DEF Civil
<1>4. MarchMonth(0) = 1 /\ MonthDay(0) = 1
  BY MonthTable, SMTT(30) DEF MarchMonth, MonthDay
<1>5. CASE yday < 364 + Leap(y + 1)
  <2>1. Civil([year |-> y, yday |-> yday + 1]) =
          [year |-> IF yday + 1 >= 306 THEN y + 1 ELSE y,
           mon |-> IF yday + 1 >= 306 THEN nm - 10 ELSE nm + 2,
           mday |-> (yday + 1) - Starts(nm) + 1]
    BY <1>1, <1>2 DEF Civil
  <2>2. \/ nm = mm /\ yday + 1 < Starts(mm + 1)
        \/ nm = mm + 1 /\ yday + 1 = Starts(mm + 1)
    <3> HIDE DEF mm, nm
    <3> QED
      BY <1>2, SMTT(60) DEF Starts
  <2>3. date.mday < MonthLength(date.year, date.mon) <=> yday + 1 < Starts(mm + 1)
    <3> HIDE DEF mm, nm
    <3> QED
      BY <1>1, <1>2, <1>5, SMTT(60) DEF Starts, MonthLength
  <2>4. CASE nm = mm /\ yday + 1 < Starts(mm + 1)
    <3>1. yday + 1 >= 306 <=> yday >= 306
      <4> HIDE DEF mm, nm
      <4> QED
        BY <1>1, <1>2, <2>4, SMTT(60) DEF Starts
    <3>2. NextDate(date) = [date EXCEPT !.mday = @ + 1]
      BY <2>3, <2>4 DEF NextDate
    <3>3. Starts(mm) \in Int
      BY <1>2 DEF Starts
    <3> HIDE DEF mm, nm
    <3> QED
      BY <1>1, <1>3, <1>5, <2>1, <2>4, <3>1, <3>2, <3>3
  <2>5. CASE nm = mm + 1 /\ yday + 1 = Starts(mm + 1)
    <3>1. /\ yday + 1 >= 306 <=> mm >= 10
          /\ yday >= 306 <=> mm >= 11
          /\ mm < 12
          /\ Starts(nm) = yday + 1
      <4> HIDE DEF mm, nm
      <4> QED
        BY <1>1, <1>2, <2>5, SMTT(60) DEF Starts
    <3>2. ~(date.mday < MonthLength(date.year, date.mon))
      BY <2>3, <2>5, <1>1, <1>2 DEF Starts
    <3> HIDE DEF mm, nm
    <3>3. NextDate(date) =
            [year |-> IF mm >= 10 THEN y + 1 ELSE y,
             mon |-> IF mm >= 10 THEN nm - 10 ELSE nm + 2, mday |-> 1]
      BY <1>2, <2>5, <3>1, <3>2 DEF NextDate
    <3> QED
      BY <1>1, <1>2, <1>3, <1>5, <2>1, <2>5, <3>1, <3>3
  <2> QED
    BY <2>2, <2>4, <2>5
<1>6. CASE ~(yday < 364 + Leap(y + 1))
  <2>1. Civil([year |-> y + 1, yday |-> 0]) = [year |-> y + 1, mon |-> 3, mday |-> 1]
    BY <1>1, <1>4 DEF Civil
  <2>2. yday = 364 + Leap(y + 1)
    BY <1>1, <1>6
  <2>3. mm = 12
    <3> HIDE DEF mm, nm
    <3> QED
      BY <1>1, <1>2, <2>2, SMTT(60) DEF Starts
  <2>4. date = [year |-> y + 1, mon |-> 2, mday |-> 28 + Leap(y + 1)]
    <3> HIDE DEF mm, nm
    <3> QED
      BY <1>1, <2>2, <2>3 DEF Starts
  <2>5. NextDate(date) = [year |-> y + 1, mon |-> 3, mday |-> 1]
    <3> HIDE DEF date
    <3> QED
      BY <1>1, <2>4 DEF NextDate, MonthLength
  <2> QED
    BY <1>3, <1>6, <2>1, <2>5
<1> QED
  BY <1>5, <1>6

(* hky_gmtime gives the epoch to day 0, to each day up to the last one the *)
(* date after that of the day before, and to later days the last date.     *)
THEOREM GmtimeFollowsCalendar ==
  ASSUME NEW days \in Nat
  PROVE SuccessorRight(days)
<1>1. Date(0) = Epoch
  <2>1. Splits(SinceMarch(0), 1969, 306)
    BY SMTT(30) DEF Splits, SinceMarch, Before, Leap
  <2>2. MarchYear(SinceMarch(0)).year = 1969 /\ MarchYear(SinceMarch(0)).yday = 306
    <3>1. SinceMarch(0) \in Nat
      BY SMT DEF SinceMarch
    <3> QED
      BY <2>1, <3>1, MarchYearRight, MarchYearUnique
  <2>3. MarchMonth(306) = 11 /\ MonthDay(306) = 1
    BY SMTT(30) DEF MarchMonth, MonthDay
  <2> QED
    <3>1. Capped(0) = 0
      BY SMT DEF Capped, LastDay
    <3> QED
      BY <2>2, <2>3, <3>1, SMT DEF Date, Civil, Epoch
<1>2. ASSUME NEW d \in Nat, d < LastDay
      PROVE Date(d + 1) = NextDate(Date(d))
  <2> DEFINE s == SinceMarch(d)
             m == MarchYear(s)
             n == MarchYear(s + 1)
  <2>1. s \in Nat /\ SinceMarch(d + 1) = s + 1 /\ Capped(d) = d /\ Capped(d + 1) = d + 1
    <3>1. d \in Nat /\ d <= 2932895
      BY <1>2, SMT DEF LastDay
    <3>2. SinceMarch(d) \in Nat /\ SinceMarch(d + 1) = SinceMarch(d) + 1
      BY <3>1, SMT DEF SinceMarch
    <3>3. Capped(d) = d /\ Capped(d + 1) = d + 1
      BY <3>1, SMT DEF Capped, LastDay
    <3> QED
      BY <3>2, <3>3, SMT
  <2>2. Splits(s, m.year, m.yday) /\ Splits(s + 1, n.year, n.yday)
    BY <2>1, MarchYearRight
  <2>3. /\ m = [year |-> m.year, yday |-> m.yday]
        /\ n = [year |-> n.year, yday |-> n.yday]
    BY DEF MarchYear
  <2>4. m.year \in Nat /\ m.yday \in 0..364 + Leap(m.year + 1)
    BY <2>2 DEF Splits
  <2>5. IF m.yday < 364 + Leap(m.year + 1)
        THEN n.year = m.year /\ n.yday = m.yday + 1
        ELSE n.year = m.year + 1 /\ n.yday = 0
    BY <2>1, MarchYearNext
  <2> HIDE DEF m, n, s
  <2>6. Civil(n) = NextDate(Civil(m))
    <3> DEFINE next == IF m.yday < 364 + Leap(m.year + 1)
                       THEN [year |-> m.year, yday |-> m.yday + 1]
                       ELSE [year |-> m.year + 1, yday |-> 0]
    <3>1. Civil(next) = NextDate(Civil([year |-> m.year, yday |-> m.yday]))
      BY <2>4, CivilNext
    <3>2. n = next
      BY <2>3, <2>5
    <3> QED
      BY <2>3, <3>1, <3>2
  <2> QED
    BY <2>1, <2>6 DEF Date, m, n, s
<1>3. ASSUME days >= LastDay
      PROVE Date(days) = [year |-> 9999, mon |-> 12, mday |-> 31]
  <2>1. Capped(days) = LastDay
    BY <1>3, SMT DEF Capped, LastDay
  <2>2. Splits(SinceMarch(LastDay), 9999, 305) /\ SinceMarch(LastDay) \in Nat
    BY SMTT(30) DEF Splits, SinceMarch, Before, Leap, LastDay
  <2>3. MarchYear(SinceMarch(LastDay)).year = 9999 /\ MarchYear(SinceMarch(LastDay)).yday = 305
    BY <2>2, MarchYearRight, MarchYearUnique
  <2>4. MarchMonth(305) = 10 /\ MonthDay(305) = 31
    BY SMTT(30) DEF MarchMonth, MonthDay
  <2> QED
    BY <2>1, <2>3, <2>4, SMT DEF Date, Civil
<1> QED
  BY <1>1, <1>2, <1>3 DEF SuccessorRight

-----------------------------------------------------------------------------
(* hky_slab_init, for every page size and all sizes of the structures.     *)

(* A quotient, multiplied again, is short of the number by the remainder.  *)
LEMMA QuotientBy ==
  ASSUME NEW a \in Nat, NEW b \in Nat \ {0}
  PROVE  a \div b \in Nat /\ (a \div b) * b <= a /\ a < (a \div b) * b + b
BY SMT

(* A product is not larger than another of one more factor.                *)
LEMMA Monotone ==
  ASSUME NEW a \in Int, NEW c \in Int, NEW b \in Nat, a <= c
  PROVE  a * b <= c * b
BY SMT

LEMMA Multiple ==
  ASSUME NEW a \in Nat, NEW b \in Nat \ {0}
  PROVE  (a * b) % b = 0
BY SMT

(* Rounding up moves an address by less than a page.                       *)
LEMMA AlignedUp ==
  ASSUME NEW p \in Nat
  PROVE  /\ PageAligned(p) \in Nat /\ PageAligned(p) % PageSize = 0
         /\ p <= PageAligned(p) /\ PageAligned(p) < p + PageSize
<1>1. PageSize \in Nat \ {0}
  BY SlabAssumption
<1> DEFINE k == (p + PageSize - 1) \div PageSize
<1>2. p + PageSize - 1 \in Nat
  BY <1>1
<1>3. k \in Nat /\ k * PageSize <= p + PageSize - 1 /\ p + PageSize - 1 < k * PageSize + PageSize
  BY <1>1, <1>2, QuotientBy
<1>4. (k * PageSize) % PageSize = 0
  BY <1>1, <1>3, Multiple
<1>5. PageAligned(p) = k * PageSize
  BY DEF PageAligned
<1> HIDE DEF k
<1>6. k * PageSize \in Nat
  BY <1>1, <1>3
<1> QED
  BY <1>1, <1>3, <1>4, <1>5, <1>6

(* No page reaches beyond the zone or into the structures in front of it,  *)
(* and the test after the alignment gives up one page at most.             *)
THEOREM ZoneFits ==
  ASSUME NEW size \in Nat, size >= PagesAt
  PROVE  PagesFit(SlabInit(size), size)
<1> DEFINE h == PageHeader
           both == PageSize + h
           counted == (size - PagesAt) \div both
           start == PageAligned(PagesAt + (counted * h))
           room == (size - start) \div PageSize
           pages == Fitting(counted, start, size)
<1>1. /\ PageSize \in Nat \ {0} /\ h \in Nat \ {0} /\ both \in Nat \ {0}
      /\ PagesAt \in Nat
  <2>1. PageSize \in Nat \ {0} /\ h \in Nat \ {0} /\ both \in Nat \ {0}
    BY SlabAssumption
  <2>2. Slots * (PageHeader + StatSize) \in Nat
    BY SlabAssumption
  <2> QED
    BY <2>1, <2>2, SlabAssumption DEF PagesAt
<1>2. counted \in Nat /\ counted * both <= size - PagesAt
  <2>1. size - PagesAt \in Nat
    BY <1>1
  <2> QED
    BY <1>1, <2>1, QuotientBy
<1>3. /\ counted * h \in Nat /\ counted * PageSize \in Nat
      /\ counted * both = counted * PageSize + counted * h
  BY <1>1, <1>2, SMT
<1>4. /\ start \in Nat /\ start % PageSize = 0
      /\ PagesAt + counted * h <= start /\ start < PagesAt + counted * h + PageSize
  <2>1. PagesAt + (counted * h) \in Nat
    BY <1>1, <1>3
  <2> HIDE DEF counted
  <2> QED
    BY <2>1, AlignedUp
<1>5. start + (counted * PageSize) < size + PageSize
  <2> HIDE DEF counted, start, both, h
  <2> QED
    BY <1>1, <1>2, <1>3, <1>4
<1>6. SlabInit(size) = [start |-> start, pages |-> pages, free |-> pages,
                        last |-> PagesAt + (pages * PageHeader)]
  BY DEF SlabInit
<1>7. SUFFICES ASSUME pages > 0
               PROVE  /\ PagesAt + (pages * h) <= start
                      /\ start + (pages * PageSize) <= size
                      /\ counted <= pages + 1
  BY <1>4, <1>6, <1>7 DEF PagesFit
<1>8. CASE size >= start
  <2>1. size - start \in Nat
    BY <1>4, <1>8
  <2>2. room \in Nat /\ room * PageSize <= size - start /\ size - start < room * PageSize + PageSize
    BY <1>1, <2>1, QuotientBy
  <2>3. pages = (IF counted > room THEN room ELSE counted)
    BY <1>8 DEF Fitting
  <2>4. pages \in Nat /\ pages <= counted /\ pages <= room
    <3> HIDE DEF counted, room, pages
    <3> QED
      BY <1>2, <2>2, <2>3
  <2>5. pages * h <= counted * h /\ pages * PageSize <= room * PageSize
    <3> HIDE DEF counted, room, pages, h
    <3> QED
      BY <1>1, <1>2, <2>2, <2>4, Monotone
  <2>6. counted <= room + 1
    <3> HIDE DEF counted, room, pages, h, start, both
    <3>1. SUFFICES ASSUME counted >= room + 2 PROVE FALSE
      BY <1>2, <2>2
    <3>2. (room + 2) * PageSize <= counted * PageSize
      BY <1>1, <1>2, <2>2, <3>1, Monotone
    <3>3. (room + 2) * PageSize = room * PageSize + 2 * PageSize
      BY <1>1, <2>2, SMT
    <3>4. room * PageSize \in Nat
      BY <1>1, <2>2, SMT
    <3> QED
      BY <1>1, <1>3, <1>4, <1>5, <2>1, <2>2, <3>2, <3>3, <3>4
  <2>7. pages * h \in Nat /\ pages * PageSize \in Nat /\ room * PageSize \in Nat
    <3> HIDE DEF counted, room, pages, h
    <3> QED
      BY <1>1, <2>2, <2>4, SMT
  <2> HIDE DEF counted, room, pages, h, start, both
  <2> QED
    BY <1>1, <1>2, <1>3, <1>4, <2>1, <2>2, <2>3, <2>4, <2>5, <2>6, <2>7
<1>9. CASE ~(size >= start)
  <2>1. pages = counted
    BY <1>9 DEF Fitting
  <2>2. counted >= 1
    <3> HIDE DEF counted
    <3> QED
      BY <1>2, <1>7, <2>1
  <2>3. PageSize <= counted * PageSize
    <3> HIDE DEF counted
    <3> QED
      BY <1>1, <1>2, <2>2, Monotone
  <2> HIDE DEF counted, room, pages, h, start, both
  <2> QED
    BY <1>1, <1>2, <1>3, <1>4, <1>5, <1>9, <2>3
<1> QED
  BY <1>8, <1>9
-----------------------------------------------------------------------------
(* A counter that wraps orders moments as time does, as long as they are   *)
(* within half its range of each other.                                    *)

(* Sums and differences are moments again, and a difference undoes a sum:    *)
(* hky_event_add_timer gets back the delay it was asked for.                 *)
LEMMA SumWraps ==
    ASSUME NEW now \in Msec, NEW d \in 0..(Half - 1)
    PROVE  Plus(now, d) \in Msec /\ Until(now, Plus(now, d)) = d
<1>1. Half \in Nat /\ Half > 0
  BY HalfAssumption
<1>2. CASE now + d < 2 * Half
  BY <1>1, <1>2 DEF Msec, Plus, Until, Signed, Minus
<1>3. CASE ~(now + d < 2 * Half)
  BY <1>1, <1>3 DEF Msec, Plus, Until, Signed, Minus
<1>4. QED
  BY <1>2, <1>3

(* A difference is right up to whole turns of the counter.                   *)
LEMMA UntilTurns ==
    ASSUME NEW a \in Msec, NEW b \in Msec
    PROVE  /\ Until(a, b) \in (-Half)..(Half - 1)
           /\ Until(a, b) \in {b - a, b - a + 2 * Half, b - a - 2 * Half}
<1>1. Half \in Nat /\ Half > 0
  BY HalfAssumption
<1>2. CASE a <= b
  BY <1>1, <1>2 DEF Msec, Until, Signed, Minus
<1>3. CASE ~(a <= b)
  BY <1>1, <1>3 DEF Msec, Until, Signed, Minus
<1>4. QED
  BY <1>2, <1>3

(* The test of hky_rbtree_insert_timer_value asks which of two timers is due  *)
(* first, whatever the time is, if they are due within half the range.       *)
THEOREM EarlierIsSooner ==
    ASSUME NEW now \in Msec, NEW a \in Msec, NEW b \in Msec,
           Until(now, a) - Until(now, b) \in (1 - Half)..(Half - 1)
    PROVE  Earlier(a, b) <=> Until(now, a) < Until(now, b)
<1>1. Half \in Nat /\ Half > 0
  BY HalfAssumption
<1>2. /\ Until(now, a) \in {a - now, a - now + 2 * Half, a - now - 2 * Half}
      /\ Until(now, b) \in {b - now, b - now + 2 * Half, b - now - 2 * Half}
      /\ Until(b, a) \in {a - b, a - b + 2 * Half, a - b - 2 * Half}
      /\ Until(b, a) \in (-Half)..(Half - 1)
  BY UntilTurns
<1>3. Earlier(a, b) <=> Until(b, a) < 0
  BY DEF Earlier, Until
<1>4. Until(b, a) = Until(now, a) - Until(now, b)
  BY <1>1, <1>2 DEF Msec
<1>5. Until(now, a) \in Int /\ Until(now, b) \in Int
  BY <1>1, UntilTurns
<1>6. QED
  BY <1>3, <1>4, <1>5

(* Among such timers the test is transitive: the tree has an order to keep.  *)
THEOREM EarlierTransitive ==
    ASSUME NEW now \in Msec, NEW a \in Msec, NEW b \in Msec, NEW c \in Msec,
           \A x, y \in {a, b, c} : Until(now, x) - Until(now, y) \in (1 - Half)..(Half - 1),
           Earlier(a, b), Earlier(b, c)
    PROVE  Earlier(a, c)
<1>1. Half \in Nat /\ Half > 0
  BY HalfAssumption
<1>2. /\ Until(now, a) \in Int
      /\ Until(now, b) \in Int
      /\ Until(now, c) \in Int
  BY <1>1, UntilTurns
<1>3. Until(now, a) < Until(now, b) /\ Until(now, b) < Until(now, c)
  BY EarlierIsSooner
<1>4. Until(now, a) < Until(now, c)
  BY <1>2, <1>3
<1>5. QED
  BY <1>4, EarlierIsSooner
=============================================================================

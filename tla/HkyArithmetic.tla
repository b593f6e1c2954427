--------------------------- MODULE HkyArithmetic ----------------------------
(* Two computations without a loop: the civil date of a day, and the layout  *)
(* of a zone.                                                                *)
EXTENDS Integers

-----------------------------------------------------------------------------
(***************************************************************************)
(* hky_gmtime of src/core/hky_times.c 143-192: the civil date of a time,   *)
(* computed without a loop.  A time is given as its whole days since 1970  *)
(* and its seconds within the day, the two numbers the function takes out  *)
(* of time_t first.  Divisions are C's, of numbers that are not negative.  *)
(***************************************************************************)
LastDay == 2932896      \* 31 December 9999, to which later times are capped

(* Days from 1 March of the year 0 to a day counted from 1970.             *)
SinceMarch(days) == days - (31 + 28) + 719527

(* The year counted from March, first guessed from the mean length of a    *)
(* year; the guess may be one too high, which a negative day of the year   *)
(* tells.                                                                  *)
GuessedYear(d) == ((d + 2) * 400) \div ((365 * 400) + 100 - 4 + 1)

YearDay(d, year) ==
    d - ((365 * year) + (year \div 4) - (year \div 100) + (year \div 400))

Leap(year) ==
    IF year % 4 = 0 /\ (year % 100 /= 0 \/ year % 400 = 0) THEN 1 ELSE 0

MarchYear(d) ==
    LET year == GuessedYear(d)
        yday == YearDay(d, year)
    IN IF yday < 0 THEN [year |-> year - 1, yday |-> 365 + Leap(year) + yday]
       ELSE [year |-> year, yday |-> yday]

(* The month counted from March; monthly lengths are read off 367/12 and   *)
(* 306/10 days.  January and February belong to the next civil year.       *)
MarchMonth(yday) == ((yday + 31) * 10) \div 306

MonthDay(yday) == yday - (((367 * MarchMonth(yday)) \div 12) - 30) + 1

(* A mutant: the year turns one day early.                                 *)
CivilEarly(m) ==
    IF m.yday >= 305
    THEN [year |-> m.year + 1, mon |-> MarchMonth(m.yday) - 10,
          mday |-> MonthDay(m.yday)]
    ELSE [year |-> m.year, mon |-> MarchMonth(m.yday) + 2,
          mday |-> MonthDay(m.yday)]

Civil(m) ==
    IF m.yday >= 306
    THEN [year |-> m.year + 1, mon |-> MarchMonth(m.yday) - 10,
          mday |-> MonthDay(m.yday)]
    ELSE [year |-> m.year, mon |-> MarchMonth(m.yday) + 2,
          mday |-> MonthDay(m.yday)]

Capped(days) == IF days < 0 THEN 0 ELSE IF days > LastDay THEN LastDay ELSE days

CappedSecond(days, sec) ==
    IF days < 0 THEN 0 ELSE IF days > LastDay THEN 86399 ELSE sec

Date(days) == Civil(MarchYear(SinceMarch(Capped(days))))

WeekDay(days) == (4 + Capped(days)) % 7

Clock(sec) == [hour |-> sec \div 3600, min |-> (sec % 3600) \div 60,
               sec  |-> (sec % 3600) % 60]

-----------------------------------------------------------------------------
(* The calendar: how many days there are before a civil date, counted from *)
(* 1 January of 1970, by adding up years and months.                       *)
LeapYear(year) == (year % 4 = 0 /\ year % 100 /= 0) \/ year % 400 = 0

MonthLength(year, mon) ==
    CASE mon = 2 -> IF LeapYear(year) THEN 29 ELSE 28
      [] mon \in {4, 6, 9, 11} -> 30
      [] OTHER -> 31

(* The date of the day after.                                              *)
NextDate(d) ==
    IF d.mday < MonthLength(d.year, d.mon) THEN [d EXCEPT !.mday = @ + 1]
    ELSE IF d.mon < 12 THEN [year |-> d.year, mon |-> d.mon + 1, mday |-> 1]
    ELSE [year |-> d.year + 1, mon |-> 1, mday |-> 1]

Epoch == [year |-> 1970, mon |-> 1, mday |-> 1]

(* Dates follow each other as the calendar says, from the epoch on.        *)
SuccessorRight(days) ==
    /\ days = 0 => Date(days) = Epoch
    /\ days < LastDay => Date(days + 1) = NextDate(Date(days))
    /\ days >= LastDay => Date(days) = [year |-> 9999, mon |-> 12, mday |-> 31]

-----------------------------------------------------------------------------
(***************************************************************************)
(* hky_slab_init of src/core/hky_slab.c: how a shared memory zone is laid   *)
(* out.  Behind the pool's own structure come the slots with their          *)
(* statistics, then the structures of the pages, then the pages.  Addresses *)
(* count from the start of the zone, which the kernel aligns to a page.     *)
(***************************************************************************)
CONSTANTS
    PageSize,       \* hky_pagesize
    Slots,          \* hky_pagesize_shift - pool->min_shift
    PoolHeader, PageHeader, StatSize    \* sizes of the structures

\* hky_init_zone_pool and hky_slab_init do not look at the size of a zone; one
\* without room for the slots is for the caller to avoid.
ASSUME SlabAssumption ==
    /\ PageSize \in Nat \ {0} /\ PageHeader \in Nat \ {0}
    /\ Slots \in Nat /\ PoolHeader \in Nat /\ StatSize \in Nat

PagesAt == PoolHeader + (Slots * (PageHeader + StatSize))

(* The pages that fit behind their structures when these are aligned; the   *)
(* difference is computed unsigned, so that no page there is none too many. *)
Fitting(counted, start, end) ==
    IF end >= start /\ counted > (end - start) \div PageSize
    THEN (end - start) \div PageSize
    ELSE counted

PageAligned(p) == ((p + PageSize - 1) \div PageSize) * PageSize

SlabInit(size) ==
    LET counted == (size - PagesAt) \div (PageSize + PageHeader)
        start   == PageAligned(PagesAt + (counted * PageHeader))
        pages   == Fitting(counted, start, size)
    IN  [start |-> start, pages |-> pages, free |-> pages,
         last |-> PagesAt + (pages * PageHeader)]

(* The pages are inside the zone, behind their structures, and no more     *)
(* than one that the sizes allow is lost to the alignment.                 *)
PagesFit(zone, size) ==
    zone.pages > 0 =>
        /\ PagesAt + (zone.pages * PageHeader) <= zone.start
        /\ zone.start + (zone.pages * PageSize) <= size
        /\ zone.start % PageSize = 0
        /\ (size - PagesAt) \div (PageSize + PageHeader) <= zone.pages + 1
=============================================================================

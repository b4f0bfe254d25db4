------------------------------ MODULE Calendar ------------------------------
(***************************************************************************)
(* Dates, timestamps and timeframes (src/src/Helper.cpp,                   *)
(* src/src/Timeframe.cpp).  Timestamps count quarters of a minute from the *)
(* start of FirstYear, so that they stay inside TLC's integers; the code   *)
(* counts milliseconds from 1970.                                          *)
(***************************************************************************)
EXTENDS Integers, Sequences, FiniteSets

FirstYear == 1996
Minute == 4
Day == 24 * 60 * Minute

DaysInMonth == <<31, 28, 31, 30, 31, 30, 31, 31, 30, 31, 30, 31>>
\* Mutant: every fourth year.
IsLeapJulian(year) == year % 4 = 0
IsLeap(year) == (year % 4 = 0 /\ year % 100 # 0) \/ year % 400 = 0
MaxDays(year, month) == IF month = 2 /\ IsLeap(year) THEN 29 ELSE DaysInMonth[month]

\* External: the date library's count of days.
SysDays(date) ==
  LET leaps(y) == (y \div 4) - (y \div 100) + (y \div 400)
      leap == (date.year % 4 = 0 /\ date.year % 100 # 0) \/ date.year % 400 = 0
      before == <<0, 31, 59, 90, 120, 151, 181, 212, 243, 273, 304, 334>>
  IN  365 * (date.year - FirstYear) + leaps(date.year - 1) - leaps(FirstYear - 1)
      + before[date.month] + (IF leap /\ date.month > 2 THEN 1 ELSE 0) + date.day - 1

\* The text must be YYYY-MM-DD with leading zeros; months and days that no
\* calendar has are refused.
ToTimestamp(date) ==
  IF date.month \in 1..12 /\ date.day >= 1 /\ date.day <= MaxDays(date.year, date.month)
  THEN <<SysDays(date) * Day>> ELSE <<>>
\* Whole days between two moments, whichever is first.
DateDiffInDays(t1, t2) == (IF t1 > t2 THEN t1 - t2 ELSE t2 - t1) \div Day
TimestampToDate(t) == (t \div Day) * Day

-----------------------------------------------------------------------------
Timeframes == <<"1m", "3m", "5m", "15m", "30m", "45m", "1h", "2h", "3h", "4h", "6h", "8h",
                "12h", "1D", "3D", "1W", "1M">>
ConvertTimeframeToOneMinutes(t) ==
  [i \in 1..17 |-> <<1, 3, 5, 15, 30, 45, 60, 120, 180, 240, 360, 480, 720, 1440, 4320, 10080,
                     43200>>[i]][CHOOSE i \in 1..17 : Timeframes[i] = t]
\* The last of the priorities that is among them; 1m if none is.
MaxTimeframe(ts) ==
  LET known == {i \in 1..17 : \E j \in DOMAIN ts : ts[j] = Timeframes[i]}
  IN  IF known = {} THEN "1m" ELSE Timeframes[CHOOSE i \in known : \A j \in known : j <= i]

ByBit == {"1m", "3m", "5m", "15m", "30m", "1h", "2h", "4h", "6h", "12h", "1D"}
Binance == {"1m", "3m", "5m", "15m", "30m", "1h", "2h", "4h", "6h", "8h", "12h", "1D"}
Coinbase == {"1m", "5m", "15m", "1h", "6h", "1D"}
ApexPro == {"1m", "5m", "15m", "30m", "1h", "2h", "4h", "6h", "12h", "1D"}
Gate == {"1m", "5m", "15m", "30m", "1h", "2h", "4h", "6h", "8h", "12h", "1D", "1W"}
Ftx == {"1m", "3m", "5m", "15m", "30m", "1h", "2h", "4h", "6h", "12h", "1D"}
BitGet == {"1m", "5m", "15m", "30m", "1h", "4h", "12h", "1D"}
Dydx == {"1m", "5m", "15m", "30m", "1h", "4h", "1D"}
Exchanges == <<ByBit, Binance, Coinbase, ApexPro, Gate, Ftx, BitGet, Dydx>>

Current1mCandleTimestamp(now) == (now \div Minute) * Minute
GetCandleStart(t, candles, now) == now - candles * ConvertTimeframeToOneMinutes(t) * Minute

\* Whole weeks, days, hours, minutes and seconds, the larger first; those of
\* which there is none are left out, and after granularity of them it stops.
ReadableDuration(seconds, granularity) ==
  LET sizes == <<604800, 86400, 3600, 60, 1>>
      rest[i \in 1..6] == IF i = 1 THEN seconds ELSE rest[i - 1] % sizes[i - 1]
      parts == SelectSeq([i \in 1..5 |-> [count |-> rest[i] \div sizes[i], size |-> sizes[i]]],
                         LAMBDA p : p.count > 0)
  IN  SubSeq(parts, 1, IF granularity < Len(parts) THEN granularity ELSE Len(parts))
=============================================================================

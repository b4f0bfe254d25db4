------------------------------ MODULE Candles ------------------------------
(***************************************************************************)
(* Candles (src/src/Candle.cpp): the generator of fake ones, and what is   *)
(* computed from a sequence of them.  Times count minutes.                 *)
(***************************************************************************)
EXTENDS Integers, Sequences, SequencesExt, FiniteSetsExt

Start == 100       \* the time reset gives
Higher(a, b) == IF a > b THEN a ELSE b
Lower(a, b) == IF a < b THEN a ELSE b
\* Bound: of the numbers randint may return, the ends.
RandInt(a, b) == {a, b}

\* CandleGenState: reset and update, with what randint returned.
Resets ==
  (UNION {{[time |-> Start, open |-> o, close |-> c, high |-> h, low |-> Lower(o, c)] :
             h \in {Higher(o, c), Higher(o, c) + 10}} :
          o \in RandInt(40, 100), c \in {110, 30}})
         \cup {[time |-> Start, open |-> 40, close |-> 40, high |-> 40, low |-> 40]}
\* Mutant: the maximum and the minimum are taken before open and close are set.
UpdatedEarly(g, rise) ==
  [time |-> g.time + 1, open |-> g.close, close |-> g.close + rise,
   high |-> Higher(g.open, g.close), low |-> Lower(g.open - 1, g.close)]
\* update overwrites one member after the other: the maximum and the minimum
\* are taken of the new open and close.
Updated(g, rise) ==
  [time |-> g.time + 1, open |-> g.close, close |-> g.close + rise,
   high |-> Higher(g.close, g.close + rise), low |-> Lower(g.close - 1, g.close + rise)]

\* generateFakeCandle: attributes that are not 0 replace what was generated.
FakeCandle(attrs, g, volume) ==
  LET of(name, generated) == IF attrs[name] # 0 THEN attrs[name] ELSE generated
  IN  [time |-> of("time", g.time), open |-> of("open", g.open), close |-> of("close", g.close),
       high |-> of("high", g.high), low |-> of("low", g.low), volume |-> of("volume", volume)]
NoAttrs == [time |-> 0, open |-> 0, close |-> 0, high |-> 0, low |-> 0, volume |-> 0]
\* generateRangeCandles: one after the other, the state kept between them.
RangeCandles(g, rises, volumes) ==
  LET states[i \in 0..Len(rises)] == IF i = 0 THEN g ELSE Updated(states[i - 1], rises[i])
  IN  [i \in DOMAIN rises |-> FakeCandle(NoAttrs, states[i], volumes[i])]

\* generateCandlesFromClosePrices: every candle opens where the last closed,
\* the first one below.
CandlesFromClosePrices(g, prices, volumes) ==
  LET open(i) == IF i = 1 THEN prices[1] - 1 ELSE prices[i - 1]
  IN  [i \in DOMAIN prices |->
         [time |-> g.time + i, open |-> open(i), close |-> prices[i],
          high |-> Higher(open(i), prices[i]), low |-> Lower(open(i), prices[i]),
          volume |-> volumes[i]]]

\* Mutant: the low is that of the first candle, the high that of the last.
CandleOfEnds(minutes, candles, forming) ==
  IF ~ forming /\ Len(candles) # minutes THEN <<>>
  ELSE <<[time |-> Head(candles).time, open |-> Head(candles).open, close |-> Last(candles).close,
          high |-> Last(candles).high, low |-> Head(candles).low,
          volume |-> SumFunction([i \in DOMAIN candles |-> candles[i].volume])]>>
\* generateCandleFromOneMinutes
CandleFromOneMinutes(minutes, candles, forming) ==
  IF ~ forming /\ Len(candles) # minutes THEN <<>>
  ELSE <<[time |-> Head(candles).time, open |-> Head(candles).open, close |-> Last(candles).close,
          high |-> Max({candles[i].high : i \in DOMAIN candles}),
          low |-> Min({candles[i].low : i \in DOMAIN candles}),
          volume |-> SumFunction([i \in DOMAIN candles |-> candles[i].volume])]>>

NextCandleTimestamp(candle, minutes) == candle.time + minutes

\* getCandleSource, twelve times the price it is asked for.
CandleSource(candles, source) ==
  LET prices(c) == [close |-> 12 * c.close, high |-> 12 * c.high, low |-> 12 * c.low,
                    open |-> 12 * c.open, volume |-> 12 * c.volume, hl2 |-> 6 * (c.high + c.low),
                    hlc3 |-> 4 * (c.high + c.low + c.close),
                    ohlc4 |-> 3 * (c.open + c.high + c.low + c.close)]
  IN  IF candles = <<>> THEN <<>> ELSE [i \in DOMAIN candles |-> prices(candles[i])[source]]

\* The candle of a minute without trades.
EmptyCandleFromPreviousCandle(previous, minutes) ==
  [time |-> previous.time + minutes, open |-> previous.close, close |-> previous.close,
   high |-> previous.close, low |-> previous.close, volume |-> 0]
=============================================================================

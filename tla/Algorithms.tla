----------------------------- MODULE Algorithms -----------------------------
(***************************************************************************)
(* The functions of Symbols, Lists, Numbers, Calendar, Candles and Markets *)
(* called with every input of small sets, and what a caller relies on.  A  *)
(* step is one call; "result" is what the functions returned.              *)
(***************************************************************************)
EXTENDS Symbols, Lists, Numbers, Calendar, Candles, Markets

CONSTANTS Pieces,       \* of the names of markets
          MaxPieces,    \* bound: pieces of a name
          Considered,   \* the lists of symbols a configuration may consider
          Cells,        \* prices of a book and of candles
          MaxLevels,    \* bound: prices of a book
          Matrices,     \* matrices to shift, fill and cut
          Shifts,       \* by how many rows
          Maps,         \* maps of maps
          MaxCandles,   \* bound: candles generated or aggregated
          Asks, Bids,   \* sides of books to trim
          Limits,       \* to how many levels
          Offers,       \* bids and asks to trade with
          Years,        \* years of the dates
          Amounts,      \* quantities, in thousandths, and amounts to trade
          Codes         \* letters of genes

\* Prices in the order of their side, none twice.
Before(a, b, ascending) == IF ascending THEN a < b ELSE a > b
Sorted(arr, ascending) ==
  \A i, j \in 1..Len(arr) : i < j => Before(arr[i], arr[j], ascending)
IsSide(levels, up) ==
  /\ levels \in Seq(Int \X Int)
  /\ \A i, j \in 1..Len(levels) : i < j => Before(levels[i][1], levels[j][1], up)
\* A matrix has a cell, and rows of one length.
IsMatrix(m) ==
  /\ m \in Seq(Seq(Int)) /\ m # <<>> /\ m[1] # <<>>
  /\ \A i \in DOMAIN m : Len(m[i]) = Len(m[1])

ASSUME NumbersAssumption ==
  /\ MaxLevels \in Nat /\ MaxCandles \in Nat
  /\ Cells \subseteq Int /\ Shifts \subseteq Int /\ Limits \subseteq Nat
  /\ Amounts \subseteq Nat
ASSUME MatricesAssumption == \A m \in Matrices : IsMatrix(m)
ASSUME SidesAssumption ==
  /\ \A s \in Asks : s # <<>> /\ IsSide(s, TRUE)
  /\ \A s \in Bids : s # <<>> /\ IsSide(s, FALSE)
\* The bot asks for a turnover on books that have levels, at positive prices;
\* nobody offers less than nothing.
ASSUME OffersAssumption ==
  \A offer \in Offers :
    /\ offer.bids # <<>> /\ IsSide(offer.bids, FALSE)
    /\ offer.asks # <<>> /\ IsSide(offer.asks, TRUE)
    /\ \A side \in {offer.bids, offer.asks} :
         \A i \in DOMAIN side : side[i][1] > 0 /\ side[i][2] >= 0

VARIABLES call, result
vars == <<call, result>>

Idle == [op |-> "none"]
Init == call = Idle /\ result = <<>>
Calls(op, args, answer) ==
  call = Idle /\ call' = [op |-> op, args |-> args] /\ result' = answer
Return == call # Idle /\ call' = Idle /\ result' = <<>>

SeqsUpTo(S, n) == UNION {[1..k -> S] : k \in 1..n}
\* The pieces of a name are cut so that three letters are whole pieces.
Names == {s \in SeqsUpTo(Pieces, MaxPieces) :
            /\ s[1] # Dash /\ s[Len(s)] # Dash
            /\ Letters(s[1]) # 3 /\ Len(s) > 1 => Letters(s[1]) + Letters(s[2]) = 3}
SortedBooks(ascending) == {s \in SeqsUpTo(Cells, MaxLevels) : Sorted(s, ascending)}

-----------------------------------------------------------------------------
Name == \E s \in Names, c \in Considered :
          Calls("name", [symbol |-> s, considered |-> c], DashySymbol(s, c))

Search == \E up \in BOOLEAN, x \in Cells : \E s \in SortedBooks(up) :
            Calls("search", [prices |-> s, target |-> x, ascending |-> up],
                  InsertionIndex(s, x, up))

Shift == \E m \in Matrices, k \in Shifts :
           Calls("shift", [matrix |-> m, by |-> k], ShiftMatrix(m, k, NaN))

Merge == \E a, b, c \in Maps :
           Calls("merge", [first |-> a, second |-> b, third |-> c], MergeMaps(MergeMaps(a, b), c))

RoundQty == \E q \in Amounts, p \in 0..3 :
              Calls("round", [qty |-> q, precision |-> p], RoundQtyForLiveMode(q, p))

Trade == \E type \in {"LONG", "SHORT"}, q \in 0..2, fee \in {0, 1}, near \in {10, 50} :
         \E entry, exit \in Cells :
           Calls("trade", [type |-> type, qty |-> q, entry |-> entry, exit |-> exit,
                           fee |-> fee, threshold |-> near],
                 [pnl |-> EstimatePNL(q, entry, exit, type, fee),
                  percent |-> EstimatePNLPercentage(q, entry, exit, type),
                  near |-> IsPriceNear(exit, entry, near), side |-> ClosingSide(type)])

Dna == \E low \in {-3, 0, 5}, high \in {5, 20}, genes \in [1..2 -> Codes] :
         Calls("dna", [low |-> low, high |-> high, genes |-> genes],
               DnaToHp([i \in 1..2 |-> [min |-> low, max |-> high]], genes))

Date == \E y \in Years, m \in 0..13, d \in 0..32 :
          Calls("date", [year |-> y, month |-> m, day |-> d],
                ToTimestamp([year |-> y, month |-> m, day |-> d]))

Duration == \E s \in {0, 59, 60, 3661, 86399, 90061, 694861, 1209600}, g \in 1..6 :
              Calls("duration", [seconds |-> s, granularity |-> g], ReadableDuration(s, g))

Longest == \E ts \in SeqsUpTo(Range(Timeframes), 2) : Calls("timeframe", ts, MaxTimeframe(ts))

Generate == \E g \in Resets, rises \in SeqsUpTo(RandInt(1, 8), MaxCandles) :
              Calls("generate", g, RangeCandles(g, rises, [i \in DOMAIN rises |-> i]))

Aggregate == \E g \in {h \in Resets : h.open = 40 /\ h.close = 30 /\ h.high = 40} :
             \E prices \in SeqsUpTo(Cells, MaxCandles) : \E volumes \in [DOMAIN prices -> {0, 2}] :
               LET candles == CandlesFromClosePrices(g, prices, volumes)
               IN  Calls("aggregate", candles, CandleFromOneMinutes(Len(candles), candles, FALSE))

Trim == \E up \in BOOLEAN, limit \in Limits : \E levels \in IF up THEN Asks ELSE Bids :
          Calls("trim", [levels |-> levels, ascending |-> up, limit |-> limit],
                TrimLevels(levels, up, limit, PriceUnit(levels[1][1])))

TurnOver == \E offer \in Offers, amount \in Amounts :
              Calls("turnover", [bids |-> offer.bids, asks |-> offer.asks, amount |-> amount * Share],
                    GetBestTurnOver(offer.bids, offer.asks, amount * Share))

Next == \/ Name \/ Search \/ Shift \/ Merge \/ RoundQty \/ Trade \/ Dna \/ Date \/ Duration
        \/ Longest \/ Generate \/ Aggregate \/ Trim \/ TurnOver \/ Return
Spec == Init /\ [][Next]_vars

-----------------------------------------------------------------------------
Length(s) == FoldLeft(LAMBDA n, p : n + Letters(p), 0, s)
KnownQuotes == {<<"EUR">>, <<"TRY">>, <<"USD">>, <<"UST">>} \cup
               {<<"FD", "USD">>, <<"T", "USD">>, <<"USD", "T">>, <<"USD", "C">>, <<"USD", "S">>}
\* A name without dash keeps its letters when it gets one; if the configuration
\* considers it, the configuration says where; otherwise the longest known
\* quote it ends with is the quote.  Dashes and underlines go back and forth,
\* and base and quote make up the name again (dashySymbol and its relatives).
SymbolsSurvive ==
  call.op = "name" =>
    LET s == call.args.symbol
        listed == {i \in DOMAIN call.args.considered : DashlessSymbol(call.args.considered[i]) = s}
        ends == {q \in KnownQuotes : IsSuffix(q, s)}
        quote == GetQuoteAsset(result)
    IN  /\ DashlessSymbol(result) = DashlessSymbol(s)
        /\ UnderlineToDashySymbol(DashyToUnderline(result)) = result
        /\ quote # <<>> => /\ GetBaseAsset(result) \o <<Dash>> \o quote[1] = result
                           /\ StringAfterCharacter(result, Dash) = quote[1]
        /\ ~ Contains(s, Dash) =>
             /\ listed # {} => result = call.args.considered[CHOOSE i \in listed : \A j \in listed : i <= j]
             /\ listed = {} /\ ends # {} =>
                  quote # <<>> /\ quote[1] \in ends /\ \A q \in ends : Length(q) <= Length(quote[1])

\* The bisection finds a price iff the book has it, and where it does not, the
\* price inserted there leaves the book sorted; on an ascending book the other
\* bisection agrees (findOrderbookInsertionIndex, insertList, binarySearch).
BookStaysSorted ==
  call.op = "search" =>
    LET prices == call.args.prices  x == call.args.target
        inserted == InsertList(result.at, x, prices)
    IN  /\ result.found <=> \E i \in DOMAIN prices : prices[i] = x
        /\ result.found => prices[result.at + 1] = x
        /\ ~ result.found =>
             /\ inserted # <<>> /\ Range(inserted[1]) = Range(prices) \cup {x}
             /\ Sorted(inserted[1], call.args.ascending)
        /\ call.args.ascending => (BinarySearch(prices, x) = IF result.found THEN result.at ELSE -1)
        /\ CleanOrderbookList([i \in DOMAIN prices |-> <<prices[i], 1, "id">>]) =
             <<[i \in DOMAIN prices |-> <<prices[i], 1>>]>>

\* Indicators are computed on columns that stand for the same candles: a shift
\* moves every column by as much and invents nothing, shifted back only what
\* left the matrix is missing; a column filled down repeats the last value
\* there was; what is cut to the warm-up and brought to the old length again
\* has the same last rows (shift, forwardFill, sliceCandles, sameLength).
RowsAligned ==
  call.op = "shift" =>
    LET m == call.args.matrix  k == call.args.by
        column(n, j) == [i \in DOMAIN n |-> n[i][j]]
        filled == ForwardFill(m, 0)
        cut == SliceCandles(m, 2, FALSE)
        padded == SameLength(m, cut)
    IN  /\ result = <<>> <=> k > Len(m) \/ - k > Len(m)
        /\ result # <<>> => \A j \in DOMAIN m[1] :
             /\ column(result[1], j) = ShiftVector(column(m, j), k, NaN)
             /\ ShiftVector(column(result[1], j), - k, NaN) =
                  [i \in DOMAIN m |-> IF i + k \in DOMAIN m THEN m[i][j] ELSE NaN]
        /\ \A i \in DOMAIN m, j \in DOMAIN m[1] :
             LET above == {h \in 1..i : m[h][j] # NaN}
             IN  filled[i][j] = IF above = {} THEN NaN ELSE m[CHOOSE h \in above : \A g \in above : g <= h][j]
        /\ Len(padded) = Len(m) /\ MatricesEqualWithTolerance(padded, m, 0)
        /\ \A i \in DOMAIN m : i > Len(m) - 2 => padded[i] = m[i]

\* Merging maps, the later has the last word on every inner key and none is
\* lost, however the merges are grouped (mergeMaps).
LastWord ==
  call.op = "merge" =>
    LET a == call.args.first  b == call.args.second  c == call.args.third
    IN  /\ result = MergeMaps(a, MergeMaps(b, c))
        /\ \A d \in {a, b, c} : \A k \in DOMAIN d : DOMAIN d[k] \subseteq DOMAIN result[k]
        /\ \A k \in DOMAIN c : \A i \in DOMAIN c[k] : result[k][i] = c[k][i]

\* What is ordered live is a positive multiple of what the exchange can count
\* and not above what was asked for, except that it is never nothing; other
\* roundings are less than one unit off (roundQtyForLiveMode, round,
\* floorWithPrecision).
QtyAffordable ==
  call.op = "round" =>
    LET u == Unit(call.args.precision)  q == call.args.qty
    IN  /\ result > 0 /\ result % u = 0
        /\ result <= q \/ result = u
        /\ q - result < u
        /\ q < u \/ result = FloorWithPrecision(q, call.args.precision)
        /\ 2 * Distance(Round(q, call.args.precision), q) <= u
        /\ Round(- q, call.args.precision) = - Round(q, call.args.precision)

\* The order that closes a position takes away what it holds, on the side that
\* opens the opposite one; what one side of a trade makes the other one loses,
\* both pay the fee, and a price is near iff the percentage is small
\* (closingSide, prepareQty, estimatePNL, isPriceNear and relatives).
ClosingCloses ==
  call.op = "trade" =>
    LET a == call.args
        other == EstimatePNL(a.qty, a.entry, a.exit, OppositePositionType(a.type), a.fee)
        free == EstimatePNL(a.qty, a.entry, a.exit, a.type, 0)
        percent == result.percent[1]
    IN  /\ PrepareQty(a.qty, a.type) + PrepareQty(a.qty, result.side) = 0
        /\ OrderSideToPositionType(result.side) = OppositePositionType(a.type)
        /\ OppositeSide(PositionTypeToOrderSide(a.type)) = result.side
        /\ a.qty > 0 =>
             /\ result.pnl[1] + other[1] = -2 * a.fee * a.qty * (a.entry + a.exit)
             /\ free[1] > 0 <=> percent.num > 0
             /\ result.near <=> Distance(percent.num, 0) <= a.threshold * percent.den

\* Genes give hyperparameters inside the range of the strategy, more for a
\* higher letter, and both ends of the range can be reached; letters outside
\* the alphabet are refused (dnaToHp).
GenesInRange ==
  call.op = "dna" =>
    LET genes == call.args.genes
    IN  /\ result = <<>> <=> \E i \in 1..2 : genes[i] < 40 \/ genes[i] > 119
        /\ result # <<>> => \A i \in 1..2 :
             /\ result[1][i] \in call.args.low..call.args.high
             /\ genes[i] = 40 => result[1][i] = call.args.low
             /\ genes[i] = 119 => result[1][i] = call.args.high
             /\ \A j \in 1..2 : genes[i] < genes[j] => result[1][i] <= result[1][j]
             /\ Normalize(genes[i], 40, 119) = IF genes[i] = 119 THEN 1 ELSE 0

\* Dates in the order of the calendar are a day apart, with no date in between
\* and none for two days; any moment of a day leads back to its date
\* (toTimestamp, dateDiffInDays, timestampToDate).
CalendarAgrees ==
  call.op = "date" =>
    LET d == call.args
        following == ToTimestamp([d EXCEPT !.day = @ + 1])
        first == ToTimestamp(IF d.month = 12 THEN [year |-> d.year + 1, month |-> 1, day |-> 1]
                             ELSE [d EXCEPT !.month = @ + 1, !.day = 1])
        next == IF following # <<>> THEN following[1] ELSE first[1]
    IN  /\ d.month \in 1..12 /\ d.day \in 1..28 => result # <<>>
        /\ result # <<>> =>
             /\ next = result[1] + Day /\ DateDiffInDays(next, result[1]) = 1
             /\ \A moment \in {0, 1, Day - 1} :
                  /\ TimestampToDate(result[1] + moment) = result[1]
                  /\ Current1mCandleTimestamp(result[1] + moment) \in result[1] + moment - 3..result[1] + moment

\* The parts of a duration are whole, ever smaller, and add up to it, or to
\* less only if it was asked for fewer of them than there are (readableDuration).
DurationAddsUp ==
  call.op = "duration" =>
    LET sum == FoldLeft(LAMBDA n, p : n + p.count * p.size, 0, result)
    IN  /\ sum <= call.args.seconds
        /\ sum < call.args.seconds =>
             /\ Len(result) = call.args.granularity
             /\ result # <<>> /\ call.args.seconds - sum < result[Len(result)].size
        /\ \A i \in DOMAIN result : i > 1 =>
             result[i].size < result[i - 1].size /\ result[i].count * result[i].size < result[i - 1].size

\* Of the timeframes that are asked for the longest is taken, also among those
\* an exchange has, which are all known, and between the start of the candles and now as many of them fit
\* (maxTimeframe, convertTimeframeToOneMinutes, getCandleStart).
LongestTimeframe ==
  call.op = "timeframe" =>
    LET now == Current1mCandleTimestamp(999999999)
        minutes == ConvertTimeframeToOneMinutes(result)
        had(i) == SelectSeq(call.args, LAMBDA t : t \in Exchanges[i])
    IN  /\ result \in Range(call.args)
        /\ \A t \in Range(call.args) : ConvertTimeframeToOneMinutes(t) <= minutes
        /\ \A i \in DOMAIN Exchanges :
             /\ Exchanges[i] \subseteq Range(Timeframes)
             /\ MaxTimeframe(had(i)) \in Range(had(i)) \cup {"1m"}
        /\ now - GetCandleStart(result, 3, now) = 3 * minutes * Minute

Shaped(c) == c.low <= c.open /\ c.low <= c.close /\ c.open <= c.high /\ c.close <= c.high
\* Generated candles follow each other without a gap, minute by minute, and the
\* open and the close of each lie between its low and its high, as do the
\* prices derived from them (CandleGenState, generateFakeCandle).
CandlesChain ==
  call.op = "generate" =>
    /\ \A i \in DOMAIN result : Shaped(result[i])
    /\ \A i \in DOMAIN result : i > 1 =>
         /\ result[i].open = result[i - 1].close
         /\ result[i].time = NextCandleTimestamp(result[i - 1], 1)
    /\ \A s \in {"hl2", "hlc3", "ohlc4"} : \A i \in DOMAIN result :
         CandleSource(result, s)[i] \in 12 * result[i].low..12 * result[i].high

\* The candle of several minutes is the same whether it is made of the minutes or
\* of the candles of the two parts they are split into, also if no trades follow
\* for a minute, and too few candles are refused unless the candle may be forming
\* (generateCandleFromOneMinutes, generateEmptyCandleFromPreviousCandle).
AggregationComposes ==
  call.op = "aggregate" =>
    LET candles == call.args  n == Len(candles)
        part(a, b) == CandleFromOneMinutes(b - a + 1, SubSeq(candles, a, b), FALSE)[1]
        idle == EmptyCandleFromPreviousCandle(Last(candles), 1)
    IN  /\ Shaped(result[1]) /\ \A i \in DOMAIN candles : Shaped(candles[i])
        /\ \A k \in 1..n - 1 :
             result = CandleFromOneMinutes(2, <<part(1, k), part(k + 1, n)>>, FALSE)
        /\ CandleFromOneMinutes(n + 1, Append(candles, idle), FALSE) = result
        /\ CandleFromOneMinutes(n + 1, candles, FALSE) = <<>>
        /\ CandleFromOneMinutes(n + 1, candles, TRUE) = result

\* What a book is trimmed to is a book: strictly ordered, on prices that are
\* multiples of the unit, at or behind the levels they stand for, each for some
\* level, and no longer than allowed (OrderbooksState::trim).  The quantities are
\* left out: the code counts the level that opens a bucket twice in it.
TrimmedIsABook ==
  call.op = "trim" =>
    LET up == call.args.ascending  levels == call.args.levels
        held(i) == {j \in DOMAIN levels :
                      /\ ~ Before(result[i][1], levels[j][1], up)
                      /\ i > 1 => Before(result[i - 1][1], levels[j][1], up)}
    IN  /\ Len(result) <= call.args.limit
        /\ \A i \in DOMAIN result :
             /\ result[i][1] % PriceUnit(levels[1][1]) = 0
             /\ i > 1 => Before(result[i - 1][1], result[i][1], up)
             /\ held(i) # {}
        /\ Len(FixLen(result, 5)) = 5

\* What an order for the amount takes of each level its limit reaches, the best
\* first, where sizes says how much of it a level can take.
Taken(sizes, reached, amount) ==
  [i \in DOMAIN sizes |->
     IF i \in reached
     THEN Lower(sizes[i], Higher(0, amount - SumFunctionOnSet(sizes, 1..i - 1))) ELSE 0]
\* Sold to a level is its quantity, bought for on it what that costs.
Quantities(book) == [i \in DOMAIN book |-> book[i][2] * Share]
Costs(book) == [i \in DOMAIN book |-> book[i][1] * book[i][2] * Share]

\* An order for the amount, limited at the level getBestTurnOver names, would
\* on the same book be executed as far as the whole book goes, and yield what
\* was computed: the bot sizes its next leg by it.
TurnOverReachable ==
  call.op = "turnover" =>
    LET bids == call.args.bids  asks == call.args.asks  amount == call.args.amount
        sold == Taken(Quantities(bids), {i \in DOMAIN bids : bids[i][1] >= result.nxt_bid_lvl}, amount)
        paid == Taken(Costs(asks), {i \in DOMAIN asks : asks[i][1] <= result.nxt_ask_lvl}, amount)
    IN  /\ SumFunction(sold) = Lower(amount, SumFunction(Quantities(bids)))
        /\ result.quote = SumFunction([i \in DOMAIN bids |-> sold[i] * bids[i][1]])
        /\ SumFunction(paid) = Lower(amount, SumFunction(Costs(asks)))
        /\ result.base = SumFunction([i \in DOMAIN asks |-> paid[i] \div asks[i][1]])

-----------------------------------------------------------------------------
\* What is ordered agrees with the wallet, the position and the strategy: the
\* quantity with what was asked for, the closing order with what is held, the
\* parameters with their ranges (Helper.cpp).
OrdersAgree == QtyAffordable /\ ClosingCloses /\ GenesInRange

\* A name, a moment, a duration and a timeframe mean the same in every notation:
\* with and without dash, as a date, in parts, in minutes (Helper.cpp, Timeframe.cpp).
TimesAgree == CalendarAgrees /\ DurationAddsUp /\ LongestTimeframe
NotationsAgree == SymbolsSurvive /\ TimesAgree

\* Data put together stay in place: the rows of matrices in line, the entries of
\* maps under their keys with the last value given (Helper.cpp).
DataInPlace == RowsAligned /\ LastWord

\* Candles agree with the prices they come from, generated one after the other
\* or aggregated from minutes (Candle.cpp).
CandlesAgree == CandlesChain /\ AggregationComposes

=============================================================================

------------------------------- MODULE Schema -------------------------------
(***************************************************************************)
(* The eleven tables of the database and, for each, the column lists that  *)
(* its C++ model repeats by hand: in the attribute constructor, the        *)
(* conflict query of save, INSERT, UPDATE, the two halves of a filter, the *)
(* column selection and the decoding of a row.  Nothing but agreement of   *)
(* these lists makes a saved model come back as it went in; what happens   *)
(* when they are used is in Storage.                                       *)
(*                                                                         *)
(*   ...Columns     columns of the table                                   *)
(*   ...Attributes  columns the attribute constructor fills in             *)
(*   ...Key         criteria of prepareSelectStatementForConflictCheck     *)
(*   ...Inserted    columns of the INSERT; ...Updated, of the UPDATE       *)
(*   ...With        criteria a Filter accepts; ...Where, those whose value *)
(*                  it compares                                            *)
(*   ...Selected    columns a query selects; ...Decoded, those fromRow     *)
(*                  reads and sets                                         *)
(*   ...Unique      columns of the unique index of the migration           *)
(***************************************************************************)

-----------------------------------------------------------------------------
(* orders (db::Order). *)

(* Who and what an order is about, and the terms it is placed on. *)
OrderParties ==
   {"id", "trade_id", "session_id", "exchange_id", "symbol", "exchange_name"}
OrderTerms ==
   {"order_side", "order_type", "reduce_only", "qty", "filled_qty", "price"}
OrderProgress == {"status", "created_at", "executed_at", "canceled_at", "vars"}
OrderColumns == OrderParties \cup OrderTerms \cup OrderProgress
OrderNullable == {"trade_id", "exchange_id", "price", "executed_at", "canceled_at"}
OrderUnique == {"trade_id", "exchange_name", "symbol", "status", "created_at"}
OrderAttributes == OrderColumns
OrderKey == {"trade_id", "exchange_name", "symbol", "status", "created_at"}
OrderInserted == OrderColumns
\* Mutant: the UPDATE leaves out the filled quantity.
OrderUpdatedPartly == OrderColumns \ {"id", "filled_qty"}
OrderUpdated == OrderColumns \ {"id"}
OrderWith ==
   {"id", "trade_id", "session_id", "symbol", "exchange_name", "order_side", "order_type",
    "status", "created_at"}
OrderWhere ==
   {"id", "trade_id", "session_id", "symbol", "exchange_name", "order_side", "order_type",
    "status", "created_at"}
OrderSelected == OrderColumns
OrderDecoded == OrderColumns

-----------------------------------------------------------------------------
(* candles (db::Candle). *)

CandleColumns ==
   {"id", "timestamp", "open", "close", "high", "low", "volume", "exchange_name", "symbol",
    "timeframe"}
CandleUnique == {"exchange_name", "symbol", "timeframe", "timestamp"}
CandleAttributes == CandleColumns
\* Mutant: the conflict query does not compare the time.
CandleKeyTimeless == {"exchange_name", "symbol", "timeframe"}
CandleKey == {"exchange_name", "symbol", "timeframe", "timestamp"}
CandleInserted == CandleColumns
CandleUpdated == CandleColumns \ {"id"}
CandleWith == CandleColumns \cup {"timeframe_or_null", "timestamp_range"}
\* Mutant: the criterion on the timeframe is accepted and not applied.
CandleWhereAny == (CandleColumns \ {"timeframe"}) \cup {"timestamp_range"}
\* The value of timeframe_or_null is compared with nothing: where it is set, the
\* filter compares the value of timeframe instead (see Completed in Storage).
CandleWhere == CandleColumns \cup {"timestamp_range"}
CandleSelected == CandleColumns
CandleDecoded == CandleColumns

-----------------------------------------------------------------------------
(* closed_trades (db::ClosedTrade). *)

ClosedTradeColumns ==
   {"id", "strategy_name", "symbol", "exchange_name", "position_type", "timeframe",
    "opened_at", "closed_at", "leverage"}
ClosedTradeUnique == {}
ClosedTradeAttributes == ClosedTradeColumns
ClosedTradeKey == {"id"}
ClosedTradeInserted == ClosedTradeColumns
ClosedTradeUpdated == ClosedTradeColumns \ {"id"}
ClosedTradeWith == ClosedTradeColumns
ClosedTradeWhere == ClosedTradeColumns
ClosedTradeSelected == ClosedTradeColumns
ClosedTradeDecoded == ClosedTradeColumns

-----------------------------------------------------------------------------
(* daily_balances (db::DailyBalance). *)

DailyBalanceColumns ==
   {"id", "timestamp", "identifier", "exchange_name", "asset", "balance"}
DailyBalanceNullable == {"identifier"}
DailyBalanceUnique == {"identifier", "exchange_name", "asset", "timestamp"}
DailyBalanceAttributes == DailyBalanceColumns
DailyBalanceKey == {"identifier", "exchange_name", "asset", "timestamp"}
DailyBalanceInserted == DailyBalanceColumns
DailyBalanceUpdated == DailyBalanceColumns \ {"id"}
DailyBalanceWith == DailyBalanceColumns
DailyBalanceWhere == DailyBalanceColumns
DailyBalanceSelected == DailyBalanceColumns
DailyBalanceDecoded == DailyBalanceColumns

-----------------------------------------------------------------------------
(* exchange_api_keys (db::ExchangeApiKeys). *)

ExchangeApiKeysColumns ==
   {"id", "exchange_name", "name", "api_key", "api_secret", "additional_fields",
    "created_at"}
ExchangeApiKeysUnique == {"name"}
ExchangeApiKeysAttributes == ExchangeApiKeysColumns
ExchangeApiKeysKey == {"name"}
ExchangeApiKeysInserted == ExchangeApiKeysColumns
ExchangeApiKeysUpdated == ExchangeApiKeysColumns \ {"id"}
ExchangeApiKeysWith == {"id", "exchange_name", "name"}
ExchangeApiKeysWhere == {"id", "exchange_name", "name"}
ExchangeApiKeysSelected == ExchangeApiKeysColumns
ExchangeApiKeysDecoded == ExchangeApiKeysColumns

-----------------------------------------------------------------------------
(* logs (db::Log). *)

LogColumns == {"id", "session_id", "timestamp", "message", "level"}
LogUnique == {}
LogAttributes == LogColumns
LogKey == {"id"}
\* Mutant: the INSERT leaves out the level.
LogInsertedPartly == LogColumns \ {"level"}
LogInserted == LogColumns
LogUpdated == LogColumns \ {"id"}
LogWith == (LogColumns \ {"timestamp", "message"}) \cup {"timestamp_range"}
LogWhere == (LogColumns \ {"timestamp", "message"}) \cup {"timestamp_range"}
LogSelected == LogColumns
LogDecoded == LogColumns

-----------------------------------------------------------------------------
(* notification_api_keys (db::NotificationApiKeys). *)

NotificationApiKeysColumns == {"id", "name", "driver", "fields", "created_at"}
NotificationApiKeysUnique == {"name"}
NotificationApiKeysAttributes == NotificationApiKeysColumns
NotificationApiKeysKey == {"name"}
NotificationApiKeysInserted == NotificationApiKeysColumns
NotificationApiKeysUpdated == NotificationApiKeysColumns \ {"id"}
NotificationApiKeysWith == NotificationApiKeysColumns \ {"fields", "created_at"}
NotificationApiKeysWhere == NotificationApiKeysColumns \ {"fields", "created_at"}
NotificationApiKeysSelected == NotificationApiKeysColumns
NotificationApiKeysDecoded == NotificationApiKeysColumns

-----------------------------------------------------------------------------
(* options (db::Option). *)

OptionColumns == {"id", "updated_at", "option_type", "value"}
OptionUnique == {}
OptionAttributes == OptionColumns
OptionKey == {"id"}
OptionInserted == OptionColumns
OptionUpdated == OptionColumns \ {"id"}
OptionWith == {"id", "option_type"}
OptionWhere == {"id", "option_type"}
OptionSelected == OptionColumns
OptionDecoded == OptionColumns

-----------------------------------------------------------------------------
(* orderbooks (db::Orderbook). *)

OrderbookColumns == {"id", "timestamp", "symbol", "exchange_name", "data"}
OrderbookUnique == {"exchange_name", "symbol", "timestamp"}
OrderbookAttributes == OrderbookColumns
OrderbookKey == {"exchange_name", "symbol", "timestamp"}
OrderbookInserted == OrderbookColumns
OrderbookUpdated == OrderbookColumns \ {"id"}
OrderbookWith == (OrderbookColumns \ {"data"}) \cup {"timestamp_range"}
OrderbookWhere == (OrderbookColumns \ {"data"}) \cup {"timestamp_range"}
OrderbookSelected == OrderbookColumns
OrderbookDecoded == OrderbookColumns

-----------------------------------------------------------------------------
(* tickers (db::Ticker). *)

TickerColumns ==
   {"id", "timestamp", "last_price", "volume", "high_price", "low_price", "symbol",
    "exchange_name"}
TickerUnique == {"exchange_name", "symbol", "timestamp"}
TickerAttributes == TickerColumns
TickerKey == {"exchange_name", "symbol", "timestamp"}
TickerInserted == TickerColumns
TickerUpdated == TickerColumns \ {"id"}
TickerWith ==
   {"id", "timestamp", "symbol", "exchange_name", "timestamp_range", "last_price_range"}
\* Mutant: the criterion on the exchange is accepted and not applied.
TickerWhereAny ==
   {"id", "timestamp", "symbol", "timestamp_range", "last_price_range"}
TickerWhere ==
   {"id", "timestamp", "symbol", "exchange_name", "timestamp_range", "last_price_range"}
TickerSelected == TickerColumns
TickerDecoded == TickerColumns

-----------------------------------------------------------------------------
(* trades (db::Trade). *)

TradeColumns ==
   {"id", "timestamp", "price", "buy_qty", "sell_qty", "buy_count", "sell_count", "symbol",
    "exchange_name"}
TradeUnique == {"exchange_name", "symbol", "timestamp"}
TradeAttributes == TradeColumns
TradeKey == {"exchange_name", "symbol", "timestamp"}
TradeInserted == TradeColumns
TradeUpdated == TradeColumns \ {"id"}
TradeWith ==
   {"id", "timestamp", "symbol", "exchange_name", "timestamp_range", "price_range"}
TradeWhere ==
   {"id", "timestamp", "symbol", "exchange_name", "timestamp_range", "price_range"}
TradeSelected == TradeColumns
TradeDecoded == TradeColumns

-----------------------------------------------------------------------------
(* The lists of a table, by the name of the list. *)
Tables ==
  [orders |-> [columns |-> OrderColumns, nullable |-> OrderNullable, unique |-> OrderUnique,
      attributes |-> OrderAttributes, key |-> OrderKey, inserted |-> OrderInserted,
      updated |-> OrderUpdated, with |-> OrderWith, where |-> OrderWhere,
      selected |-> OrderSelected, decoded |-> OrderDecoded],
   candles |-> [columns |-> CandleColumns, nullable |-> {}, unique |-> CandleUnique,
      attributes |-> CandleAttributes, key |-> CandleKey, inserted |-> CandleInserted,
      updated |-> CandleUpdated, with |-> CandleWith, where |-> CandleWhere,
      selected |-> CandleSelected, decoded |-> CandleDecoded],
   closed_trades |-> [columns |-> ClosedTradeColumns, nullable |-> {}, unique |-> ClosedTradeUnique,
      attributes |-> ClosedTradeAttributes, key |-> ClosedTradeKey, inserted |-> ClosedTradeInserted,
      updated |-> ClosedTradeUpdated, with |-> ClosedTradeWith, where |-> ClosedTradeWhere,
      selected |-> ClosedTradeSelected, decoded |-> ClosedTradeDecoded],
   daily_balances |-> [columns |-> DailyBalanceColumns, nullable |-> DailyBalanceNullable, unique |-> DailyBalanceUnique,
      attributes |-> DailyBalanceAttributes, key |-> DailyBalanceKey, inserted |-> DailyBalanceInserted,
      updated |-> DailyBalanceUpdated, with |-> DailyBalanceWith, where |-> DailyBalanceWhere,
      selected |-> DailyBalanceSelected, decoded |-> DailyBalanceDecoded],
   exchange_api_keys |-> [columns |-> ExchangeApiKeysColumns, nullable |-> {}, unique |-> ExchangeApiKeysUnique,
      attributes |-> ExchangeApiKeysAttributes, key |-> ExchangeApiKeysKey, inserted |-> ExchangeApiKeysInserted,
      updated |-> ExchangeApiKeysUpdated, with |-> ExchangeApiKeysWith, where |-> ExchangeApiKeysWhere,
      selected |-> ExchangeApiKeysSelected, decoded |-> ExchangeApiKeysDecoded],
   logs |-> [columns |-> LogColumns, nullable |-> {}, unique |-> LogUnique,
      attributes |-> LogAttributes, key |-> LogKey, inserted |-> LogInserted,
      updated |-> LogUpdated, with |-> LogWith, where |-> LogWhere,
      selected |-> LogSelected, decoded |-> LogDecoded],
   notification_api_keys |-> [columns |-> NotificationApiKeysColumns, nullable |-> {}, unique |-> NotificationApiKeysUnique,
      attributes |-> NotificationApiKeysAttributes, key |-> NotificationApiKeysKey, inserted |-> NotificationApiKeysInserted,
      updated |-> NotificationApiKeysUpdated, with |-> NotificationApiKeysWith, where |-> NotificationApiKeysWhere,
      selected |-> NotificationApiKeysSelected, decoded |-> NotificationApiKeysDecoded],
   options |-> [columns |-> OptionColumns, nullable |-> {}, unique |-> OptionUnique,
      attributes |-> OptionAttributes, key |-> OptionKey, inserted |-> OptionInserted,
      updated |-> OptionUpdated, with |-> OptionWith, where |-> OptionWhere,
      selected |-> OptionSelected, decoded |-> OptionDecoded],
   orderbooks |-> [columns |-> OrderbookColumns, nullable |-> {}, unique |-> OrderbookUnique,
      attributes |-> OrderbookAttributes, key |-> OrderbookKey, inserted |-> OrderbookInserted,
      updated |-> OrderbookUpdated, with |-> OrderbookWith, where |-> OrderbookWhere,
      selected |-> OrderbookSelected, decoded |-> OrderbookDecoded],
   tickers |-> [columns |-> TickerColumns, nullable |-> {}, unique |-> TickerUnique,
      attributes |-> TickerAttributes, key |-> TickerKey, inserted |-> TickerInserted,
      updated |-> TickerUpdated, with |-> TickerWith, where |-> TickerWhere,
      selected |-> TickerSelected, decoded |-> TickerDecoded],
   trades |-> [columns |-> TradeColumns, nullable |-> {}, unique |-> TradeUnique,
      attributes |-> TradeAttributes, key |-> TradeKey, inserted |-> TradeInserted,
      updated |-> TradeUpdated, with |-> TradeWith, where |-> TradeWhere,
      selected |-> TradeSelected, decoded |-> TradeDecoded]]
=============================================================================

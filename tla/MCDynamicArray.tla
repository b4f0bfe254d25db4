--------------------------- MODULE MCDynamicArray ---------------------------
(* The ways the program uses its arrays, and one that uses everything. *)
EXTENDS DynamicArray, TLC

Uses ==
  {{"append", "overwrite"},                     \* candles, order books, tickers
   {"append", "appendMultiple", "overwrite"},   \* candles loaded in batches
   {"append", "flush"},                         \* trades of the current second
   {"append", "appendMultiple", "overwrite", "deleteRow", "flush"}}
Symmetry == Permutations(Values)
=============================================================================

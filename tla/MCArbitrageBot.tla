--------------------------- MODULE MCArbitrageBot ---------------------------
(* Two coins, with the market between B and C listed among theirs. *)
EXTENDS ArbitrageBot

Published == {<<>>, <<"x", B, "y">>}
=============================================================================

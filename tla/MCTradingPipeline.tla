------------------------- MODULE MCTradingPipeline -------------------------
(* TLC instance of TradingPipeline.  The three quotes are one the strategy *)
(* ignores (narrow), one it buys (wide) and one it wants to buy but risk   *)
(* rejects for its notional (dear).                                        *)
EXTENDS TradingPipeline

MCQuotes == {<<10, 12>>, <<10, 15>>, <<30, 35>>}
MCLimits == [position |-> 2, qty |-> 2, notional |-> 20]
=============================================================================

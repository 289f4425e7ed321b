--------------------------- MODULE MCReplayChain ---------------------------
(* TLC instance of ReplayChain: a quote that is too narrow, one that is    *)
(* bought and one that risk rejects.                                       *)
EXTENDS ReplayChain

MCQuotes == {<<10, 12>>, <<10, 15>>, <<30, 35>>}
MCLimits == [position |-> 10, qty |-> 2, notional |-> 20]
=============================================================================

------------------------- MODULE MCDistributedNodes -------------------------
(* TLC instance of DistributedNodes: a quote the strategy buys (wide) and  *)
(* one it wants to buy but risk rejects (dear).                            *)
EXTENDS DistributedNodes

MCQuotes == {<<10, 15>>, <<30, 35>>}
MCWide   == {<<10, 15>>}
MCLimits == [position |-> 10, qty |-> 2, notional |-> 20]
=============================================================================

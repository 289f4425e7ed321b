---------------------------- MODULE MCLiveRouter ----------------------------
(* TLC instance of LiveRouter: frames with zero to two decimals whose      *)
(* quotes beat each other on both sides, quantities with one and with more *)
(* than six decimals, a crossed quote, a frame without an ask and one      *)
(* whose sequence does not fit; for the price ticks, one that has three    *)
(* decimals.                                                               *)
EXTENDS LiveRouter

Num(whole, frac) == [neg |-> FALSE, whole |-> whole, frac |-> frac]

QuoteFrame(bid, ask) ==
    [seq |-> Num(<<7>>, <<>>), bid |-> bid, ask |-> ask,
     bidQty |-> Num(<<1>>, <<5>>), askQty |-> Num(<<0>>, <<0, 0, 0, 0, 1, 2, 9>>)]

Wide    == QuoteFrame(Num(<<1, 0>>, <<5>>), Num(<<1, 4>>, <<2, 5>>))
Narrow  == QuoteFrame(Num(<<1, 2>>, <<0, 7>>), Num(<<1, 3>>, <<>>))
Crossed == QuoteFrame(Num(<<9>>, <<>>), Num(<<8>>, <<5>>))
NoAsk   == [Wide EXCEPT !.ask = None]
BadSeq  == [Wide EXCEPT !.seq = Num(<<9, 9, 9>>, <<>>)]

\* as the venues write that send more than two decimals
Long == QuoteFrame(Num(<<1, 1>>, <<5, 0, 0>>), Num(<<1, 2>>, <<5, 0, 0>>))

MCFrames   == {Wide, Narrow, Crossed, NoAsk, BadSeq}
LongFrames == {Narrow, Long}
=============================================================================

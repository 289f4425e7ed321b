------------------------- MODULE MarketDataAdapter -------------------------
(***************************************************************************)
(* src/market_data_adapter.cpp: how a venue's text frame becomes a         *)
(* normalized update with integer prices (ticks of 1/100) and integer      *)
(* quantities (units of 1/1000000).                                        *)
(*                                                                         *)
(* A number in a frame is a numeral [neg, whole, frac]: a sign and the     *)
(* digits on both sides of the decimal point, as the venue wrote them.  A  *)
(* frame has the fields the normalizers look for, None where the text does *)
(* not have one (a subscription message, a cut frame).                     *)
(***************************************************************************)
EXTENDS Integers, Sequences, FiniteSetsExt

CONSTANTS
    None,        \* std::nullopt
    MaxSequence  \* the largest exchange sequence that fits, 2^64 - 1

Digit   == 0 .. 9
Numeral == [neg : BOOLEAN, whole : Seq(Digit), frac : Seq(Digit)]
Fields  == {"seq", "bid", "bidQty", "ask", "askQty"}
Frame   == [Fields -> Numeral \cup {None}]

\* value = value * 10 + digit, over the digits
Digits(ds) ==
    LET value[n \in 0 .. Len(ds)] == IF n = 0 THEN 0 ELSE value[n - 1] * 10 + ds[n]
    IN  value[Len(ds)]

\* The nth power of ten: a one and n zeros.
TenTo(n) == Digits(<<1>> \o [k \in 1 .. n |-> 0])

\* Plausible bug: the fraction is not padded, so that 1.5 is 1.05.
Fraction_NoPadding(frac, kept, width) == Digits(SubSeq(frac, 1, Min({kept, Len(frac)})))

\* The digits behind the point, the first kept of them, filled up with zeros
\* to width.
Fraction(frac, kept, width) ==
    LET taken == Min({kept, Len(frac)})
        zeros == IF taken < width THEN width - taken ELSE 0
    IN  Digits(SubSeq(frac, 1, taken)) * TenTo(zeros)

Signed(numeral, n) == IF numeral.neg THEN -n ELSE n

\* scale = 100: up to nine digits are kept and two are counted for.
parse_price_to_ticks(numeral) ==
    Signed(numeral, Digits(numeral.whole) * 100 + Fraction(numeral.frac, 9, 2))

parse_quantity_to_units(numeral) ==
    Signed(numeral, Digits(numeral.whole) * 1000000 + Fraction(numeral.frac, 6, 6))

\* std::from_chars: no digit, a sign or too large a number is an error.
parse_sequence(numeral) ==
    IF numeral.neg \/ numeral.whole = <<>> \/ Digits(numeral.whole) > MaxSequence
    THEN None ELSE Digits(numeral.whole)

\* The early returns of the normalizers: every field is there and the
\* sequence can be read.
Complete(frame) ==
    /\ \A f \in Fields : frame[f] # None
    /\ parse_sequence(frame.seq) # None

\* normalize_binance_book_ticker, normalize_coinbase_ticker,
\* normalize_polygon_quote and normalize_hyperliquid_l2book, which differ in
\* the names of the fields.  frame is kept for the properties.
Normalize(frame) ==
    IF ~Complete(frame) THEN None
    ELSE [seq    |-> parse_sequence(frame.seq),
          bid    |-> parse_price_to_ticks(frame.bid),
          bidQty |-> parse_quantity_to_units(frame.bidQty),
          ask    |-> parse_price_to_ticks(frame.ask),
          askQty |-> parse_quantity_to_units(frame.askQty),
          frame  |-> frame]

-----------------------------------------------------------------------------
(* What the conversions are for, without the digits' positions: fractions  *)
(* compared by cross multiplication.                                       *)

\* All digits as one integer; the value is that integer / 10 ^ Len(frac).
Unscaled(numeral) == Signed(numeral, Digits(numeral.whole \o numeral.frac))

\* n is the value in units of 10 ^ -places, rounded towards zero.
Truncated(n, numeral, places) ==
    LET unit == TenTo(Len(numeral.frac))
        v == Unscaled(numeral) * TenTo(places)
    IN  IF numeral.neg THEN (n - 1) * unit < v /\ v <= n * unit
                       ELSE n * unit <= v /\ v < (n + 1) * unit

AtMost(a, b) == Unscaled(a) * TenTo(Len(b.frac)) <= Unscaled(b) * TenTo(Len(a.frac))
=============================================================================

---------------------------- MODULE TradingCore ----------------------------
(***************************************************************************)
(* The sequential components every runtime of the platform is put together *)
(* from: TopOfBook, StrategyEngine, RiskEngine.  Each is given as a        *)
(* function of its state and its input; the modules that compose them keep *)
(* the state.                                                              *)
(***************************************************************************)
EXTENDS Integers

\* A MarketDataUpdate is a record [seq, bid, ask] (exchange_sequence, bid_px,
\* ask_px), a Signal or an order's terms a record [side, px, qty].

\* TopOfBook with has_value_ = false, StrategyEngine's std::nullopt.
NoBook   == [seq |-> 0, bid |-> 0, ask |-> 0]
NoSignal == [side |-> "none", px |-> 0, qty |-> 0]

\* Plausible bug: the sequence number is not compared.
BookApply_NoSequenceTest(book, update) == update

\* TopOfBook::apply: an update that is not newer is ignored.
BookApply(book, update) ==
    IF book # NoBook /\ update.seq <= book.seq THEN book ELSE update

MinSpread == 4

\* StrategyEngine::on_market_data, after book_.apply: a function of the
\* snapshot only, whether or not the update was applied.
OnMarketData(book) ==
    LET spread == book.ask - book.bid IN
    IF book # NoBook /\ spread >= MinSpread
    THEN [side |-> "Buy", px |-> book.bid + 1, qty |-> 1]
    ELSE NoSignal

Abs(n) == IF n < 0 THEN -n ELSE n

\* RiskEngine::check, limits a record [position, qty, notional].
RiskOk(order, position, limits) ==
    /\ order.qty > 0
    /\ order.qty <= limits.qty
    /\ order.qty * order.px <= limits.notional
    /\ Abs(position + (IF order.side = "Buy" THEN order.qty ELSE -order.qty))
          <= limits.position
=============================================================================

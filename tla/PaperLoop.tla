------------------------------ MODULE PaperLoop ------------------------------
(***************************************************************************)
(* The simulated trading of paper mode: one market after the other is      *)
(* forecast, gated, sized and filled by a model of the book, alone or      *)
(* beside the orchestrator, and the loop reports profit, fees, fill ratio  *)
(* and the worst fall.  Probabilities in percent, prices and money in      *)
(* cents, fees in whole dollars as the code rounds them.                   *)
(***************************************************************************)
EXTENDS Integers, Sequences, FiniteSets, SequencesExt, FiniteSetsExt, RunningTotal

CONSTANTS
    PaperMarkets,   \* [id, bid, ask, depth]
    PaperForecasts, \* what the model may say, in percent; -1 is no answer
    PaperSizes,     \* what the sizing may ask for
    FeeBps,         \* [maker, taker]
    FillFraction    \* percent of an order above the depth that is filled

\* Sizes, prices and depths are amounts; no part of an order is more than all of it.
ASSUME PaperAssumption ==
    /\ PaperMarkets \in SUBSET [id : Int, bid : Nat, ask : Nat, depth : Nat] /\ IsFiniteSet(PaperMarkets)
    /\ PaperForecasts \subseteq Int /\ PaperSizes \subseteq Nat
    /\ FeeBps \in [maker : Nat, taker : Nat] /\ FillFraction \in 0..100

VARIABLES
    loop,       \* the loop that runs and its report: [kind, taker, pc]
    queue,      \* the markets it has not looked at yet
    acc         \* its accumulators

paperVars == <<loop, queue, acc>>

Fresh == [fees |-> 0, gross |-> 0, turnover |-> 0, submitted |-> 0, filled |-> 0,
          equity |-> <<100000>>, pnls |-> << >>, forecasts |-> 0, outcomes |-> 0]

(***************************************************************************)
(* simulateFill                                                            *)
(***************************************************************************)

RoundedFee(notional, bps) == (notional * bps + 500000) \div 1000000
NoFill == [filled |-> 0, price |-> 0, fee |-> 0]

SimulateFill(size, market, taker, cancelled) ==
    LET filled == IF size <= market.depth THEN size ELSE (size * FillFraction) \div 100
        price == IF taker THEN market.ask ELSE market.bid
    IN  IF cancelled \/ filled <= 0 THEN NoFill
        ELSE [filled |-> filled, price |-> price,
              fee |-> RoundedFee(filled * price, IF taker THEN FeeBps.taker ELSE FeeBps.maker)]

(***************************************************************************)
(* The loops                                                               *)
(***************************************************************************)

Uncertain(p) == p = -1 \/ p <= 2 \/ p >= 98 \/ (48 < p /\ p < 52)

LoopStarts(kind, taker, markets) ==
    /\ loop.pc = "none"
    /\ loop' = [kind |-> kind, taker |-> taker, pc |-> "run"]
    /\ queue' = markets /\ acc' = Fresh

Skips(m, p) ==
    /\ loop.pc = "run" /\ m \in queue
    /\ Uncertain(p)
    /\ queue' = queue \ {m} /\ UNCHANGED <<loop, acc>>

\* Beside the orchestrator a closed gate ends the market before it is sized,
\* and a refused order after it: that size was submitted and never filled.
Blocked(m) ==
    /\ loop.pc = "run" /\ loop.kind = "orchestrated" /\ m \in queue
    /\ queue' = queue \ {m} /\ UNCHANGED <<loop, acc>>

Refuses(m, size) ==
    /\ loop.pc = "run" /\ loop.kind = "orchestrated" /\ m \in queue
    /\ acc' = [acc EXCEPT !.submitted = @ + size]
    /\ queue' = queue \ {m} /\ UNCHANGED loop

\* The value of a fill is its distance from even odds.
Counted(a, p, size, fill, decided) ==
    LET pnl == (p - 50) * fill.filled - 100 * fill.fee
    IN  [a EXCEPT !.submitted = @ + size, !.filled = @ + fill.filled,
                  !.fees = @ + 100 * fill.fee, !.gross = @ + pnl + 100 * fill.fee,
                  !.turnover = @ + fill.filled * fill.price,
                  !.pnls = Append(@, pnl), !.equity = Append(@, Last(@) + pnl),
                  !.forecasts = @ + 1, !.outcomes = @ + (IF decided THEN 1 ELSE 0)]

Trades0(m, p, size, cancelled, decided) ==
    /\ loop.pc = "run" /\ m \in queue
    /\ ~Uncertain(p)
    /\ acc' = Counted(acc, p, size, SimulateFill(size, m, loop.taker, cancelled), decided)
    /\ queue' = queue \ {m} /\ UNCHANGED loop

\* computeProbQuality throws when some of the traded markets are decided and
\* some are not: it is given one list longer than the other.
LoopEnds ==
    /\ loop.pc = "run" /\ queue = {}
    /\ loop' = [loop EXCEPT !.pc = IF loop.kind = "paper" /\ acc.outcomes \notin {0, acc.forecasts}
                                   THEN "threw" ELSE "reported"]
    /\ UNCHANGED <<queue, acc>>

(***************************************************************************)
(* computeEconomicMetrics                                                  *)
(***************************************************************************)

NetPnl == acc.gross - acc.fees
\* maxDrawdown: [fall, of], the largest fall / of over the curve.
Fell(dd, v) ==
    LET peak == IF v > dd.peak THEN v ELSE dd.peak
    IN  IF (peak - v) * dd.of > dd.fall * peak THEN [peak |-> peak, fall |-> peak - v, of |-> peak]
        ELSE [dd EXCEPT !.peak = peak]
MaxDrawdown(curve) ==
    FoldLeft(Fell, [peak |-> Head(curve), fall |-> 0, of |-> Head(curve)], curve)

-----------------------------------------------------------------------------

PaperInit ==
    loop = [kind |-> "paper", taker |-> TRUE, pc |-> "none"] /\ queue = {} /\ acc = Fresh

PaperNext ==
    \/ \E k \in {"paper", "orchestrated"}, t \in BOOLEAN : LoopStarts(k, t, PaperMarkets)
    \/ \E m \in queue :
          \/ \E p \in PaperForecasts : Skips(m, p)
          \/ Blocked(m)
          \/ \E s \in PaperSizes : Refuses(m, s)
          \/ \E p \in PaperForecasts, s \in PaperSizes, c, r \in BOOLEAN : Trades0(m, p, s, c, r)
    \/ LoopEnds

-----------------------------------------------------------------------------

PaperTypeOK ==
    /\ queue \subseteq PaperMarkets
    /\ loop.pc \in {"none", "run", "threw", "reported"}
    /\ Len(acc.equity) = Len(acc.pnls) + 1 /\ acc.outcomes \in 0..acc.forecasts

\* What the loop reports adds up, whatever was skipped, refused or cancelled
\* on the way: the net profit is what the equity curve gained and the sum of
\* what the markets made, no more was filled than submitted, and no fall along
\* the curve is worse than the drawdown.
PaperReportBalances ==
    loop.pc = "reported" =>
        /\ NetPnl = Last(acc.equity) - Head(acc.equity)
        /\ NetPnl = Total(acc.pnls, Len(acc.pnls))
        /\ acc.filled <= acc.submitted
        /\ LET dd == MaxDrawdown(acc.equity)
           IN  \A i, j \in DOMAIN acc.equity :
                  i < j => (acc.equity[i] - acc.equity[j]) * dd.of <= dd.fall * acc.equity[i]

\* The account can bear the worst outcome of every market, so that the equity the
\* falls are measured against is never below nothing.
Bearable(worst) ==
    /\ worst * Cardinality(PaperMarkets) <= 100000
    /\ \A m \in PaperMarkets, p \in PaperForecasts, size \in PaperSizes, taker, cancelled \in BOOLEAN :
          LET fill == SimulateFill(size, m, taker, cancelled)
          IN  ~Uncertain(p) => 100 * fill.fee - (p - 50) * fill.filled <= worst

LossesBearable == \E worst \in Nat : Bearable(worst)
=============================================================================

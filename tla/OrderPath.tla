----------------------------- MODULE OrderPath -----------------------------
(***************************************************************************)
(* One order from a quote to the executor: executeG4Step, with the         *)
(* decision rules it calls, the risk gate, the reservation, the builder,   *)
(* the signer's checks and the executor's.  Prices and probabilities are   *)
(* in cents, edges in hundredths of a cent, shares and cash in hundredths, *)
(* so that cash = shares * price is rounded as it is in base units.        *)
(***************************************************************************)
EXTENDS Integers, FiniteSets

CONSTANTS
    Forecasts,      \* probabilities the forecast gives, or NoForecast
    Quotes,         \* <<bid, ask>> of the quoted token
    Qualities,      \* [days, flow, wallets, age] a step sees of a market
    Exposures,      \* <<of the market, of the portfolio>>
    MinEdge,        \* minEdgeAfterCost
    Capital,        \* policy.capital_usd_cap
    Bankroll, MicroCap, Available, HardCash,
    OrderPct, MarketPct, PortfolioPct

NoForecast == -1
Cents == 100        \* one dollar, one share
Venues == {"NORMAL", "POST_ONLY", "CANCEL_ONLY", "READ_ONLY", "RESTARTING",
           "UNAVAILABLE", "UNKNOWN"}

ASSUME OrderPathAssumption ==
    /\ Forecasts \subseteq {NoForecast} \cup 0..Cents
    /\ Quotes \subseteq (0..Cents) \X (0..Cents) /\ Exposures \subseteq Nat \X Nat
    /\ {Capital, Bankroll, MicroCap, Available, HardCash, MinEdge} \subseteq Nat

VARIABLES
    step,       \* where the step is: pc, what it was given, its size
    venue,      \* the venue's mode, read several times in one step
    permit,     \* the permit, with the cash its reservation holds
    sent        \* the order the executor accepted

orderVars == <<step, venue, permit, sent>>

NoPermit == [qty |-> 0, cash |-> 0, price |-> 0, mode |-> "UNKNOWN", held |-> 0]
NoOrder == [size |-> 0, price |-> 0]
CashNeeded(size, price) == (size * price) \div Cents
AtLeast0(n) == IF n > 0 THEN n ELSE 0
Least(a, b) == IF a < b THEN a ELSE b

(***************************************************************************)
(* The gates before the risk gate.                                         *)
(***************************************************************************)

ComputeFinancialGate(admitted, mode) ==
    CASE ~admitted                                        -> "FINANCIAL_BLOCKED"
      [] mode \in {"UNAVAILABLE", "UNKNOWN", "READ_ONLY"} -> "ENTRY_BLOCKED"
      [] MinEdge > 5000                                   -> "FINANCIAL_BLOCKED"
      [] OTHER                                            -> "ALLOW"

UsableForecast(p) == p # NoForecast /\ p > 2 /\ p < 98 /\ p \notin 49..51

ClassifyRegime(bid, ask) ==
    CASE bid + ask <= 4 \/ bid + ask >= 196     -> "DUST"
      [] ask - bid \in -1..1                    -> "TIGHT_CONSENSUS"
      [] bid + ask - Cents \in -19..19          -> "CONTESTED"
      [] OTHER                                  -> "NORMAL"

FlbExtremePremium(ask) == IF ask < 10 \/ ask > 90 THEN 200 ELSE 0

\* days < 0: no expiry is known.
ExpiryEdgePremium(days) == IF days > 30 THEN 100 ELSE IF days >= 7 THEN 50 ELSE 0

\* Dollars of net flow, wallets, minutes since the flow was computed.
SmartMoneyGuardPremium(q) ==
    IF q.flow <= -1000 /\ q.wallets >= 2 /\ q.age <= 30 THEN 200 ELSE 0

ResolveEdgeFloor(spread, premium) ==
    (IF MinEdge > 0 THEN MinEdge ELSE 300) + Least(50 * AtLeast0(spread), 500) + premium

\* clobTakerFeePerShare at theta = 0.05, in twentieths of the edge's unit.
Fee20(price) == price * (Cents - price)

\* evaluateEdge on the one side that is quoted.
Gross(side, p, price) == IF side = "NO" THEN Cents - p - price ELSE p - price
NetEdge20(side, p, price) == 2000 * Gross(side, p, price) - Fee20(price)
Trades(side, p, price, floor) ==
    NetEdge20(side, p, price) > 0 /\ NetEdge20(side, p, price) >= 20 * floor

(***************************************************************************)
(* Sizing: a quarter of the Kelly stake, in whole shares, 1 to 100.        *)
(***************************************************************************)

KellyStake(p, price) ==
    IF p <= price \/ price <= 0 \/ price >= Cents THEN 0
    ELSE ((p - price) * Bankroll) \div (4 * (Cents - price))

\* Slip: the whole of the Kelly stake.
FullKellyShares(p, price) ==
    IF p <= price \/ price <= 0 \/ price >= Cents \/ Bankroll <= 0 THEN 0
    ELSE Least(((p - price) * Bankroll) \div ((Cents - price) * price), 100)
KellyShares(p, price) ==
    IF p <= price \/ price <= 0 \/ price >= Cents \/ Bankroll <= 0 THEN 0
    ELSE Least(((p - price) * Bankroll) \div (4 * (Cents - price) * price), 100)

\* The bankroll is an input of this module: ExposureBook has where it comes from.
SizeIntent(p, price) == Cents * KellyShares(p, price)

(***************************************************************************)
(* The step.  Any of its reads of the venue's mode may see a new one.      *)
(***************************************************************************)

VenueSwitches(m) ==
    /\ step.pc \in {"gate", "build", "submit"} /\ m # venue
    /\ venue' = m
    /\ UNCHANGED <<step, permit, sent>>

Receives(p, quote, q, exposure, side) ==
    /\ step.pc = "idle"
    /\ step' = [pc |-> "gate", p |-> p, bid |-> quote[1], ask |-> quote[2], side |-> side,
                q |-> q, market |-> exposure[1], portfolio |-> exposure[2], size |-> 0]
    /\ UNCHANGED <<venue, permit, sent>>

Floor == ResolveEdgeFloor(AtLeast0(step.ask - step.bid),
             FlbExtremePremium(step.ask) + ExpiryEdgePremium(step.q.days)
                 + SmartMoneyGuardPremium(step.q))

Passes(admitted) ==
    /\ ComputeFinancialGate(admitted, venue) = "ALLOW"
    /\ UsableForecast(step.p)
    /\ ClassifyRegime(step.bid, step.ask) \in {"CONTESTED", "NORMAL"}
    /\ Trades(step.side, step.p, step.ask, Floor)
    /\ SizeIntent(step.p, step.ask) > 0

Gates(admitted) ==
    /\ step.pc = "gate"
    /\ step' = IF Passes(admitted)
               THEN [step EXCEPT !.pc = "reserve", !.size = SizeIntent(step.p, step.ask)]
               ELSE [step EXCEPT !.pc = "done"]
    /\ UNCHANGED <<venue, permit, sent>>

Share(pct) == (Capital * pct) \div 10000

\* validateAndReserve: the three caps, then MoneyKernel.reserve.
WithinCaps(cash) ==
    /\ cash <= Share(OrderPct)
    /\ step.market + cash <= Share(MarketPct)
    /\ step.portfolio + cash <= Share(PortfolioPct)

Reservable(cash) == cash > 0 /\ cash <= HardCash /\ cash <= Available

ValidateAndReserve ==
    LET cash == CashNeeded(step.size, step.ask)
    IN  /\ step.pc = "reserve"
        /\ IF WithinCaps(cash) /\ Reservable(cash)
           THEN /\ permit' = [qty |-> step.size, cash |-> cash, price |-> step.ask,
                              mode |-> venue, held |-> cash]
                /\ step' = [step EXCEPT !.pc = "build"]
           ELSE permit' = permit /\ step' = [step EXCEPT !.pc = "done"]
        /\ UNCHANGED <<venue, sent>>

\* buildSignedOrder: the price within the permit's, the size clamped to its
\* shares and cash; then the signer's checks.
BuiltSize(qty, price) ==
    LET size == Least(qty, permit.qty)
    IN  IF CashNeeded(size, price) > permit.cash THEN (permit.cash * Cents) \div price ELSE size

SignerAllows(size, price) ==
    /\ venue = permit.mode
    /\ size <= permit.qty /\ CashNeeded(size, price) <= permit.cash

\* releaseUnsubmittedReservation.
GivesBack ==
    /\ permit' = [permit EXCEPT !.held = 0]
    /\ step' = [step EXCEPT !.pc = "done"]

BuildSignedOrder ==
    LET size == BuiltSize(step.size, step.ask)
    IN  /\ step.pc = "build"
        /\ IF size > 0 /\ SignerAllows(size, step.ask)
           THEN permit' = permit /\ step' = [step EXCEPT !.pc = "submit", !.size = size]
           ELSE GivesBack
        /\ UNCHANGED <<venue, sent>>

\* The micro-live cap, then the executor: permitCoversOrder, the price bounds
\* and the mode gate.
ModeAllowsSubmit == venue \in {"NORMAL", "POST_ONLY"}

PermitCoversOrder(size, price) ==
    /\ size <= permit.qty /\ CashNeeded(size, price) <= permit.cash
    /\ price = permit.price

Submits ==
    LET cash == CashNeeded(step.size, step.ask)
    IN  /\ step.pc = "submit"
        /\ IF /\ step.portfolio + cash <= MicroCap
              /\ PermitCoversOrder(step.size, step.ask) /\ ModeAllowsSubmit
           THEN /\ sent' = [size |-> step.size, price |-> step.ask]
                /\ permit' = permit /\ step' = [step EXCEPT !.pc = "done"]
           ELSE sent' = sent /\ GivesBack
        /\ UNCHANGED venue

-----------------------------------------------------------------------------

OrderInit ==
    /\ step = [pc |-> "idle", p |-> NoForecast, bid |-> 0, ask |-> 0, side |-> "YES",
               q |-> CHOOSE q \in Qualities : TRUE, market |-> 0, portfolio |-> 0, size |-> 0]
    /\ venue = "NORMAL" /\ permit = NoPermit /\ sent = NoOrder

OrderNext ==
    \/ \E p \in Forecasts, quote \in Quotes, q \in Qualities, e \in Exposures,
          side \in {"YES", "NO"} : Receives(p, quote, q, e, side)
    \/ \E m \in Venues : VenueSwitches(m)
    \/ \E a \in BOOLEAN : Gates(a)
    \/ ValidateAndReserve \/ BuildSignedOrder \/ Submits

-----------------------------------------------------------------------------

OrderTypeOK ==
    /\ step.pc \in {"idle", "gate", "reserve", "build", "submit", "done"}
    /\ venue \in Venues /\ permit.held \in 0..permit.cash /\ sent.size \in 0..permit.qty

\* What is sent fits every cap, the reservation and the stake of a quarter of
\* Kelly on the probability that was forecast, through four roundings.
SentOrderFits ==
    sent # NoOrder =>
        LET cash == CashNeeded(sent.size, sent.price)
        IN  /\ cash <= permit.held /\ permit.held <= Available
            /\ WithinCaps(cash) /\ step.portfolio + cash <= MicroCap
            /\ cash <= KellyStake(step.p, sent.price)

\* The builder, the signer and the executor agree: what the risk gate let
\* through is refused later for a changed venue mode or the micro-live cap only,
\* and a step that ends unsent holds no cash.
RefusedForModeOnly ==
    step.pc = "done" /\ permit # NoPermit /\ sent = NoOrder =>
        /\ permit.held = 0
        /\ \/ venue # permit.mode \/ ~ModeAllowsSubmit
           \/ step.portfolio + permit.cash > MicroCap

\* A YES token bought at the ask is worth more than the mid by the floor and
\* half the spread: no premium is lost between the rules.
BoughtBelowValue ==
    sent # NoOrder /\ step.side = "YES" =>
        200 * step.p >= 100 * (step.bid + step.ask) + 2 * MinEdge
                          + Least(100 * (step.ask - step.bid), 1000)

\* What four components decide about one order agrees: its size, its price
\* and the reasons it may still be refused.
OrderIsSound == SentOrderFits /\ RefusedForModeOnly /\ BoughtBelowValue
=============================================================================

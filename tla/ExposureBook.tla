---------------------------- MODULE ExposureBook ----------------------------
(***************************************************************************)
(* What the trading process believes it has at risk: the position tracker  *)
(* and the fills it has booked, both in memory, against the orders and     *)
(* fills of the database, which outlive it.  One unit of size costs one    *)
(* unit of cash; every order has size Size.                                *)
(***************************************************************************)
EXTENDS RunningTotal, Sequences, SequencesExt

CONSTANTS
    NumOrders,      \* bound on the orders the process submits
    NumMarkets,
    MarketOf,       \* market an order is for
    Size,           \* size of an order
    CapitalCap,     \* microLiveCapUsd
    Window,         \* clusters listRecent returns
    MaxStops,       \* bound on the restarts
    MaxReadFailures \* bound on the reads that fail

\* Both are numbered, for the totals over them.
Orders == 1..NumOrders
Markets == 1..NumMarkets

ASSUME ExposureAssumption ==
    /\ NumOrders \in Nat /\ NumMarkets \in Nat
    /\ Size \in Nat \ {0} /\ CapitalCap \in Nat /\ Window \in Nat
    /\ MarketOf \in [Orders -> Markets]

VARIABLES
    order,      \* recovery ledger and reservation of each order
    resolved,   \* markets of resolved_clusters, in the order recorded
    tracked,    \* PositionTracker: market -> cash at risk
    book,       \* ExposureBook: booked fills, baselined, sawStep
    counted,    \* fills the session's profit and loss has taken in
    loop,       \* runContinuous: where it is, the markets still to do
    past        \* history

bookVars == <<order, resolved, tracked, book, counted, loop, past>>

Unsent == [status |-> "none", fill |-> 0]
\* Slip: the book of a new process is taken to have its baseline.
WarmBook == [booked |-> [o \in Orders |-> 0], baselined |-> TRUE, sawStep |-> FALSE]
FreshBook == [booked |-> [o \in Orders |-> 0], baselined |-> FALSE, sawStep |-> FALSE]
NoCash == [m \in Markets |-> 0]
Top == [pc |-> "top", todo |-> {}]

(***************************************************************************)
(* The rows of DURABLE_OPEN_ORDERS_SQL and what they are worth.            *)
(***************************************************************************)

\* Unresolved, or resolved with a fill.
Durable == {o \in Orders : \/ order[o].status \in {"resting", "expired"}
                           \/ order[o].status = "dead" /\ order[o].fill > 0}

\* Cash still reserved: the expiry job releases it while the order rests.
Reserved(o) == IF order[o].status = "resting" THEN Size - order[o].fill ELSE 0

\* Slip: what is still reserved is not at risk.
FilledOnly(o) == order[o].fill
\* orderExposureUsd: what was filled and what is still reserved.
OrderExposure(o) == order[o].fill + Reserved(o)

ExposureByMarket ==
    [m \in Markets |->
        Total([o \in Orders |-> IF o \in Durable /\ MarketOf[o] = m THEN OrderExposure(o) ELSE 0],
              NumOrders)]

CashAtRisk(cash) == Total(cash, NumMarkets)

(***************************************************************************)
(* The world the process reads: the venue and the expiry job move orders,  *)
(* the resolution recorder records settled markets.                        *)
(***************************************************************************)

VenueFills(o) ==
    /\ order[o].status \in {"resting", "expired"}
    /\ \E f \in order[o].fill + 1..Size :
          order' = [order EXCEPT ![o] = [status |-> IF f = Size THEN "dead" ELSE @.status,
                                         fill |-> f]]
    /\ UNCHANGED <<resolved, tracked, book, counted, loop, past>>

VenueKills(o) ==
    /\ order[o].status \in {"resting", "expired"}
    /\ order' = [order EXCEPT ![o].status = "dead"]
    /\ UNCHANGED <<resolved, tracked, book, counted, loop, past>>

ReservationExpires(o) ==
    /\ order[o].status = "resting"
    /\ order' = [order EXCEPT ![o].status = "expired"]
    /\ past' = [past EXCEPT !.expired = TRUE]
    /\ UNCHANGED <<resolved, tracked, book, counted, loop>>

MarketResolves(m) ==
    /\ m \notin Range(resolved)
    /\ resolved' = Append(resolved, m)
    /\ UNCHANGED <<order, tracked, book, counted, loop, past>>

(***************************************************************************)
(* The top of a pass: syncDurableExposure, syncSettlements, the cap.       *)
(***************************************************************************)

\* applyDurableExposure: the first load of a process that has taken no step
\* only notes the fills; any other counts what is new.
SyncLoads ==
    LET news == {o \in Durable : order[o].fill > book.booked[o]}
        cold == ~book.baselined /\ ~book.sawStep
        delta(o) == IF o \in news THEN order[o].fill - book.booked[o] ELSE 0
    IN  /\ loop.pc = "top"
        /\ book' = [book EXCEPT !.baselined = TRUE,
                      !.booked = [o \in Orders |-> @[o] + delta(o)]]
        /\ counted' = IF cold THEN counted ELSE [o \in Orders |-> counted[o] + delta(o)]
        /\ tracked' = ExposureByMarket
        /\ past' = [past EXCEPT !.missed = FALSE]
        /\ loop' = [loop EXCEPT !.pc = "synced"]
        /\ UNCHANGED <<order, resolved>>

\* A load that throws or returns null keeps the book as it is.
SyncFails ==
    /\ loop.pc = "top" /\ past.failed < MaxReadFailures
    /\ past' = [past EXCEPT !.failed = @ + 1, !.blind = @ \/ ~book.baselined \/ past.missed]
    /\ loop' = [loop EXCEPT !.pc = "synced"]
    /\ UNCHANGED <<order, resolved, tracked, book, counted>>

\* Slip: the key of a cluster is compared with the key of a market.
NoneMatch == {}
\* listSettledTokens
Recent == Range(SubSeq(resolved, IF Len(resolved) > Window THEN Len(resolved) - Window + 1
                                 ELSE 1, Len(resolved)))

\* PositionTracker.resolve of the markets of the last Window clusters.
SettlementsFreed ==
    /\ loop.pc = "synced"
    /\ tracked' = [m \in Markets |-> IF m \in Recent THEN 0 ELSE tracked[m]]
    /\ loop' = [loop EXCEPT !.pc = "settled"]
    /\ UNCHANGED <<order, resolved, book, counted, past>>

\* The list cannot be read: nothing is freed.
SettlementsUnknown ==
    /\ loop.pc = "synced" /\ past.failed < MaxReadFailures
    /\ past' = [past EXCEPT !.failed = @ + 1]
    /\ loop' = [loop EXCEPT !.pc = "settled"]
    /\ UNCHANGED <<order, resolved, tracked, book, counted>>

PortfolioFull ==
    /\ loop.pc = "settled" /\ CashAtRisk(tracked) >= CapitalCap
    /\ loop' = Top
    /\ past' = [past EXCEPT !.waited = TRUE]
    /\ UNCHANGED <<order, resolved, tracked, book, counted>>

\* The markets the universe lists and the scores select.
PassSelects ==
    /\ loop.pc = "settled" /\ CashAtRisk(tracked) < CapitalCap
    /\ \E ms \in SUBSET Markets : loop' = IF ms = {} THEN Top ELSE [pc |-> "pass", todo |-> ms]
    /\ past' = [past EXCEPT !.waited = FALSE]
    /\ UNCHANGED <<order, resolved, tracked, book, counted>>

(***************************************************************************)
(* processMarket.                                                          *)
(***************************************************************************)

StepEnds(m) ==
    loop' = IF loop.todo = {m} THEN Top ELSE [loop EXCEPT !.todo = @ \ {m}]

\* A gate, the forecast, the edge, the kernel or the executor says no.
StepDeclines ==
    /\ loop.pc = "pass"
    /\ \E m \in loop.todo : StepEnds(m)
    /\ book' = [book EXCEPT !.sawStep = TRUE]
    /\ UNCHANGED <<order, resolved, tracked, counted, past>>

\* executeG4Step: the order fits under the capital cap.
MayEnter(o) ==
    /\ loop.pc = "pass" /\ MarketOf[o] \in loop.todo
    /\ order[o] = Unsent /\ MarketOf[o] \notin Range(resolved)
    /\ \A p \in Orders : p < o => order[p] # Unsent \/ MarketOf[p] # MarketOf[o]
    /\ CashAtRisk(tracked) + Size <= CapitalCap

\* The order is submitted; the acknowledgement may carry a fill, or the
\* outcome is unknown and carries none.  accountAfterStep adds the whole
\* order, processMarket books the fill it was told of.
StepSubmits(o) ==
    /\ MayEnter(o)
    /\ \E f \in 0..Size, known \in BOOLEAN :
          /\ order' = [order EXCEPT ![o] = [status |-> IF f = Size THEN "dead" ELSE "resting",
                                            fill |-> f]]
          /\ book' = [book EXCEPT !.sawStep = TRUE, !.booked[o] = IF known THEN f ELSE 0]
          /\ counted' = [counted EXCEPT ![o] = IF known THEN f ELSE 0]
    /\ tracked' = [tracked EXCEPT ![MarketOf[o]] = @ + Size]
    /\ StepEnds(MarketOf[o])
    /\ UNCHANGED <<resolved, past>>

\* A query inside the step throws: the pass is over and nothing is accounted,
\* though the order may be out.
StepThrows ==
    /\ loop.pc = "pass"
    /\ loop' = Top
    /\ UNCHANGED <<order, resolved, tracked, book, counted, past>>

StepThrowsAfterSend(o) ==
    /\ MayEnter(o)
    /\ order' = [order EXCEPT ![o].status = "resting"]
    /\ loop' = Top
    /\ past' = [past EXCEPT !.missed = TRUE]
    /\ UNCHANGED <<resolved, tracked, book, counted>>

\* A new process starts with an empty tracker, book and profit and loss.
Restart ==
    /\ past.stops < MaxStops
    /\ tracked' = NoCash /\ book' = FreshBook
    /\ counted' = [o \in Orders |-> 0]
    /\ loop' = Top
    /\ past' = [past EXCEPT !.stops = @ + 1, !.before = [o \in Orders |-> order[o].fill],
                            !.waited = FALSE, !.missed = FALSE]
    /\ UNCHANGED <<order, resolved>>

-----------------------------------------------------------------------------

BookInit ==
    /\ order = [o \in Orders |-> Unsent]
    /\ resolved = <<>>
    /\ tracked = NoCash /\ book = FreshBook
    /\ counted = [o \in Orders |-> 0]
    /\ loop = Top
    /\ past = [stops |-> 0, before |-> [o \in Orders |-> 0], blind |-> FALSE,
               expired |-> FALSE, missed |-> FALSE, waited |-> FALSE, failed |-> 0]

BookNext ==
    \/ SyncLoads \/ SyncFails \/ SettlementsFreed \/ SettlementsUnknown
    \/ PortfolioFull \/ PassSelects \/ StepDeclines \/ StepThrows \/ Restart
    \/ \E o \in Orders : VenueFills(o) \/ VenueKills(o) \/ ReservationExpires(o)
                       \/ StepSubmits(o) \/ StepThrowsAfterSend(o)
    \/ \E m \in Markets : MarketResolves(m)

\* The loop keeps going, and markets resolve.
BookFairness ==
    /\ WF_bookVars(SyncLoads) /\ WF_bookVars(SettlementsFreed)
    /\ WF_bookVars(PortfolioFull) /\ WF_bookVars(PassSelects) /\ WF_bookVars(StepDeclines)
    /\ \A m \in Markets : WF_bookVars(MarketResolves(m))

BookSpec == BookInit /\ [][BookNext]_bookVars /\ BookFairness

-----------------------------------------------------------------------------

BookTypeOK ==
    /\ order \in [Orders -> [status : {"none", "resting", "expired", "dead"}, fill : 0..Size]]
    /\ resolved \in Seq(Markets)
    /\ tracked \in [Markets -> Nat]
    /\ book \in [booked : [Orders -> Nat], baselined : BOOLEAN, sawStep : BOOLEAN]
    /\ counted \in [Orders -> Nat]
    /\ loop \in [pc : {"top", "synced", "settled", "pass"}, todo : SUBSET Markets]
    /\ past \in [stops : Nat, before : [Orders -> Nat], blind : BOOLEAN, expired : BOOLEAN,
                 missed : BOOLEAN, waited : BOOLEAN, failed : Nat]

\* What is really at risk: the fills, and the orders that can still fill, of
\* the markets that have not resolved.
AtRisk ==
    Total([o \in Orders |->
              IF order[o] = Unsent \/ MarketOf[o] \in Range(resolved) THEN 0
              ELSE IF order[o].status = "dead" THEN order[o].fill ELSE Size],
          NumOrders)

\* The cash at risk stays within the capital cap across restarts, unknown
\* outcomes and late fills, as long as no reservation expired under a resting
\* order and the process could read the database when it had to.
CapRespected == ~past.expired /\ ~past.blind => AtRisk <= CapitalCap

\* The session's profit and loss takes each share in once, whether an
\* acknowledgement or a sync brought it, and none filled before the process
\* started, as long as its first load did not fail.
FillCountedOnce ==
    ~past.blind => \A o \in Orders : counted[o] + past.before[o] <= order[o].fill

\* A portfolio that was full trades again once its markets settled.
CapitalComesBack == past.waited ~> ~past.waited
=============================================================================

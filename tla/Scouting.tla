----------------------------- MODULE Scouting ------------------------------
(***************************************************************************)
(* What the agent may trade and what it knows of the others.  At its start *)
(* the auto-discovery lists the open markets, asks the touch of both       *)
(* tokens of the most traded ones all at once and keeps those that pass;   *)
(* the passes then snapshot the chosen tokens.  The smart-money sync reads *)
(* the watched wallets one after another and replaces its flows at once.   *)
(***************************************************************************)
EXTENDS Integers, Sequences, FiniteSets, SequencesExt, FiniteSetsExt, RunningTotal, Ordering

CONSTANTS
    Listings,               \* sequences of markets the venue may list
    Touches,                \* answers of a book: [spread, depth]; depth -1 when unsized
    MinVolume, MaxMarkets, MaxSpread, MinDepth, MaxChurn,   \* DiscoveryBounds
    TopOfList,              \* how many of the most traded are asked for
    Wallets,                \* POLYROOT_SMART_WALLETS, in order
    Lookback, MaxTrades, MaxTime, MaxSyncs

\* Volumes and bounds are amounts, and the watched wallets are a list.
ASSUME ScoutAssumption ==
    /\ Listings \subseteq Seq([question : STRING, volume : Nat, ends : STRING, tokens : Nat])
    /\ MaxMarkets \in Nat /\ TopOfList \in Nat /\ Lookback \in Nat
    /\ Wallets \in Seq(ToSet(Wallets))

VARIABLES
    search,     \* the discovery: its stage, the markets asked, answers, results
    universe,   \* the tokens the passes go through: [market, side]
    trades,     \* wallet -> what it did, with its time
    time,
    sync,       \* a tick of the sync: the next wallet and what was collected
    flows,      \* the cache: what getFlow returns of the watched token
    lastSync    \* what the last tick collected, and when it ended

scoutVars == <<search, universe, trades, time, sync, flows, lastSync>>

NotAsked == [spread |-> -2, depth |-> -2]
NoBook == [spread |-> -1, depth |-> -1]
NoTick == 0

(***************************************************************************)
(* Discovery                                                               *)
(***************************************************************************)

\* parseGammaEvents leaves out what has no question or fewer than two tokens.
Listed(listing) == {i \in DOMAIN listing : listing[i].question # "" /\ listing[i].tokens = 2}

\* fetchActiveMarkets and the volume filter: sorted by volume, the sort is stable.
ByVolume(listing) ==
    LET kept == {i \in Listed(listing) : listing[i].volume >= MinVolume}
        order == InOrder(kept, {e \in kept \X kept :
                     \/ listing[e[1]].volume > listing[e[2]].volume
                     \/ listing[e[1]].volume = listing[e[2]].volume /\ e[1] < e[2]})
    IN  [k \in 1..Cardinality(kept) |-> listing[order[k]]]

\* slice(0, n).
FirstOf(s, n) == SubSeq(s, 1, IF Len(s) < n THEN Len(s) ELSE n)

\* A known end within the horizon drops a market before its books are asked.
Soon(m) == m.ends = "soon"

\* Both sides of the touch, the spread, the depth where it is sized, the churn.
PassesTouch(m, t) ==
    /\ t # NoBook /\ t.spread <= MaxSpread
    /\ t.depth # -1 => t.depth >= MinDepth /\ m.volume <= MaxChurn * t.depth

\* resolveMarketUniverseWithSides asks Gamma; a failed answer fails the start.
ListingArrives(listing) ==
    /\ search.stage = "asking"
    /\ LET listed == FirstOf(ByVolume(listing), TopOfList)
           touched == {i \in DOMAIN listed : ~Soon(listed[i])}
       IN  search' = [search EXCEPT !.stage = "touching", !.asked = listed, !.open = touched,
                          !.touch = [i \in touched |-> [side \in {"YES", "NO"} |-> NotAsked]]]
    /\ UNCHANGED <<universe, trades, time, sync, flows, lastSync>>

ListingFails ==
    /\ search.stage = "asking" /\ search' = [search EXCEPT !.stage = "refused"]
    /\ UNCHANGED <<universe, trades, time, sync, flows, lastSync>>

\* fetchTokenTouch answers in any order; the second answer of a market decides it.
TouchAnswers(i, side, t) ==
    /\ search.stage = "touching" /\ i \in search.open /\ search.touch[i][side] = NotAsked
    /\ LET touch == [search.touch EXCEPT ![i][side] = t]
           decided == NotAsked \notin {touch[i]["YES"], touch[i]["NO"]}
           kept == {s \in {"YES", "NO"} : PassesTouch(search.asked[i], touch[i][s])}
       IN  search' = [search EXCEPT !.touch = touch,
                          !.open = IF decided THEN @ \ {i} ELSE @,
                          !.out = IF decided /\ kept # {} THEN Append(@, [market |-> i, sides |-> kept]) ELSE @]
    /\ UNCHANGED <<universe, trades, time, sync, flows, lastSync>>

\* The rank of a market is the last position its question has in the list.
Rank(i) == Max({j \in DOMAIN search.asked : search.asked[j].question = search.asked[i].question})

\* Slip: the results stay in the order in which the books answered.
AsAnswered(out) == out
\* The results in the order of the list.
InListOrder(out) ==
    LET order == InOrder(DOMAIN out, {e \in (DOMAIN out) \X (DOMAIN out) :
                     \/ Rank(out[e[1]].market) < Rank(out[e[2]].market)
                     \/ Rank(out[e[1]].market) = Rank(out[e[2]].market) /\ e[1] < e[2]})
    IN  [k \in 1..Len(out) |-> out[order[k]]]

\* The first maxMarkets of them and, per market, the tokens that passed; none is an error.
UniverseChosen ==
    /\ search.stage = "touching" /\ search.open = {}
    /\ LET chosen == FirstOf(InListOrder(search.out), MaxMarkets)
       IN  /\ search' = [search EXCEPT !.stage = IF chosen = << >> THEN "refused" ELSE "chosen"]
           /\ universe' = UNION {[market : {chosen[k].market}, side : chosen[k].sides] : k \in DOMAIN chosen}
    /\ UNCHANGED <<trades, time, sync, flows, lastSync>>

(***************************************************************************)
(* The smart-money sync, for one watched token                             *)
(***************************************************************************)

\* What the watched wallets traded, by wallet and position.
Traded == UNION {{w} \X DOMAIN trades[w] : w \in DOMAIN trades}

WalletTrades(w, side, usd) ==
    /\ sync.ticks < MaxSyncs /\ Cardinality(Traded) < MaxTrades
    /\ trades' = [trades EXCEPT ![w] = Append(@, [wallet |-> w, side |-> side, usd |-> usd, at |-> time])]
    /\ UNCHANGED <<search, universe, time, sync, flows, lastSync>>

TimeMoves ==
    /\ time < MaxTime /\ time' = time + 1
    /\ UNCHANGED <<search, universe, trades, sync, flows, lastSync>>

SyncTicks ==
    /\ sync.turn = NoTick /\ sync.ticks < MaxSyncs
    /\ sync' = [turn |-> 1, ticks |-> sync.ticks + 1, seen |-> << >>]
    /\ UNCHANGED <<search, universe, trades, time, flows, lastSync>>

\* A wallet that cannot be read is passed over.
WalletRead(answered) ==
    /\ sync.turn \in DOMAIN Wallets
    /\ sync' = [sync EXCEPT !.turn = @ + 1,
                    !.seen = IF answered THEN @ \o trades[Wallets[sync.turn]] ELSE @]
    /\ UNCHANGED <<search, universe, trades, time, flows, lastSync>>

\* buildTokenFlows leaves out what is older than the lookback.
WithinLookback(seen, now) == {i \in DOMAIN seen : seen[i].at >= now - Lookback}

Usd(seen, of, side) ==
    Total([i \in DOMAIN seen |-> IF i \in of /\ seen[i].side = side THEN seen[i].usd ELSE 0], Len(seen))

\* The wallets counted are those with any trade at all.
FlowOf(seen, now) ==
    LET recent == WithinLookback(seen, now)
    IN  IF recent = {} THEN {}
        ELSE {[net |-> Usd(seen, recent, "BUY") - Usd(seen, recent, "SELL"), trades |-> Cardinality(recent),
               wallets |-> Cardinality({seen[i].wallet : i \in DOMAIN seen}),
               updatedAt |-> Max({seen[i].at : i \in recent})]}

\* Slip: a token the tick has nothing of keeps its flow.
KeptIfUnseen(seen) == IF FlowOf(seen, time) = {} THEN flows ELSE FlowOf(seen, time)
\* The cache is emptied and filled in one turn.
Replaced(seen) == FlowOf(seen, time)

TickEnds ==
    /\ sync.turn = Len(Wallets) + 1
    /\ flows' = Replaced(sync.seen)
    /\ lastSync' = [seen |-> sync.seen, at |-> time]
    /\ sync' = [sync EXCEPT !.turn = NoTick]
    /\ UNCHANGED <<search, universe, trades, time>>

\* smartMoneyGuardPremium: more edge is asked against two wallets or more.
Contra(f) == f.net < 0 /\ f.wallets >= 2

-----------------------------------------------------------------------------

ScoutInit ==
    /\ search = [stage |-> "asking", asked |-> << >>, open |-> {}, touch |-> << >>, out |-> << >>]
    /\ universe = {} /\ trades = [w \in ToSet(Wallets) |-> << >>] /\ time = 0 /\ sync = [turn |-> NoTick, ticks |-> 0, seen |-> << >>]
    /\ flows = {} /\ lastSync = [seen |-> << >>, at |-> 0]

Discovers ==
    \/ \E listing \in Listings : ListingArrives(listing)
    \/ ListingFails \/ UniverseChosen
    \/ \E i \in search.open, side \in {"YES", "NO"}, t \in Touches \cup {NoBook} : TouchAnswers(i, side, t)

Watches ==
    \/ \E w \in ToSet(Wallets), side \in {"BUY", "SELL"} : WalletTrades(w, side, 1)
    \/ TimeMoves \/ SyncTicks \/ TickEnds
    \/ \E answered \in BOOLEAN : WalletRead(answered)

-----------------------------------------------------------------------------

ScoutTypeOK ==
    /\ search.stage \in {"asking", "touching", "chosen", "refused"}
    /\ \A u \in universe : u.market \in DOMAIN search.asked /\ u.side \in {"YES", "NO"}
    /\ sync.turn \in 0..(Len(Wallets) + 1) /\ Cardinality(flows) <= 1

\* In whatever order the books answer, a market left out either failed its
\* touch or is no more traded than each market chosen.
ChosenAreTheLiquidest ==
    search.stage = "chosen" =>
        LET ids == {u.market : u \in universe}
            questions == {search.asked[i].question : i \in DOMAIN search.asked}
        IN  Cardinality(questions) = Len(search.asked) =>
                \A c \in ids, o \in {search.out[k].market : k \in DOMAIN search.out} \ ids :
                    search.asked[o].volume <= search.asked[c].volume

\* The flow the edge is judged by holds only trades of the last sync, none
\* of them older than the lookback when it ended: what that sync no longer saw,
\* because the wallet could not be read or its trades grew old, is gone.
FlowsOfOneSync ==
    \A f \in flows :
        /\ \E i \in DOMAIN lastSync.seen : lastSync.seen[i].at = f.updatedAt /\ f.updatedAt >= lastSync.at - Lookback
        /\ f.trades <= Len(lastSync.seen)
        /\ Contra(f) => \E i \in DOMAIN lastSync.seen : lastSync.seen[i].side = "SELL" /\ lastSync.seen[i].at >= lastSync.at - Lookback

\* The universe is the most traded of what passed, the flows are of one sync.
ScoutingIsSound == ChosenAreTheLiquidest /\ FlowsOfOneSync
=============================================================================

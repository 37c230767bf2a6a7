----------------------------- MODULE Settlement -----------------------------
(***************************************************************************)
(* The settlement of a trade as the ledger books it: the chain's events    *)
(* arrive late, twice and out of order, a confirmed trade may be undone by *)
(* a reorganisation, receipts are posted once, and rewards count only when *)
(* they are paid.                                                          *)
(***************************************************************************)
EXTENDS Integers, Sequences, FiniteSets, SequencesExt

CONSTANTS
    Receipts,       \* ids of receipts
    Assets,         \* assets a reward may be paid in
    PaidAsset,      \* the asset that is confirmed
    Rewards,        \* amounts of rewards and estimates, negative ones too
    MaxDeliveries   \* bound on the messages

ASSUME SettlementAssumption == Rewards \subseteq Int

VARIABLES
    chain,      \* what happened to the trade, in order
    settlement, \* SettlementState: [status, journal, spendable]
    ledger,     \* ReceiptLedger: [posted, count]
    books,      \* RewardBooks, and the total of confirmed incentives
    messages    \* deliveries so far

settlementVars == <<chain, settlement, ledger, books, messages>>

Target == [MATCH |-> "MATCHED", MINE |-> "MINED", RETRY |-> "RETRYING", CONFIRM |-> "CONFIRMED", FAIL |-> "FAILED"]
\* Slip: a failed settlement may still be confirmed by a late event.
LateTransitions ==
    [OPEN |-> {"MATCHED"}, MATCHED |-> {"MINED", "CONFIRMED", "FAILED"},
     MINED |-> {"CONFIRMED", "FAILED", "RETRYING"}, RETRYING |-> {"MINED", "CONFIRMED", "FAILED"},
     CONFIRMED |-> {}, FAILED |-> {"CONFIRMED"}]
ValidTransitions ==
    [OPEN      |-> {"MATCHED"},
     MATCHED   |-> {"MINED", "CONFIRMED", "FAILED"},
     MINED     |-> {"CONFIRMED", "FAILED", "RETRYING"},
     RETRYING  |-> {"MINED", "CONFIRMED", "FAILED"},
     CONFIRMED |-> {},
     FAILED    |-> {}]

\* The chain: matched, then mined and dropped any number of times, then final,
\* and undone when it was confirmed.
NextOnChain == [none |-> {"MATCH"}, MATCH |-> {"MINE", "CONFIRM", "FAIL"}, MINE |-> {"RETRY", "CONFIRM", "FAIL"},
                RETRY |-> {"MINE", "CONFIRM", "FAIL"}, CONFIRM |-> {"REORG"}, FAIL |-> {}, REORG |-> {}]
Happened == Range(chain)

ChainMoves(kind) ==
    /\ Len(chain) < 5
    /\ kind \in NextOnChain[IF chain = << >> THEN "none" ELSE Last(chain)]
    /\ chain' = Append(chain, kind)
    /\ UNCHANGED <<settlement, ledger, books, messages>>

Delivers == messages < MaxDeliveries /\ messages' = messages + 1

\* applySettlementEvent: an illegal transition changes nothing, a failure
\* posts the entry that takes the others back.
SettlementEvent(kind) ==
    /\ Delivers /\ kind \in Happened \ {"REORG"}
    /\ settlement' =
         IF Target[kind] \notin ValidTransitions[settlement.status] THEN settlement
         ELSE [status |-> Target[kind],
               journal |-> settlement.journal \o
                             (IF kind = "FAIL" THEN <<kind, "COMPENSATE">> ELSE <<kind>>),
               spendable |-> Target[kind] = "CONFIRMED"]
    /\ UNCHANGED <<chain, ledger, books>>

\* applyReorgCorrection.
ReorgCorrection ==
    /\ Delivers /\ "REORG" \in Happened
    /\ settlement' =
         IF settlement.status # "CONFIRMED" THEN settlement
         ELSE [status |-> "FAILED", journal |-> settlement.journal \o <<"REORG", "REORG_CORRECT">>, spendable |-> FALSE]
    /\ UNCHANGED <<chain, ledger, books>>

\* applyReceiptOnce: the ledger of the process, changed in place.
Receipt(r) ==
    /\ Delivers
    /\ ledger' = IF r \in ledger.posted THEN ledger
                 ELSE [posted |-> ledger.posted \cup {r}, count |-> ledger.count + 1]
    /\ UNCHANGED <<chain, settlement, books>>

\* reviseRewardEstimate throws on a negative estimate; an estimate never
\* touches cash.
RevisesEstimate(v) ==
    /\ Delivers /\ v >= 0
    /\ books' = [books EXCEPT !.estimate = v]
    /\ UNCHANGED <<chain, settlement, ledger>>

\* postConfirmedIncentive.
PostsIncentive(paid, asset, v) ==
    /\ Delivers
    /\ books' = IF paid /\ asset = PaidAsset /\ v >= 0 THEN [books EXCEPT !.confirmed = @ + v] ELSE books
    /\ UNCHANGED <<chain, settlement, ledger>>

-----------------------------------------------------------------------------

SettlementInit ==
    /\ chain = << >> /\ settlement = [status |-> "OPEN", journal |-> << >>, spendable |-> FALSE]
    /\ ledger = [posted |-> {}, count |-> 0]
    /\ books = [estimate |-> 0, confirmed |-> 0, reserved |-> 0] /\ messages = 0

SettlementNext ==
    \/ \E k \in DOMAIN Target \cup {"REORG"} : ChainMoves(k) \/ SettlementEvent(k)
    \/ ReorgCorrection \/ \E r \in Receipts : Receipt(r)
    \/ \E v \in Rewards : RevisesEstimate(v) \/ \E p \in BOOLEAN, a \in Assets : PostsIncentive(p, a, v)

-----------------------------------------------------------------------------

SettlementTypeOK ==
    /\ settlement.status \in DOMAIN ValidTransitions /\ settlement.spendable \in BOOLEAN
    /\ ledger.count = Cardinality(ledger.posted)
    /\ books.confirmed >= 0 /\ books.reserved = 0

\* Proceeds are spendable only while the chain's confirmation stands as far as
\* the ledger has been booked, and every entry of a trade that ended badly has
\* the entry that takes it back: late, repeated and reordered events never
\* bring a failed trade back to life.
SpendableOnlyConfirmed ==
    LET booked == Range(settlement.journal)
    IN  /\ settlement.spendable => "CONFIRM" \in Happened /\ booked \cap {"FAIL", "REORG"} = {}
        /\ settlement.status = "FAILED" => Last(settlement.journal) \in {"COMPENSATE", "REORG_CORRECT"}
        /\ "FAIL" \in Happened => ~settlement.spendable
=============================================================================

--------------------------- MODULE EmergencyStop ----------------------------
(***************************************************************************)
(* The contracts of an emergency: kill levels, the plan that cancels what  *)
(* rests, what may still be sold, the response to a compromised key and    *)
(* the gates of a database that is down or catching up.  They are pure;    *)
(* the responder executes what they plan, one action after another, while  *)
(* queued intents, the venue and the reports of cancels go on.             *)
(***************************************************************************)
EXTENDS Integers, Sequences, FiniteSets

CONSTANTS
    Entries,        \* intents queued when the emergency begins
    Sells,          \* one-share sells that rest at the venue
    Held,           \* shares of the position
    MaxReceipts     \* bound on the reports and outages that arrive

ASSUME HeldCoversSells == IsFiniteSet(Sells) /\ Held \in Nat /\ Held >= Cardinality(Sells)

VARIABLES
    level,      \* the kill level
    signing,    \* whether the vault signs
    fate,       \* what became of each order
    plan,       \* of CANCEL_OPEN: the outcome seen for each of its orders
    verified,   \* verified shares no resting sell holds
    sold,       \* shares sold in reduction
    response,   \* actions of the compromise plan still to be taken
    platform,   \* whether the reservation store answers, and what it has caught up
    receipts    \* reports and outages so far

stopVars == <<level, signing, fate, plan, verified, sold, response, platform, receipts>>

\* The levels, each with its place in the list.
KillLevels == [NONE |-> 0, PAUSE_ENTRIES |-> 1, CANCEL_OPEN |-> 2, FLATTEN |-> 3]
LevelAtLeast(a, b) == KillLevels[a] >= KillLevels[b]
Orders == Entries \cup Sells
NoPlan == [o \in {} |-> "none"]
Outcomes == {"CANCELED", "CANCEL_UNKNOWN", "CANCEL_FAILED", "NOT_CANCELED"}
CatchUps == {"ledger catch-up", "epoch sync", "venue reconciliation"}

(***************************************************************************)
(* kill-switch.ts                                                          *)
(***************************************************************************)

\* The lattice only escalates.
LevelRaised(l) ==
    /\ l \in DOMAIN KillLevels /\ ~LevelAtLeast(level, l) /\ level' = l
    /\ UNCHANGED <<signing, fate, plan, verified, sold, response, platform, receipts>>

BlockNewEntry == LevelAtLeast(level, "PAUSE_ENTRIES")
\* degradedMode and recoveryGate: nothing is signed until all three are complete.
PermitsIssued == platform.up /\ platform.missing = {}

\* A queued intent is signed; it is then known, and on its way.
EntrySigned(o) ==
    /\ fate[o] = "queued" /\ ~BlockNewEntry /\ signing /\ PermitsIssued
    /\ fate' = [fate EXCEPT ![o] = "signed"]
    /\ UNCHANGED <<level, signing, plan, verified, sold, response, platform, receipts>>

\* The venue takes an order to its book, fills it or cancels it on request.
VenueMoves(o, to) ==
    /\ <<fate[o], to>> \in {<<"signed", "resting">>, <<"resting", "filled">>, <<"resting", "canceled">>}
    /\ to = "canceled" => o \in DOMAIN plan
    /\ fate' = [fate EXCEPT ![o] = to]
    /\ UNCHANGED <<level, signing, plan, verified, sold, response, platform, receipts>>

\* planCancelOpen: no cancel is claimed before its result is seen.
Planned(orders) == [o \in orders |-> "CANCEL_UNKNOWN"]
Known == {o \in Orders : fate[o] \in {"signed", "resting"}}
AllCanceled(p) == \A o \in DOMAIN p : p[o] = "CANCELED"

\* From the level CANCEL_OPEN on, the operator cancels what is known.
CancelOpened ==
    /\ LevelAtLeast(level, "CANCEL_OPEN") /\ plan = NoPlan /\ plan' = Planned(Known) /\ plan' # NoPlan
    /\ UNCHANGED <<level, signing, fate, verified, sold, response, platform, receipts>>

\* recordCancelOutcome: a report replaces what was noted of its order; reports
\* may be late, and only a cancelled order is reported as cancelled.
OutcomeSeen(o, outcome) ==
    /\ o \in DOMAIN plan /\ receipts < MaxReceipts /\ receipts' = receipts + 1
    /\ outcome = "CANCELED" => fate[o] = "canceled"
    /\ outcome = "NOT_CANCELED" => fate[o] # "canceled"
    /\ plan' = [plan EXCEPT ![o] = outcome]
    /\ UNCHANGED <<level, signing, fate, verified, sold, response, platform>>

Freed(statuses) == Cardinality({o \in DOMAIN plan \cap Sells : plan[o] \in statuses})
\* Slip: a cancel still awaited frees its shares too.
SellableLoose == verified + Freed({"CANCELED", "CANCEL_UNKNOWN"})
\* sellableShares: verified shares and those of definitive cancels.
Sellable == IF verified + Freed({"CANCELED"}) < 0 THEN 0 ELSE verified + Freed({"CANCELED"})

\* checkReduceAllowed, and planFlatten, which leaves out a position whose
\* average price lies above the cap and sells all of the others.
Reduced(qty) ==
    /\ signing /\ qty > 0 /\ qty <= Sellable
    /\ verified' = verified - qty /\ sold' = sold + qty
    /\ UNCHANGED <<level, signing, fate, plan, response, platform, receipts>>

Flattened(underCap) ==
    /\ level = "FLATTEN" /\ signing /\ verified > 0 /\ underCap
    /\ verified' = 0 /\ sold' = sold + verified
    /\ UNCHANGED <<level, signing, fate, plan, response, platform, receipts>>

(***************************************************************************)
(* key-compromise.ts                                                       *)
(***************************************************************************)

Revocation(class) ==
    CASE class = "L1_SIGNER" -> <<"ROTATE_L1">>
      [] class \in {"L2_API", "RELAYER"} -> <<"REVOKE_L2">>
      [] class = "OWNER_SESSION" -> <<"REVOKE_OWNER_SESSION">>
      [] OTHER -> << >>

\* Slip: orders are cancelled before the vault stops signing.
CancelFirst(class, freeze, cancel) ==
    <<"CANCEL_OPEN", "KILL_SIGNING", "RECONCILE">> \o Revocation(class) \o <<"OWNER_ASSET_RESCUE">>
\* planCompromiseResponse
ResponseTo(class, freeze, cancel) ==
    <<"KILL_SIGNING">> \o (IF freeze THEN <<"FREEZE_ENTRIES">> ELSE << >>) \o <<"RECONCILE">>
    \o (IF cancel THEN <<"CANCEL_OPEN">> ELSE << >>) \o Revocation(class) \o <<"OWNER_ASSET_RESCUE">>

CompromiseSeen(class, freeze, cancel) ==
    /\ response = <<"none">> /\ response' = ResponseTo(class, freeze, cancel)
    /\ UNCHANGED <<level, signing, fate, plan, verified, sold, platform, receipts>>

\* The responder takes the next action; what is not listed here happens elsewhere.
ActionTaken ==
    /\ response \notin {<<"none">>, << >>} /\ response' = Tail(response)
    /\ LET action == Head(response)
       IN  /\ signing' = IF action = "KILL_SIGNING" THEN FALSE ELSE signing
           /\ level' = IF action = "FREEZE_ENTRIES" /\ ~BlockNewEntry THEN "PAUSE_ENTRIES" ELSE level
           /\ plan' = IF action = "CANCEL_OPEN" THEN Planned(Known) ELSE plan
    /\ UNCHANGED <<fate, verified, sold, platform, receipts>>

(***************************************************************************)
(* platform-safety.ts                                                      *)
(***************************************************************************)

StoreFails ==
    /\ platform.up /\ receipts < MaxReceipts /\ receipts' = receipts + 1
    /\ platform' = [up |-> FALSE, missing |-> CatchUps]
    /\ UNCHANGED <<level, signing, fate, plan, verified, sold, response>>

\* A store that answers again is not recovered: the gates close one by one.
StoreRecovers(gate) ==
    /\ platform' = IF ~platform.up THEN [platform EXCEPT !.up = TRUE] ELSE [platform EXCEPT !.missing = @ \ {gate}]
    /\ platform' # platform
    /\ UNCHANGED <<level, signing, fate, plan, verified, sold, response, receipts>>

-----------------------------------------------------------------------------

StopInit ==
    /\ level = "NONE" /\ signing = TRUE /\ plan = NoPlan /\ sold = 0 /\ receipts = 0
    /\ fate = [o \in Orders |-> IF o \in Entries THEN "queued" ELSE "resting"]
    /\ verified = Held - Cardinality(Sells) /\ response = <<"none">>
    /\ platform = [up |-> TRUE, missing |-> {}]

StopNext ==
    \/ \E l \in DOMAIN KillLevels : LevelRaised(l)
    \/ \E o \in Orders : EntrySigned(o) \/ \E to \in {"resting", "filled", "canceled"} : VenueMoves(o, to)
    \/ \E o \in Orders, outcome \in Outcomes : OutcomeSeen(o, outcome)
    \/ Reduced(1) \/ \E underCap \in BOOLEAN : Flattened(underCap)
    \/ \E class \in {"L2_API", "UNKNOWN"}, freeze, cancel \in BOOLEAN :
          CompromiseSeen(class, freeze, cancel)
    \/ ActionTaken \/ CancelOpened
    \/ StoreFails \/ \E gate \in CatchUps : StoreRecovers(gate)

-----------------------------------------------------------------------------

StopTypeOK ==
    /\ level \in DOMAIN KillLevels /\ DOMAIN plan \subseteq Orders /\ DOMAIN fate = Orders
    /\ platform.missing \subseteq CatchUps

\* Resting sells, their fills and the shares sold in reduction never exceed the
\* position: a cancel whose result is not certain frees nothing, however the
\* reports arrive.
NeverShort ==
    sold + Cardinality({o \in Sells : fate[o] \in {"resting", "filled"}}) <= Held

\* Once every order of the plan is reported cancelled, no signed order is left
\* anywhere, not even one that was on its way when the plan was made.
AllCanceledIsAll ==
    (DOMAIN plan # {} /\ AllCanceled(plan)) => Known = {}

\* What an emergency relies on: nothing is sold short and "all cancelled" is true.
EmergencyHolds == NeverShort /\ AllCanceledIsAll
=============================================================================

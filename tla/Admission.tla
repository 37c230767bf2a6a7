----------------------------- MODULE Admission -----------------------------
(***************************************************************************)
(* What has to be true before a process may trade: the decided markets the *)
(* hourly sync collects from the venue's closed events, the baseline row   *)
(* counted from them, the promotions the owner signs and revokes, and the  *)
(* admission a LIVE process reads, statement by statement, as it starts.   *)
(***************************************************************************)
EXTENDS Integers, FiniteSets, FiniteSetsExt

CONSTANTS
    EvidenceMarkets,    \* markets that may be decided
    Grants,             \* ids of promotions, in the order of created_at
    Ticks,              \* ticks of the sync that may run at the same time
    MinClusters,        \* SHADOW_BASELINE_MIN_CLUSTERS
    MinDays,            \* SHADOW_BASELINE_MIN_DAYS
    MaxDays,            \* bound on the clock
    MaxTickFailures     \* bound on the failed fetches and statements

ASSUME AdmissionAssumption ==
    /\ {MinClusters, MinDays, MaxDays, MaxTickFailures} \subseteq Nat
    /\ Grants \subseteq Nat \ {0}

VARIABLES
    closed,     \* the closed events of the venue: [market, prices]
    clusters,   \* resolved_clusters: [market, winner]
    tick,       \* tick -> where it is and the rows it still has to insert
    baseline,   \* the row of shadow_baseline
    day,        \* the clock
    grants,     \* live_promotions: id -> its row, for the ids granted
    latched,    \* live_guard_state.halted
    unknown,    \* a recovery row has been in SUBMISSION_UNKNOWN for long
    start,      \* the start-up of the LIVE process
    spoilt      \* history: failures of ticks, listings that aged out

admissionVars == <<closed, clusters, tick, baseline, day, grants, latched, unknown, start, spoilt>>
evidenceVars == <<closed, clusters, tick, baseline>>
startupVars == <<grants, latched, unknown, start>>

(***************************************************************************)
(* The resolution sync.                                                    *)
(***************************************************************************)

\* A closed market whose prices name one winner is decided: one pays, none
\* (not resolved yet) and both (split) do not.
Winner(prices) == CHOOSE w \in {"YES", "NO"} : prices = {w}
\* Slip: only the markets YES won are counted.
ParseYesMarkets(events) == {[market |-> e.market, winner |-> "YES"] : e \in {f \in events : f.prices = {"YES"}}}
ParseResolvedMarkets(events) ==
    {[market |-> e.market, winner |-> Winner(e.prices)] : e \in {f \in events : Cardinality(f.prices) = 1}}

\* A decision is final, and a market that left the listing does not come back.
MarketCloses(m, prices) ==
    /\ \A e \in closed : e.market # m \/ Cardinality(e.prices) # 1
    /\ m \notin spoilt.dropped
    /\ closed' = {e \in closed : e.market # m} \cup {[market |-> m, prices |-> prices]}
    /\ UNCHANGED <<clusters, tick, baseline, day, spoilt, startupVars>>

\* The listing gives the newest events of thirty days only.
ListingDrops(e) ==
    /\ e \in closed /\ closed' = closed \ {e}
    /\ spoilt' = [spoilt EXCEPT !.dropped = @ \cup {e.market}]
    /\ UNCHANGED <<clusters, tick, baseline, day, startupVars>>

\* tick: one request, one INSERT for each decided market, then the training
\* (Calibration) and the refresh.  Nothing keeps two ticks apart.
TickFetches(t) ==
    /\ tick[t].pc = "idle"
    /\ tick' = [tick EXCEPT ![t] = [pc |-> "insert", todo |-> ParseResolvedMarkets(closed)]]
    /\ UNCHANGED <<closed, clusters, baseline, day, spoilt, startupVars>>

\* ON CONFLICT (cluster_hash) DO NOTHING.
TickInserts(t) ==
    /\ tick[t].pc = "insert"
    /\ IF tick[t].todo = {} THEN tick' = [tick EXCEPT ![t].pc = "refresh"] /\ clusters' = clusters
       ELSE \E r \in tick[t].todo :
              /\ clusters' = clusters \cup {r}
              /\ tick' = [tick EXCEPT ![t].todo = @ \ {r}]
    /\ UNCHANGED <<closed, baseline, day, spoilt, startupVars>>

\* Slip: each refresh counts one more than there are.
SyncGenerously == baseline' = [days |-> day, count |-> Cardinality(clusters) + 1]
\* BASELINE_REFRESH_SQL, as the sync and `shadow-baseline refresh` run it.
SyncBaselineRow == baseline' = [days |-> day, count |-> Cardinality(clusters)]

TickRefreshes(t) ==
    /\ tick[t].pc = "refresh"
    /\ SyncBaselineRow
    /\ tick' = [tick EXCEPT ![t] = [pc |-> "idle", todo |-> {}]]
    /\ UNCHANGED <<closed, clusters, day, spoilt, startupVars>>

\* A failed fetch or INSERT ends the tick; a failed refresh is swallowed.
TickFails(t) ==
    /\ tick[t].pc # "idle" /\ spoilt.failures < MaxTickFailures
    /\ spoilt' = [spoilt EXCEPT !.failures = @ + 1]
    /\ tick' = [tick EXCEPT ![t] = [pc |-> "idle", todo |-> {}]]
    /\ UNCHANGED <<closed, clusters, baseline, day, startupVars>>

DayPasses ==
    /\ day < MaxDays /\ day' = day + 1
    /\ UNCHANGED <<evidenceVars, spoilt, startupVars>>

(***************************************************************************)
(* Promotions: `live-promote grant` and `revoke`.                          *)
(***************************************************************************)

Granted == DOMAIN grants

\* The key that signs is the one the wallet has on that day, the owner's or
\* another; the cap it raises is checked before signing and again at the start.
Grant(id, signer, days) ==
    /\ id \notin Granted /\ \A g \in Granted : g < id
    /\ days > 0
    /\ grants' = [g \in Granted \cup {id} |-> IF g \in Granted THEN grants[g]
                    ELSE [signer |-> signer, expires |-> day + days, revoked |-> FALSE]]
    /\ UNCHANGED <<evidenceVars, day, latched, unknown, start, spoilt>>

Revoke(id) ==
    /\ id \in Granted /\ ~grants[id].revoked
    /\ grants' = [grants EXCEPT ![id].revoked = TRUE]
    /\ UNCHANGED <<evidenceVars, day, latched, unknown, start, spoilt>>

\* What other parts of the system write: the loss latch and the orders whose
\* answer is still unknown.
GuardChanges(halted, stale) ==
    /\ <<halted, stale>> # <<latched, unknown>>
    /\ latched' = halted /\ unknown' = stale
    /\ UNCHANGED <<evidenceVars, day, grants, start, spoilt>>

(***************************************************************************)
(* resolveStartupAdmission.                                                *)
(***************************************************************************)

Down == [pc |-> "down", promo |-> 0, at |-> 0, g2 |-> FALSE, admitted |-> FALSE]

\* PgPromotionStore.latest: the newest that is neither revoked nor expired.
Valid(now) == {g \in Granted : ~grants[g].revoked /\ grants[g].expires > now}

StartReadsPromotion ==
    /\ start.pc = "down"
    /\ start' = IF Valid(day) = {} THEN [Down EXCEPT !.pc = "up"]
                ELSE [Down EXCEPT !.pc = "latch", !.promo = Max(Valid(day)), !.at = day]
    /\ UNCHANGED <<evidenceVars, day, grants, latched, unknown, spoilt>>

\* The gate G2 reads two tables in two statements.
StartReadsLatch ==
    /\ start.pc = "latch"
    /\ start' = [start EXCEPT !.pc = "unknown", !.g2 = ~latched]
    /\ UNCHANGED <<evidenceVars, day, grants, latched, unknown, spoilt>>

StartReadsUnknown ==
    /\ start.pc = "unknown"
    /\ start' = [start EXCEPT !.pc = "baseline", !.g2 = @ /\ ~unknown]
    /\ UNCHANGED <<evidenceVars, day, grants, latched, unknown, spoilt>>

\* checkShadowBaselineRow.
BaselineMet == baseline.days >= MinDays /\ baseline.count >= MinClusters

\* resolveLiveAdmission and evaluateLivePromotion, with the gates that do not
\* change during a start: migrations, lockfile, wallet and credentials.
ResolveLiveAdmission(promo, g4, fixed) ==
    /\ promo.signer = "owner" /\ promo.expires > start.at
    /\ fixed /\ start.g2 /\ g4

StartDecides(fixed) ==
    /\ start.pc = "baseline"
    /\ start' = [start EXCEPT !.pc = "up",
                    !.admitted = ResolveLiveAdmission(grants[start.promo], BaselineMet, fixed)]
    /\ UNCHANGED <<evidenceVars, day, grants, latched, unknown, spoilt>>

\* A read that fails leaves the process blocked; a new start reads again.
StartFails ==
    /\ start.pc \in {"latch", "unknown", "baseline"}
    /\ start' = [Down EXCEPT !.pc = "up"]
    /\ UNCHANGED <<evidenceVars, day, grants, latched, unknown, spoilt>>

StartAgain ==
    /\ start.pc = "up" /\ start' = Down
    /\ UNCHANGED <<evidenceVars, day, grants, latched, unknown, spoilt>>

-----------------------------------------------------------------------------

AdmissionInit ==
    /\ closed = {} /\ clusters = {} /\ tick = [t \in Ticks |-> [pc |-> "idle", todo |-> {}]]
    /\ baseline = [days |-> 0, count |-> 0] /\ day = 0
    /\ grants = << >> /\ latched = FALSE /\ unknown = FALSE /\ start = Down
    /\ spoilt = [failures |-> 0, dropped |-> {}]

Evidence ==
    \/ \E m \in EvidenceMarkets, p \in SUBSET {"YES", "NO"} : MarketCloses(m, p)
    \/ \E e \in closed : ListingDrops(e)
    \/ \E t \in Ticks : TickFetches(t) \/ TickInserts(t) \/ TickRefreshes(t) \/ TickFails(t)
    \/ DayPasses

Startup ==
    \/ \E id \in Grants, s \in {"owner", "other"} : Grant(id, s, 1)
    \/ \E id \in Granted : Revoke(id)
    \/ \E h, u \in BOOLEAN : GuardChanges(h, u)
    \/ StartReadsPromotion \/ StartReadsLatch \/ StartReadsUnknown
    \/ (\E fixed \in BOOLEAN : StartDecides(fixed)) \/ StartFails \/ StartAgain

AdmissionNext == Evidence \/ Startup

\* The timer of the sync, and awaits that return.
TickGoesOn(t) == TickFetches(t) \/ TickInserts(t) \/ TickRefreshes(t)
AdmissionFairness == \A t \in Ticks : WF_admissionVars(TickGoesOn(t))

-----------------------------------------------------------------------------

AdmissionTypeOK ==
    /\ closed \subseteq [market : EvidenceMarkets, prices : SUBSET {"YES", "NO"}]
    /\ clusters \subseteq [market : EvidenceMarkets, winner : {"YES", "NO"}]
    /\ baseline.count \in 0..Cardinality(clusters) /\ baseline.days \in 0..day
    /\ Granted \subseteq Grants /\ start.promo \in Granted \cup {0}

\* An admitted process has a promotion the owner signed, that raises the cap
\* and had not expired when the start read it, and enough evidence: as many
\* markets decided, each counted once, and days as the gate asks for, however
\* ticks overlapped or failed while it was collected.
AdmittedOnEvidence ==
    start.admitted =>
        /\ grants[start.promo].signer = "owner" /\ grants[start.promo].expires > start.at
        /\ Cardinality({r.market : r \in clusters}) >= MinClusters /\ day >= MinDays

\* A market that is decided is counted by the baseline in the end, unless the
\* listing drops it first: overlapping and failing ticks lose none.
ResolutionsAreCounted ==
    \A m \in EvidenceMarkets :
        (\E e \in closed : e.market = m /\ Cardinality(e.prices) = 1)
            ~> \/ baseline.count = Cardinality(clusters) /\ m \in {r.market : r \in clusters}
               \/ m \in spoilt.dropped
=============================================================================

------------------------- MODULE MemRecoveryLedger -------------------------
(***************************************************************************)
(* The recovery ledger the tests run on, MemRecoveryLedger, beside the one *)
(* of production, PgRecoveryLedger: one row of each, under the same calls. *)
(* What a test shows of an order holds in production as far as they agree. *)
(***************************************************************************)
EXTENDS Integers

CONSTANT Fills      \* cumulative fills a venue reports

ASSUME DoubleAssumption == Fills \subseteq Nat

VARIABLES
    mem,        \* the order in the map
    pg,         \* the row in the table
    disorder    \* "again" once it was submitted again, "stale" once it was resting after its end

doubleVars == <<mem, pg, disorder>>

Pg == INSTANCE RecoveryLedger

\* The statuses an adapter may report, and the states the executor writes.
Statuses == {"LIVE", "PARTIAL", "MATCHED", "CANCELED", "NONE"}
States == {"SUBMISSION_UNKNOWN", "CANCEL_CERTAIN"}

\* set: addSubmittedUnknown and the claim put a new order in the place of the old.
MemSubmitted == Pg!Entry("SUBMITTING", FALSE, "NONE", 0)

MemStateUpdated(row, state) == IF row.exists THEN Pg!InState(row, state) ELSE row

MemNeedsReconcile(row) == row.exists /\ ~row.resolved
MemCancelRequested(row) == IF MemNeedsReconcile(row) THEN Pg!InState(row, "CANCEL_UNKNOWN") ELSE row

\* resolve: the status ends the order, and only without one the acknowledgement
\* does; a report that it rests is let through to the verdict once it is resolved.
MemVerdict(reply) ==
    CASE reply.status \in {"CANCELED", "REJECTED", "EXPIRED"} -> "DEFINITIVE_REJECT"
      [] reply.status = "MATCHED" \/ (reply.ack /\ reply.status \in {"LIVE", "PARTIAL", "NONE"}) -> "ACKNOWLEDGED"
      [] OTHER -> "DEFINITIVE_REJECT"
MemResolved(row, reply) ==
    CASE ~row.exists -> row
      [] MemNeedsReconcile(row) /\ reply.status \in {"LIVE", "PARTIAL"} -> Pg!InState(row, "ACKNOWLEDGED")
      [] OTHER -> Pg!Entry(MemVerdict(reply), TRUE, MemVerdict(reply), row.counted)

\* Slip: a report is added to what was counted before.
MemFillAdded(row, filled) == IF row.exists THEN [row EXCEPT !.counted = @ + filled] ELSE row
\* consumeFill
MemFillCounted(row, filled) ==
    IF row.exists /\ filled > row.counted THEN [row EXCEPT !.counted = filled] ELSE row

-----------------------------------------------------------------------------

DoubleInit == mem = Pg!NoRow /\ pg = Pg!NoRow /\ disorder = {}

Submitted ==
    /\ mem' = MemSubmitted /\ pg' = Pg!Upserted(pg)
    /\ disorder' = IF pg.exists THEN disorder \cup {"again"} ELSE disorder
Updated(state) ==
    /\ mem' = MemStateUpdated(mem, state) /\ pg' = Pg!StateUpdated(pg, state) /\ UNCHANGED disorder
CancelAsked ==
    /\ mem' = MemCancelRequested(mem) /\ pg' = Pg!CancelRequested(pg) /\ UNCHANGED disorder
ReportArrives(reply) ==
    /\ mem' = MemResolved(mem, reply) /\ pg' = Pg!Resolved(pg, reply)
    /\ disorder' = IF pg.resolved /\ reply.status \in Pg!Resting THEN disorder \cup {"stale"} ELSE disorder
FillReported(filled) ==
    /\ mem' = MemFillCounted(mem, filled) /\ pg' = Pg!FillCounted(pg, filled) /\ UNCHANGED disorder

DoubleNext ==
    \/ Submitted \/ CancelAsked
    \/ \E state \in States : Updated(state)
    \/ \E ack \in BOOLEAN, status \in Statuses : ReportArrives(Pg!Reply(ack, status, 0))
    \/ \E filled \in Fills : FillReported(filled)

-----------------------------------------------------------------------------

DoubleTypeOK == pg.counted \in Fills \cup {0} /\ mem.exists = pg.exists

\* An order that is submitted once and reported in order reads the same from both
\* ledgers, whatever else happens to it.  A stale report that it rests changes its
\* verdict in memory alone, but neither ledger polls it again, and they still count
\* the same of its fills.
DoublesAgree ==
    /\ disorder = {} => mem = pg
    /\ "again" \notin disorder =>
          (MemNeedsReconcile(mem) <=> Pg!NeedsReconcile(pg)) /\ mem.counted = pg.counted
=============================================================================

--------------------------- MODULE RecoveryLedger ---------------------------
(***************************************************************************)
(* One row of the table `recovery_ledger` and the statements               *)
(* PgRecoveryLedger (venue/src/recovery-ledger.ts) runs on it.  Each is a  *)
(* single statement or a transaction that locks the row: one step.         *)
(***************************************************************************)
EXTENDS Integers

\* What an adapter says of an order: `ack` when submit_status is
\* ACKNOWLEDGED, `status` is the order_status ("NONE" when it has none).
Reply(ack, status, filled) == [ack |-> ack, status |-> status, filled |-> filled]

Resting == {"LIVE", "PARTIAL"}
Dead == {"CANCELED", "REJECTED", "EXPIRED"}

\* `verdict` is resolved_state, `counted` is consumed_fill_cash_base.
Entry(state, resolved, verdict, counted) ==
  [exists |-> TRUE, state |-> state, resolved |-> resolved,
   verdict |-> verdict, counted |-> counted]
NoRow == [exists |-> FALSE, state |-> "NOT_SEEN", resolved |-> FALSE,
          verdict |-> "NONE", counted |-> 0]

InState(row, state) == Entry(state, row.resolved, row.verdict, row.counted)

\* The upsert of addSubmittedUnknown and of the claim: a row that exists
\* keeps its `resolved`, its verdict and its fill counters.
Upserted(row) == InState(row, "SUBMITTING")

\* Slip: updateState opens the row again.
StateReopened(row, state) == IF row.exists THEN Entry(state, FALSE, "NONE", row.counted) ELSE row
\* updateState has no guard on `resolved`.
StateUpdated(row, state) == IF row.exists THEN InState(row, state) ELSE row

\* Slip: only unknown outcomes are polled.
NeedsReconcileUnknownOnly(row) == row.exists /\ row.state = "SUBMISSION_UNKNOWN"

NeedsReconcile(row) == row.exists /\ ~row.resolved

CancelRequested(row) ==
  IF NeedsReconcile(row) THEN InState(row, "CANCEL_UNKNOWN") ELSE row

\* resolve: a terminal order status beats the acknowledgement, and with
\* neither of the two known the order counts as rejected.
Verdict(reply) ==
  IF reply.status \notin Dead /\ (reply.status = "MATCHED" \/ reply.ack)
  THEN "ACKNOWLEDGED" ELSE "DEFINITIVE_REJECT"

\* Slip: an acknowledged order is closed whether or not it rests.
ResolvedOnAck(row, reply) ==
  IF row.exists
  THEN Entry(IF reply.ack THEN "ACKNOWLEDGED" ELSE "DEFINITIVE_REJECT", TRUE,
             IF reply.ack THEN "ACKNOWLEDGED" ELSE "DEFINITIVE_REJECT", row.counted)
  ELSE row

Resolved(row, reply) ==
  CASE ~row.exists -> row
    [] row.exists /\ reply.status \in Resting ->
         IF row.resolved THEN row ELSE InState(row, "ACKNOWLEDGED")
    [] row.exists /\ reply.status \notin Resting ->
         Entry(Verdict(reply), TRUE, Verdict(reply), row.counted)

\* consumeFill: monotonic counter, and the part of it not counted before.
FillDelta(row, filled) ==
  IF row.exists /\ filled > row.counted THEN filled - row.counted ELSE 0
\* Slip: the cumulative fill added as if it were new.
FillCountedAgain(row, filled) == [row EXCEPT !.counted = row.counted + filled]
FillCounted(row, filled) ==
  [row EXCEPT !.counted = row.counted + FillDelta(row, filled)]
=============================================================================

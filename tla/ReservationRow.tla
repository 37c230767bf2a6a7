--------------------------- MODULE ReservationRow ---------------------------
(***************************************************************************)
(* One row of the table `reservations` and what a transaction of           *)
(* ReservationManager (risk/src/reservation-manager.ts) does to it and to  *)
(* the balance row it is held against.  Amounts are whole base units, so   *)
(* toBaseUnits, which truncates a NUMERIC to one, loses nothing.           *)
(***************************************************************************)
EXTENDS Integers

LiveStatus == {"ACTIVE", "PARTIALLY_CONSUMED"}
TerminalStatus == {"CONSUMED", "RELEASED", "EXPIRED"}

\* The permit deadline of the row has passed for consume() ...
PastDeadline(row, now) == now > row.expires
\* ... and for the expiry job, which already selects the deadline itself.
Overdue(row, now) == row.expires <= now

IsLive(row) == row.status \in LiveStatus

\* Slip: what was consumed is given back again.
RemainingIgnoringFills(row) == row.amount - row.released

\* amount - consumed - released: what the balance row still holds for it.
Remaining(row) == row.amount - row.consumed - row.released

\* Slip: the amount check of consume() forgotten.
CanConsumeAnyAmount(row, filled, now) ==
  filled > 0 /\ ~PastDeadline(row, now) /\ IsLive(row)

\* The checks of consume() between the row lock and the balance update.
CanConsume(row, filled, now) ==
  /\ filled > 0
  /\ ~PastDeadline(row, now)
  /\ IsLive(row)
  /\ row.consumed + filled <= row.amount

\* The UPDATEs rewrite these three columns of a row and no other.
Rewritten(row, status, consumed, released) ==
  [status |-> status, intent |-> row.intent, amount |-> row.amount,
   consumed |-> consumed, released |-> released, expires |-> row.expires]

AfterConsume(row, filled) ==
  LET consumed == row.consumed + filled IN
  Rewritten(row, IF consumed = row.amount THEN "CONSUMED" ELSE "PARTIALLY_CONSUMED",
            consumed, row.released)

\* release() takes its terminal status from the reason it is given.
ReleaseReason == {"CANCELLED", "REJECTED", "EXPIRED"}
\* Slip: the reason itself written as the status.
StatusIsReason(reason) == reason
StatusFor(reason) == IF reason = "EXPIRED" THEN "EXPIRED" ELSE "RELEASED"

CanRelease(row) == IsLive(row) /\ Remaining(row) >= 0

AfterRelease(row, reason) ==
  Rewritten(row, StatusFor(reason), row.consumed, row.released + Remaining(row))

(***************************************************************************)
(* The balance updates carry `WHERE committed_base >= $3` and their row    *)
(* count is not looked at: when the guard fails the transaction goes on    *)
(* and commits the reservation row alone.                                  *)
(***************************************************************************)
Balance(exists, available, committed) ==
  [exists |-> exists, available |-> available, committed |-> committed]

\* Slip: the guard of the update is strict, so the last unit stays.
BalanceAfterConsumeStrictly(balance, filled) ==
  IF balance.committed > filled
  THEN Balance(balance.exists, balance.available, balance.committed - filled)
  ELSE balance

BalanceAfterConsume(balance, filled) ==
  IF balance.committed >= filled
  THEN Balance(balance.exists, balance.available, balance.committed - filled)
  ELSE balance

BalanceAfterRelease(balance, amount) ==
  IF balance.committed >= amount
  THEN Balance(balance.exists, balance.available + amount, balance.committed - amount)
  ELSE balance
=============================================================================

---------------------------- MODULE Reservations ----------------------------
(***************************************************************************)
(* The money of one (account, asset): its row of `balance_entries` and the *)
(* `reservations` rows held against it, under every transaction the code   *)
(* runs on them:                                                           *)
(*   - MoneyKernel.reserve, its two unlocked reads, and the REPEATABLE     *)
(*     READ transaction of PgMoneyAuthority.reserve it retries;            *)
(*   - ReservationManager.consume and release, called by the executor;     *)
(*   - the expiry job, which selects the overdue ids first and then        *)
(*     expires them one transaction at a time;                             *)
(*   - applyAttestedCredit, the operator's `bankroll credit`.              *)
(* consume, release and credit lock the rows they read (FOR UPDATE) and    *)
(* are one step each.  reserve is not: it decides on a snapshot.           *)
(***************************************************************************)
EXTENDS ReservationRow, RunningTotal, FiniteSets, Sequences

CONSTANTS
  Clients,      \* callers of MoneyKernel.reserve
  Intents,      \* trade intents
  Amounts,      \* cash (base units) a reserve asks for or a fill spends
  Attestations, \* totals the operator may attest
  MaxOpen,      \* maxOpenReservations
  MaxRetries,   \* MAX_SERIALIZATION_RETRIES
  TTL,          \* lifetime of a reservation, in clock units
  MaxRows,      \* bound: rows of the table
  LastIssue,    \* bound: no reserve starts after this time
  MaxCrashes    \* bound: process restarts

ASSUME ConstantsAssumption ==
  /\ Amounts \subseteq Nat \ {0}
  /\ Attestations \subseteq Nat \ {0}
  /\ MaxOpen \in Nat
  /\ MaxRetries \in Nat
  /\ TTL \in Nat
  /\ MaxRows \in Nat
  /\ LastIssue \in Nat
  /\ MaxCrashes \in Nat

VARIABLES
  balance,      \* the balance row: exists, available, committed
  rows,         \* the rows of `reservations`; an id is a row's place
  clock,        \* time
  kernel,       \* client -> its MoneyKernel.reserve call
  overdue,      \* ids the expiry job selected and has still to expire
  crashes       \* restarts so far

vars == <<balance, rows, clock, kernel, overdue, crashes>>

Row == [status : LiveStatus \cup TerminalStatus, intent : Intents,
        amount : Nat, consumed : Nat, released : Nat, expires : Nat]

Ids == DOMAIN rows
Live == {r \in Ids : IsLive(rows[r])}
Active == {r \in Ids : rows[r].status = "ACTIVE"}
ActiveFor(i) == {r \in Active : rows[r].intent = i}

\* A reserve call: where it is, what it asks for, and what the snapshot of
\* its open transaction shows.
Idle == [at |-> "idle"]
Call == [at : {"counted", "ready"}, intent : Intents, need : Amounts,
         issued : Nat, attempt : Nat]
OpenCall == [at : {"open"}, intent : Intents, need : Amounts, issued : Nat,
             attempt : Nat, funded : BOOLEAN, count : Nat, fresh : BOOLEAN]

TypeOK ==
  /\ balance \in [exists : BOOLEAN, available : Nat, committed : Nat]
  /\ rows \in Seq(Row)
  /\ clock \in Nat
  /\ kernel \in [Clients -> {Idle} \cup Call \cup OpenCall]
  /\ overdue \subseteq Ids
  /\ crashes \in Nat

Init ==
  /\ balance = Balance(FALSE, 0, 0)
  /\ rows = <<>>
  /\ clock = 0
  /\ kernel = [c \in Clients |-> Idle]
  /\ overdue = {}
  /\ crashes = 0

(***************************************************************************)
(* A committed write of the balance row makes it newer than every open     *)
(* snapshot: the SELECT ... FOR UPDATE of those transactions fails with    *)
(* 40001.                                                                  *)
(***************************************************************************)
\* Slip: READ COMMITTED, a write ends no open transaction.
NothingStaled(calls) == calls

Staled(calls) ==
  [c \in Clients |-> IF calls[c].at = "open" THEN [calls[c] EXCEPT !.fresh = FALSE]
                                            ELSE calls[c]]

-----------------------------------------------------------------------------
\* MoneyKernel.reserve

\* countOpenReservations: refused at the limit, otherwise go on.
CountOpen(c, i, n) ==
  /\ kernel[c].at = "idle"
  /\ clock <= LastIssue /\ Len(rows) < MaxRows       \* bounds
  /\ Cardinality(Active) < MaxOpen
  /\ kernel' = [kernel EXCEPT ![c] =
       [at |-> "counted", intent |-> i, need |-> n, issued |-> clock, attempt |-> 0]]
  /\ UNCHANGED <<balance, rows, clock, overdue, crashes>>

\* balance.get and the availability check; a missing row throws.
CheckBalance(c) ==
  /\ kernel[c].at = "counted"
  /\ kernel' = [kernel EXCEPT ![c] =
       IF balance.exists /\ balance.available >= kernel[c].need
       THEN [kernel[c] EXCEPT !.at = "ready"]
       ELSE Idle]
  /\ UNCHANGED <<balance, rows, clock, overdue, crashes>>

-----------------------------------------------------------------------------
\* PgMoneyAuthority.reserve

\* BEGIN and the first statement, which fixes the snapshot: refuse an intent
\* that already has an ACTIVE row.
OpenTransaction(c) ==
  /\ kernel[c].at = "ready"
  /\ kernel' = [kernel EXCEPT ![c] =
       IF ActiveFor(kernel[c].intent) # {}
       THEN Idle
       ELSE [at |-> "open", intent |-> kernel[c].intent, need |-> kernel[c].need,
             issued |-> kernel[c].issued, attempt |-> kernel[c].attempt,
             funded |-> balance.exists, count |-> Cardinality(Active),
             fresh |-> TRUE]]
  /\ UNCHANGED <<balance, rows, clock, overdue, crashes>>

\* The locked balance row changed since the snapshot: rolled back, and run
\* again from the duplicate check while attempts are left.
SerializationConflict(c) ==
  /\ kernel[c].at = "open"
  /\ kernel[c].funded
  /\ ~kernel[c].fresh
  /\ kernel' = [kernel EXCEPT ![c] =
       IF kernel[c].attempt < MaxRetries
       THEN [at |-> "ready", intent |-> kernel[c].intent, need |-> kernel[c].need,
             issued |-> kernel[c].issued, attempt |-> kernel[c].attempt + 1]
       ELSE Idle]
  /\ UNCHANGED <<balance, rows, clock, overdue, crashes>>

\* Row missing in the snapshot, too little available, the open limit, or any
\* other error of the transaction: ROLLBACK and a refusal.
Refuse(c) ==
  /\ kernel[c].at = "open"
  /\ kernel' = [kernel EXCEPT ![c] = Idle]
  /\ UNCHANGED <<balance, rows, clock, overdue, crashes>>

\* Lock, check, move the funds, insert the row, COMMIT.
CommitReserve(c) ==
  LET call == kernel[c] IN
  /\ call.at = "open"
  /\ call.funded
  /\ call.fresh
  /\ balance.available >= call.need
  /\ call.count < MaxOpen
  /\ ActiveFor(call.intent) = {}      \* uq_reservations_active_intent
  /\ Len(rows) < MaxRows                \* bound
  /\ balance' = Balance(TRUE, balance.available - call.need,
                              balance.committed + call.need)
  /\ rows' = Append(rows,
       [status |-> "ACTIVE", intent |-> call.intent, amount |-> call.need,
        consumed |-> 0, released |-> 0, expires |-> call.issued + TTL])
  /\ kernel' = [Staled(kernel) EXCEPT ![c] = Idle]
  /\ UNCHANGED <<clock, overdue, crashes>>

-----------------------------------------------------------------------------
\* ReservationManager

Consume(r, filled) ==
  /\ CanConsume(rows[r], filled, clock)
  /\ balance' = BalanceAfterConsume(balance, filled)
  /\ rows' = [rows EXCEPT ![r] = AfterConsume(rows[r], filled)]
  /\ kernel' = Staled(kernel)
  /\ UNCHANGED <<clock, overdue, crashes>>

\* Slip: release() without the lock on the balance row.
UnlockedReleaseTransaction(r, reason) ==
  /\ CanRelease(rows[r])
  /\ balance' = BalanceAfterRelease(balance, Remaining(rows[r]))
  /\ rows' = [rows EXCEPT ![r] = AfterRelease(rows[r], reason)]
  /\ kernel' = kernel

\* The transaction of release(), whoever calls it.
ReleaseTransaction(r, reason) ==
  /\ CanRelease(rows[r])
  /\ balance' = BalanceAfterRelease(balance, Remaining(rows[r]))
  /\ rows' = [rows EXCEPT ![r] = AfterRelease(rows[r], reason)]
  /\ kernel' = Staled(kernel)

\* The executor, after a cancel, a rejection or a terminal venue status.
Release(r, reason) ==
  /\ reason # "EXPIRED"
  /\ ReleaseTransaction(r, reason)
  /\ UNCHANGED <<clock, overdue, crashes>>

\* Slip: the SELECT asks for ACTIVE rows only.
SelectOverdueActive ==
  LET due == {r \in Active : Overdue(rows[r], clock)} IN
  /\ overdue = {}
  /\ due # {}
  /\ overdue' = due
  /\ UNCHANGED <<balance, rows, clock, kernel, crashes>>

\* expireOverdue: the SELECT; a second run waits for the first (`running`).
SelectOverdue ==
  LET due == {r \in Live : Overdue(rows[r], clock)} IN
  /\ overdue = {}
  /\ due # {}
  /\ overdue' = due
  /\ UNCHANGED <<balance, rows, clock, kernel, crashes>>

\* expireOverdue: one iteration of the loop.  A row that went terminal since
\* the SELECT is refused by release() and skipped.
ExpireOne(r) ==
  /\ r \in overdue
  /\ overdue' = overdue \ {r}
  /\ \/ ReleaseTransaction(r, "EXPIRED")
     \/ ~CanRelease(rows[r]) /\ UNCHANGED <<balance, rows, kernel>>
  /\ UNCHANGED <<clock, crashes>>

-----------------------------------------------------------------------------
\* Slip: the attested total made available beside what is committed.
AttestedBesideCommitted(total) ==
  /\ total > balance.available + balance.committed
  /\ balance' = Balance(TRUE, total, balance.committed)
  /\ kernel' = Staled(kernel)
  /\ UNCHANGED <<rows, clock, overdue, crashes>>

\* applyAttestedCredit: insert the row, or raise available + committed to the
\* attested total.  A lower total is refused, an equal one changes nothing.
AttestedCredit(total) ==
  /\ \/ /\ ~balance.exists
        /\ balance' = Balance(TRUE, total, 0)
     \/ /\ balance.exists
        /\ total > balance.available + balance.committed
        /\ balance' = Balance(TRUE, total - balance.committed, balance.committed)
  /\ kernel' = Staled(kernel)
  /\ UNCHANGED <<rows, clock, overdue, crashes>>

-----------------------------------------------------------------------------
\* A restart forgets the calls and the expiry loop; open transactions roll
\* back.
Crash ==
  /\ crashes < MaxCrashes
  /\ crashes' = crashes + 1
  /\ kernel' = [c \in Clients |-> Idle]
  /\ overdue' = {}
  /\ UNCHANGED <<balance, rows, clock>>

Tick ==
  /\ clock <= LastIssue + TTL
  /\ clock' = clock + 1
  /\ UNCHANGED <<balance, rows, kernel, overdue, crashes>>

Reserving(c) ==
  \/ \E i \in Intents, n \in Amounts : CountOpen(c, i, n)
  \/ CheckBalance(c)
  \/ OpenTransaction(c)
  \/ SerializationConflict(c)
  \/ Refuse(c)
  \/ CommitReserve(c)

Next ==
  \/ \E c \in Clients : Reserving(c)
  \/ \E r \in Ids, filled \in Amounts : Consume(r, filled)
  \/ \E r \in Ids, reason \in ReleaseReason : Release(r, reason)
  \/ SelectOverdue
  \/ \E r \in Ids : ExpireOne(r)
  \/ \E total \in Attestations : AttestedCredit(total)
  \/ Crash
  \/ Tick

Spec == Init /\ [][Next]_vars

\* The expiry job is a timer of the process and the database answers it.
FairSpec ==
  /\ Spec
  /\ WF_vars(Tick)
  /\ WF_vars(SelectOverdue)
  /\ \A r \in 1 .. MaxRows : WF_vars(ExpireOne(r))

-----------------------------------------------------------------------------
Outstanding(row) == IF IsLive(row) THEN Remaining(row) ELSE 0
OutstandingOf(table) == [r \in DOMAIN table |-> Outstanding(table[r])]

(***************************************************************************)
(* The money held in `committed_base` is exactly what the live             *)
(* reservations still have to spend or return, whatever reserves, fills,   *)
(* releases, expiries, credits and restarts interleave.                    *)
(***************************************************************************)
CommittedBacksReservations ==
  /\ balance.committed = Total(OutstandingOf(rows), Len(rows))
  /\ ~balance.exists => balance.committed = 0

(***************************************************************************)
(* What the accounting comment of consume() and migration 0013 promise of  *)
(* every row: nothing is spent or returned beyond the reserved amount, a   *)
(* live row still has something to spend, and a terminal row holds nothing *)
(* back.                                                                   *)
(***************************************************************************)
RowAccounting ==
  \A r \in Ids : LET row == rows[r] IN
    /\ row.consumed + row.released <= row.amount
    /\ IsLive(row) <=> Remaining(row) > 0
    /\ IsLive(row) => row.released = 0
    /\ row.status = "CONSUMED" => row.consumed = row.amount
    /\ row.status = "ACTIVE" => row.consumed = 0

(***************************************************************************)
(* Callers that all counted fewer than maxOpenReservations before any of   *)
(* them reserved cannot together exceed the limit.                         *)
(***************************************************************************)
OpenLimitHolds == Cardinality(Active) <= MaxOpen

(***************************************************************************)
(* The row lock does the work of serializability: a reserve transaction    *)
(* whose locked balance row is not newer than its snapshot decides on the  *)
(* present.  Its count is the present number of ACTIVE rows, and its       *)
(* intent still has none, so uq_reservations_active_intent (migration      *)
(* 0012) never has to reject its insert.                                   *)
(***************************************************************************)
FreshSnapshotIsExact ==
  \A c \in Clients : LET call == kernel[c] IN
    call.at = "open" /\ call.fresh =>
      /\ call.count = Cardinality(Active)
      /\ ActiveFor(call.intent) = {}

(***************************************************************************)
(* The rowcounts nobody looks at: whenever consume or release is about to  *)
(* run its balance update, the guard `committed_base >= $3` is true.       *)
(***************************************************************************)
BalanceGuardNeverSkips ==
  \A r \in Live : Remaining(rows[r]) <= balance.committed

(***************************************************************************)
(* No step creates money but an operator's credit, and money leaves the    *)
(* books only as a fill: by what some row's consumed amount grew.          *)
(***************************************************************************)
Books(b) == b.available + b.committed
MoneyMovesOnlyByFillOrCredit ==
  [][ \/ Books(balance') = Books(balance)
      \/ Books(balance') \in Attestations /\ rows' = rows
      \/ \E r \in Ids : Books(balance) - Books(balance')
                        = rows'[r].consumed - rows[r].consumed ]_vars

(***************************************************************************)
(* The books as envelopes of money: available_base is what is free, a row  *)
(* is the envelope of its reservation.  Every transaction is one of the    *)
(* four things one may do with them, though reserve decides on a snapshot, *)
(* the balance updates may skip and the expiry job works on old ids.       *)
(***************************************************************************)
Envelope(row) == [held |-> Outstanding(row), spent |-> row.consumed]
EnvelopesOf(table) == [r \in DOMAIN table |-> Envelope(table[r])]
Purse == INSTANCE Envelopes WITH free <- balance.available, envelopes <- EnvelopesOf(rows)
BooksAreEnvelopes == Purse!PurseSpec

\* A row's status only moves forward, and a terminal row never changes.
Rank(status) == CASE status = "ACTIVE" -> 0
                  [] status = "PARTIALLY_CONSUMED" -> 1
                  [] OTHER -> 2
RowsAdvanceOrStay ==
  \A r \in Ids : /\ Rank(rows[r].status) <= Rank(rows'[r].status)
                /\ ~IsLive(rows[r]) => rows'[r] = rows[r]
RowsOnlyAdvance == [][RowsAdvanceOrStay]_vars

(***************************************************************************)
(* Cash is never stuck: every reservation is consumed, released or expired *)
(* in the end, though the expiry loop works on an old list of ids and a    *)
(* restart may drop that list.                                             *)
(***************************************************************************)
EveryReservationSettles ==
  \A r \in 1 .. MaxRows : (r \in Live) ~> (r \in Ids \ Live)

(***************************************************************************)
(* money-kernel-pg.ts, at the duplicate guard: "exactly one reservation    *)
(* per (intent_id, asset)", re-appending an intent is "not a second        *)
(* authorization".  The weakest reading: never two live rows of an intent. *)
(***************************************************************************)
OneLivePerIntent ==
  \A r, s \in Live : rows[r].intent = rows[s].intent => r = s
=============================================================================

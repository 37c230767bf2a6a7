------------------------- MODULE ReservationsProofs -------------------------
(***************************************************************************)
(* Proofs about Reservations, for any set of clients, intents, amounts and *)
(* attested totals, and any limit, lifetime and bounds.                    *)
(***************************************************************************)
EXTENDS Reservations, RunningTotalProofs, FiniteSetTheorems, SequenceTheorems

-----------------------------------------------------------------------------
\* Type correctness.

\* The record a client holds is told apart by where its call is.
LEMMA CallKinds ==
  ASSUME TypeOK, NEW c \in Clients
  PROVE  /\ kernel[c] \in {Idle} \cup Call \cup OpenCall
         /\ kernel[c].at = "open" => kernel[c] \in OpenCall
         /\ kernel[c].at \in {"counted", "ready"} => kernel[c] \in Call
BY DEF TypeOK, Idle, Call, OpenCall

\* Marking snapshots stale keeps every call well-formed.
LEMMA StaledType ==
  ASSUME TypeOK
  PROVE  Staled(kernel) \in [Clients -> {Idle} \cup Call \cup OpenCall]
<1>1. SUFFICES ASSUME NEW c \in Clients
               PROVE  (IF kernel[c].at = "open" THEN [kernel[c] EXCEPT !.fresh = FALSE]
                                                ELSE kernel[c])
                        \in {Idle} \cup Call \cup OpenCall
  BY DEF Staled
<1>2. CASE kernel[c].at = "open"
  <2>1. kernel[c] \in OpenCall
    BY <1>2, CallKinds
  <2>2. [kernel[c] EXCEPT !.fresh = FALSE] \in OpenCall
    BY <2>1 DEF OpenCall
  <2> QED
    BY <1>2, <2>2
<1>3. CASE kernel[c].at # "open"
  BY <1>3, CallKinds
<1> QED
  BY <1>2, <1>3

\* A consumed row is a row.
LEMMA AfterConsumeType ==
  ASSUME NEW row \in Row, NEW filled \in Nat
  PROVE  AfterConsume(row, filled) \in Row
BY DEF AfterConsume, Rewritten, Row, LiveStatus, TerminalStatus

\* A released row is a row.
LEMMA AfterReleaseType ==
  ASSUME NEW row \in Row, NEW reason \in ReleaseReason, CanRelease(row)
  PROVE  AfterRelease(row, reason) \in Row
BY DEF AfterRelease, Rewritten, CanRelease, Remaining, Row, LiveStatus, TerminalStatus, StatusFor,
       ReleaseReason

\* The guarded updates keep both columns of the balance row non-negative.
LEMMA BalanceUpdatesType ==
  ASSUME NEW b \in [exists : BOOLEAN, available : Nat, committed : Nat], NEW x \in Nat
  PROVE  /\ BalanceAfterConsume(b, x) \in [exists : BOOLEAN, available : Nat, committed : Nat]
         /\ BalanceAfterRelease(b, x) \in [exists : BOOLEAN, available : Nat, committed : Nat]
BY DEF BalanceAfterConsume, BalanceAfterRelease, Balance

\* The transaction of release(), which the executor and the expiry job share.
LEMMA ReleaseType ==
  ASSUME TypeOK, NEW r \in Ids, NEW reason \in ReleaseReason,
         ReleaseTransaction(r, reason)
  PROVE  /\ balance' \in [exists : BOOLEAN, available : Nat, committed : Nat]
         /\ rows' \in Seq(Row) /\ Len(rows') = Len(rows)
         /\ kernel' \in [Clients -> {Idle} \cup Call \cup OpenCall]
<1>1. rows \in Seq(Row) /\ r \in 1 .. Len(rows) /\ rows[r] \in Row
  BY DEF TypeOK, Ids
<1>2. Remaining(rows[r]) \in Nat
  BY <1>1 DEF ReleaseTransaction, CanRelease, Remaining, Row
<1>3. AfterRelease(rows[r], reason) \in Row
  BY <1>1, AfterReleaseType DEF ReleaseTransaction
<1>4. balance' \in [exists : BOOLEAN, available : Nat, committed : Nat]
  BY <1>2, BalanceUpdatesType DEF TypeOK, ReleaseTransaction
<1>5. rows' \in Seq(Row) /\ Len(rows') = Len(rows)
  BY <1>1, <1>3 DEF ReleaseTransaction
<1> QED
  BY <1>4, <1>5, StaledType DEF ReleaseTransaction

\* TypeOK holds in every reachable state of the reservation tables.
THEOREM TypeCorrect == Spec => []TypeOK
<1>1. Init => TypeOK
  BY DEF Init, TypeOK, Idle, Ids, Balance
<1>2. TypeOK /\ [Next]_vars => TypeOK'
  <2> SUFFICES ASSUME TypeOK, [Next]_vars
               PROVE  TypeOK'
    OBVIOUS
  <2> USE ConstantsAssumption
  <2>1. ASSUME NEW c \in Clients, NEW i \in Intents, NEW n \in Amounts, CountOpen(c, i, n)
        PROVE  TypeOK'
    BY <2>1 DEF TypeOK, CountOpen, Ids, Call
  <2>2. ASSUME NEW c \in Clients, CheckBalance(c)
        PROVE  TypeOK'
    <3>1. kernel[c] \in Call
      BY <2>2, CallKinds DEF CheckBalance
    <3>2. [kernel[c] EXCEPT !.at = "ready"] \in Call
      BY <3>1 DEF Call
    <3> QED
      BY <2>2, <3>2 DEF TypeOK, CheckBalance, Ids
  <2>3. ASSUME NEW c \in Clients, OpenTransaction(c)
        PROVE  TypeOK'
    <3>1. kernel[c] \in Call
      BY <2>3, CallKinds DEF OpenTransaction
    <3>2. IsFiniteSet(Active) /\ Cardinality(Active) \in Nat
      <4>1. Active \subseteq 1 .. Len(rows) /\ Len(rows) \in Nat
        BY DEF Active, Ids, TypeOK
      <4>2. IsFiniteSet(1 .. Len(rows))
        BY <4>1, FS_Interval
      <4> QED
        BY <4>1, <4>2, FS_Subset, FS_CardinalityType
    <3>3. balance.exists \in BOOLEAN
      BY DEF TypeOK
    <3>4. [at |-> "open", intent |-> kernel[c].intent, need |-> kernel[c].need,
           issued |-> kernel[c].issued, attempt |-> kernel[c].attempt,
           funded |-> balance.exists, count |-> Cardinality(Active),
           fresh |-> TRUE] \in OpenCall
      BY <3>1, <3>2, <3>3 DEF Call, OpenCall
    <3> QED
      BY <2>3, <3>4 DEF TypeOK, OpenTransaction, Ids
  <2>4. ASSUME NEW c \in Clients, SerializationConflict(c)
        PROVE  TypeOK'
    <3>1. kernel[c] \in OpenCall
      BY <2>4, CallKinds DEF SerializationConflict
    <3>2. [at |-> "ready", intent |-> kernel[c].intent, need |-> kernel[c].need,
           issued |-> kernel[c].issued, attempt |-> kernel[c].attempt + 1] \in Call
      BY <3>1 DEF Call, OpenCall
    <3> QED
      BY <2>4, <3>2 DEF TypeOK, SerializationConflict, Ids
  <2>5. ASSUME NEW c \in Clients, Refuse(c)
        PROVE  TypeOK'
    BY <2>5 DEF TypeOK, Refuse, Ids
  <2>6. ASSUME NEW c \in Clients, CommitReserve(c)
        PROVE  TypeOK'
    <3>1. kernel[c] \in OpenCall
      BY <2>6, CallKinds DEF CommitReserve
    <3>2. kernel[c].need \in Nat /\ kernel[c].issued \in Nat /\ kernel[c].intent \in Intents
      BY <3>1 DEF OpenCall
    <3>3. balance' \in [exists : BOOLEAN, available : Nat, committed : Nat]
      BY <2>6, <3>2 DEF TypeOK, CommitReserve, Balance
    <3>4. rows' \in Seq(Row) /\ Len(rows') = Len(rows) + 1
      BY <2>6, <3>2 DEF TypeOK, CommitReserve, Row, LiveStatus, TerminalStatus
    <3>5. kernel' \in [Clients -> {Idle} \cup Call \cup OpenCall]
      BY <2>6, StaledType DEF CommitReserve
    <3> QED
      <4>1. overdue' \subseteq Ids'
        BY <2>6, <3>4 DEF TypeOK, CommitReserve, Ids
      <4> QED
        BY <2>6, <3>3, <3>4, <3>5, <4>1 DEF TypeOK, CommitReserve
  <2>7. ASSUME NEW r \in Ids, NEW filled \in Amounts, Consume(r, filled)
        PROVE  TypeOK'
    <3>1. rows \in Seq(Row) /\ r \in 1 .. Len(rows) /\ rows[r] \in Row /\ filled \in Nat
      BY DEF TypeOK, Ids
    <3>2. rows' \in Seq(Row) /\ Len(rows') = Len(rows)
      BY <2>7, <3>1, AfterConsumeType DEF Consume
    <3>3. balance' \in [exists : BOOLEAN, available : Nat, committed : Nat]
      BY <2>7, <3>1, BalanceUpdatesType DEF TypeOK, Consume
    <3> QED
      <4>1. kernel' \in [Clients -> {Idle} \cup Call \cup OpenCall]
        BY <2>7, StaledType DEF Consume
      <4>2. overdue' \subseteq Ids'
        BY <2>7, <3>1, <3>2 DEF TypeOK, Consume, Ids
      <4> QED
        BY <2>7, <3>2, <3>3, <4>1, <4>2 DEF TypeOK, Consume
  <2>8. ASSUME NEW r \in Ids, NEW reason \in ReleaseReason, Release(r, reason)
        PROVE  TypeOK'
    BY <2>8, ReleaseType DEF TypeOK, Release, Ids
  <2>9. ASSUME SelectOverdue
        PROVE  TypeOK'
    BY <2>9 DEF TypeOK, SelectOverdue, Live, Ids
  <2>10. ASSUME NEW r \in Ids, ExpireOne(r)
         PROVE  TypeOK'
    <3>1. CASE ReleaseTransaction(r, "EXPIRED")
      BY <2>10, <3>1, ReleaseType DEF TypeOK, ExpireOne, Ids, ReleaseReason
    <3>2. CASE UNCHANGED <<balance, rows, kernel>>
      BY <2>10, <3>2 DEF TypeOK, ExpireOne, Ids
    <3> QED
      BY <2>10, <3>1, <3>2 DEF ExpireOne
  <2>11. ASSUME NEW total \in Attestations, AttestedCredit(total)
         PROVE  TypeOK'
    <3>1. total \in Nat
      OBVIOUS
    <3>2. balance' \in [exists : BOOLEAN, available : Nat, committed : Nat]
      <4>1. \/ balance' = Balance(TRUE, total, 0)
            \/ /\ total > balance.available + balance.committed
               /\ balance' = Balance(TRUE, total - balance.committed, balance.committed)
        BY <2>11, Zenon DEF AttestedCredit
      <4>2. Balance(TRUE, total, 0) \in [exists : BOOLEAN, available : Nat, committed : Nat]
        BY <3>1 DEF Balance
      <4>3. ASSUME total > balance.available + balance.committed
            PROVE  Balance(TRUE, total - balance.committed, balance.committed)
                     \in [exists : BOOLEAN, available : Nat, committed : Nat]
        <5>1. total - balance.committed \in Nat /\ balance.committed \in Nat
          BY <3>1, <4>3 DEF TypeOK
        <5> QED
          BY <5>1 DEF Balance
      <4> QED
        BY <4>1, <4>2, <4>3
    <3> QED
      <4>1. kernel' \in [Clients -> {Idle} \cup Call \cup OpenCall]
        BY <2>11, StaledType DEF AttestedCredit
      <4>2. UNCHANGED <<rows, clock, overdue, crashes>>
        BY <2>11 DEF AttestedCredit
      <4> QED
        BY <3>2, <4>1, <4>2 DEF TypeOK, Ids
  <2>12. ASSUME Crash
         PROVE  TypeOK'
    BY <2>12 DEF TypeOK, Crash, Ids
  <2>13. ASSUME Tick
         PROVE  TypeOK'
    BY <2>13 DEF TypeOK, Tick, Ids
  <2>14. CASE UNCHANGED vars
    BY <2>14 DEF TypeOK, vars, Ids
  <2> QED
    BY <2>1, <2>2, <2>3, <2>4, <2>5, <2>6, <2>7, <2>8, <2>9, <2>10, <2>11, <2>12,
       <2>13, <2>14 DEF Next, Reserving
<1> QED
  BY <1>1, <1>2, PTL DEF Spec

-----------------------------------------------------------------------------
\* The balance row backs the live reservations.

\* The steps that touch the two tables; every other step leaves both alone.
LEMMA TableSteps ==
  ASSUME [Next]_vars
  PROVE  \/ UNCHANGED <<balance, rows>>
         \/ \E c \in Clients : CommitReserve(c)
         \/ \E r \in Ids, filled \in Amounts : Consume(r, filled)
         \/ \E r \in Ids, reason \in ReleaseReason : ReleaseTransaction(r, reason)
         \/ \E total \in Attestations : AttestedCredit(total)
<1>1. CASE UNCHANGED vars
  BY <1>1 DEF vars
<1>2. ASSUME NEW c \in Clients, Reserving(c)
      PROVE  UNCHANGED <<balance, rows>> \/ CommitReserve(c)
  BY <1>2 DEF Reserving, CountOpen, CheckBalance, OpenTransaction, SerializationConflict,
              Refuse
<1>3. ASSUME NEW r \in Ids, NEW reason \in ReleaseReason, Release(r, reason)
      PROVE  ReleaseTransaction(r, reason)
  BY <1>3 DEF Release
<1>4. ASSUME NEW r \in Ids, ExpireOne(r)
      PROVE  UNCHANGED <<balance, rows>> \/ ReleaseTransaction(r, "EXPIRED")
  BY <1>4 DEF ExpireOne
<1>5. CASE SelectOverdue \/ Crash \/ Tick
  BY <1>5 DEF SelectOverdue, Crash, Tick
<1>6. "EXPIRED" \in ReleaseReason
  BY DEF ReleaseReason
<1> QED
  BY <1>1, <1>2, <1>3, <1>4, <1>5, <1>6 DEF Next

\* consume() of a row that keeps its accounts leaves it keeping them, and
\* spends exactly `filled` of what it had outstanding.
LEMMA ConsumeRow ==
  ASSUME NEW row \in Row, NEW filled \in Nat, NEW now,
         row.consumed + row.released <= row.amount,
         IsLive(row) => row.released = 0,
         CanConsume(row, filled, now)
  PROVE  LET new == AfterConsume(row, filled) IN
         /\ new \in Row /\ new.intent = row.intent
         /\ new.consumed = row.consumed + filled
         /\ new.consumed + new.released <= new.amount
         /\ IsLive(new) <=> Remaining(new) > 0
         /\ IsLive(new) => new.released = 0
         /\ new.status = "CONSUMED" => new.consumed = new.amount
         /\ new.status \in {"PARTIALLY_CONSUMED", "CONSUMED"}
         /\ Outstanding(new) = Outstanding(row) - filled
         /\ filled <= Outstanding(row)
BY AfterConsumeType
   DEF AfterConsume, Rewritten, CanConsume, IsLive, LiveStatus, TerminalStatus, Remaining,
       Outstanding, Row

\* release() of a row that keeps its accounts leaves nothing outstanding.
LEMMA ReleaseRow ==
  ASSUME NEW row \in Row, NEW reason \in ReleaseReason,
         row.consumed + row.released <= row.amount,
         CanRelease(row)
  PROVE  LET new == AfterRelease(row, reason) IN
         /\ new \in Row /\ new.intent = row.intent
         /\ new.consumed = row.consumed
         /\ new.consumed + new.released <= new.amount
         /\ ~IsLive(new) /\ Remaining(new) = 0
         /\ new.status \in {"RELEASED", "EXPIRED"}
         /\ Outstanding(new) = 0
         /\ Outstanding(row) = Remaining(row)
         /\ Remaining(row) \in Nat
BY AfterReleaseType
   DEF AfterRelease, Rewritten, CanRelease, IsLive, LiveStatus, TerminalStatus, Remaining,
       Outstanding, Row, StatusFor, ReleaseReason

\* Every row keeps the accounting of migration 0013 and of consume().
THEOREM RowsKeepAccounts == Spec => []RowAccounting
<1>1. Init => RowAccounting
  BY DEF Init, RowAccounting, Ids
<1>2. TypeOK /\ RowAccounting /\ [Next]_vars => RowAccounting'
  <2> SUFFICES ASSUME TypeOK, RowAccounting, [Next]_vars
               PROVE  RowAccounting'
    OBVIOUS
  <2>1. rows \in Seq(Row) /\ Ids = 1 .. Len(rows)
    BY DEF TypeOK, Ids
  <2>2. CASE UNCHANGED <<balance, rows>>
    BY <2>2 DEF RowAccounting, Ids
  <2>3. ASSUME NEW c \in Clients, CommitReserve(c)
        PROVE  RowAccounting'
    <3>1. kernel[c].need \in Nat /\ kernel[c].need > 0
      <4>1. kernel[c] \in OpenCall
        BY <2>3, CallKinds DEF CommitReserve
      <4>2. kernel[c].need \in Amounts
        BY <4>1 DEF OpenCall
      <4>3. kernel[c].need \in Nat \ {0}
        BY <4>2, ConstantsAssumption, Zenon
      <4> QED
        BY <4>3
    <3> DEFINE new == [status |-> "ACTIVE", intent |-> kernel[c].intent,
                       amount |-> kernel[c].need, consumed |-> 0, released |-> 0,
                       expires |-> kernel[c].issued + TTL]
    <3>2. rows' = Append(rows, new)
      BY <2>3 DEF CommitReserve
    <3>3. \A r \in Ids' : (r \in Ids /\ rows'[r] = rows[r]) \/ rows'[r] = new
      <4> HIDE DEF new
      <4> QED
        BY <2>1, <3>2 DEF Ids
    <3>4. /\ new.consumed + new.released <= new.amount
          /\ IsLive(new) /\ Remaining(new) > 0 /\ new.released = 0
          /\ new.status = "ACTIVE" /\ new.consumed = 0
      BY <3>1 DEF IsLive, Remaining, LiveStatus
    <3> HIDE DEF new
    <3> QED
      BY <3>3, <3>4 DEF RowAccounting
  <2>4. ASSUME NEW r \in Ids, NEW filled \in Amounts, Consume(r, filled)
        PROVE  RowAccounting'
    <3>1. rows[r] \in Row /\ filled \in Nat /\ CanConsume(rows[r], filled, clock)
      BY <2>1, <2>4, ConstantsAssumption DEF Consume
    <3>2. Ids' = Ids /\ \A s \in Ids : rows'[s] = IF s = r THEN AfterConsume(rows[r], filled)
                                                       ELSE rows[s]
      BY <2>1, <2>4 DEF Consume, Ids
    <3> DEFINE new == AfterConsume(rows[r], filled)
    <3>3. /\ new.consumed + new.released <= new.amount
          /\ IsLive(new) <=> Remaining(new) > 0
          /\ IsLive(new) => new.released = 0
          /\ new.status = "CONSUMED" => new.consumed = new.amount
          /\ new.status # "ACTIVE"
      BY <3>1, ConsumeRow DEF RowAccounting
    <3> HIDE DEF new
    <3> QED
      BY <3>2, <3>3 DEF RowAccounting, new
  <2>5. ASSUME NEW r \in Ids, NEW reason \in ReleaseReason, ReleaseTransaction(r, reason)
        PROVE  RowAccounting'
    <3>1. rows[r] \in Row /\ CanRelease(rows[r])
      BY <2>1, <2>5 DEF ReleaseTransaction
    <3>2. Ids' = Ids /\ \A s \in Ids : rows'[s] = IF s = r THEN AfterRelease(rows[r], reason)
                                                       ELSE rows[s]
      BY <2>1, <2>5 DEF ReleaseTransaction, Ids
    <3> DEFINE new == AfterRelease(rows[r], reason)
    <3>3. /\ new.consumed + new.released <= new.amount
          /\ ~IsLive(new) /\ Remaining(new) = 0
          /\ new.status \in {"RELEASED", "EXPIRED"}
      BY <3>1, ReleaseRow DEF RowAccounting
    <3> HIDE DEF new
    <3> QED
      BY <3>2, <3>3 DEF RowAccounting, new
  <2>6. ASSUME NEW total \in Attestations, AttestedCredit(total)
        PROVE  RowAccounting'
    BY <2>6 DEF AttestedCredit, RowAccounting, Ids
  <2> QED
    BY <2>2, <2>3, <2>4, <2>5, <2>6, TableSteps
<1> QED
  BY <1>1, <1>2, TypeCorrect, PTL DEF Spec

\* What a row has outstanding is an amount.
LEMMA OutstandingType ==
  ASSUME TypeOK, RowAccounting
  PROVE  \A r \in 1 .. Len(rows) : /\ OutstandingOf(rows)[r] = Outstanding(rows[r])
                                  /\ Outstanding(rows[r]) \in Nat
<1>1. rows \in Seq(Row) /\ Ids = 1 .. Len(rows)
  BY DEF TypeOK, Ids
<1>2. ASSUME NEW r \in 1 .. Len(rows) PROVE Outstanding(rows[r]) \in Nat
  <2>1. rows[r] \in Row
    BY <1>1
  <2>2. Remaining(rows[r]) \in Int
    BY <2>1 DEF Remaining, Row
  <2>3. IsLive(rows[r]) => Remaining(rows[r]) > 0
    BY <1>1 DEF RowAccounting
  <2> QED
    BY <2>2, <2>3 DEF Outstanding
<1> QED
  BY <1>1, <1>2 DEF OutstandingOf, Ids

\* Rewriting a row by a transaction that moves `d` out of its outstanding
\* amount moves `d` out of the total.
LEMMA OutstandingRewrite ==
  ASSUME TypeOK, RowAccounting, NEW r \in Ids, NEW new, NEW d \in Nat,
         rows' = [rows EXCEPT ![r] = new],
         Outstanding(new) = Outstanding(rows[r]) - d
  PROVE  Total(OutstandingOf(rows)', Len(rows')) = Total(OutstandingOf(rows), Len(rows)) - d
<1> DEFINE f == OutstandingOf(rows)
           g == OutstandingOf(rows')
           n == Len(rows)
<1>1. rows \in Seq(Row) /\ Ids = 1 .. n /\ n \in Nat
  BY DEF TypeOK, Ids
<1>2. Len(rows') = n /\ DOMAIN rows' = 1 .. n
  BY <1>1
<1>3. \A i \in 1 .. n : f[i] = Outstanding(rows[i]) /\ f[i] \in Int
  BY OutstandingType
<1>4. \A i \in 1 .. n : g[i] = f[i] + (IF i = r THEN -d ELSE 0)
  <2>1. ASSUME NEW i \in 1 .. n PROVE g[i] = Outstanding(rows'[i])
    BY <1>2 DEF OutstandingOf
  <2>2. ASSUME NEW i \in 1 .. n PROVE rows'[i] = IF i = r THEN new ELSE rows[i]
    BY <1>1
  <2> HIDE DEF f, g
  <2> QED
    BY <1>3, <2>1, <2>2
<1>5. r \in 1 .. n /\ -d \in Int
  BY <1>1
<1> HIDE DEF f, g, n
<1>6. Total(g, n) = Total(f, n) + (-d)
  <2>1. EntryMoved(f, g, n, r, -d)
    BY <1>3, <1>4 DEF EntryMoved
  <2> QED BY <1>1, <1>5, <2>1, TotalUpdate
<1>7. Total(f, n) \in Int
  BY <1>1, <1>3, TotalType
<1> QED
  BY <1>2, <1>6, <1>7 DEF f, g, n

\* committed_base covers what any one row has outstanding.
LEMMA CommittedCovers ==
  ASSUME TypeOK, RowAccounting, CommittedBacksReservations
  PROVE  \A r \in Ids : Outstanding(rows[r]) <= balance.committed
<1>1. rows \in Seq(Row) /\ Ids = 1 .. Len(rows) /\ Len(rows) \in Nat
  BY DEF TypeOK, Ids
<1>2. \A i \in 1 .. Len(rows) : /\ OutstandingOf(rows)[i] = Outstanding(rows[i])
                                /\ OutstandingOf(rows)[i] \in Nat
  BY OutstandingType
<1>3. \A i \in 1 .. Len(rows) :
        OutstandingOf(rows)[i] <= Total(OutstandingOf(rows), Len(rows))
  BY <1>1, <1>2, TotalCovers
<1> QED
  BY <1>1, <1>2, <1>3 DEF CommittedBacksReservations

\* committed_base is exactly what the live reservations still have to spend
\* or return.
THEOREM CommittedBacked == Spec => []CommittedBacksReservations
<1>1. Init => CommittedBacksReservations
  <2> SUFFICES ASSUME Init PROVE CommittedBacksReservations
    OBVIOUS
  <2>1. Len(rows) = 0 /\ balance.committed = 0
    BY DEF Init, Balance
  <2> QED
    BY <2>1, TotalOfNone DEF CommittedBacksReservations
<1>2. TypeOK /\ RowAccounting /\ CommittedBacksReservations /\ [Next]_vars
        => CommittedBacksReservations'
  <2> SUFFICES ASSUME TypeOK, RowAccounting, CommittedBacksReservations, [Next]_vars
               PROVE  CommittedBacksReservations'
    OBVIOUS
  <2>1. /\ rows \in Seq(Row) /\ Ids = 1 .. Len(rows) /\ Len(rows) \in Nat
        /\ balance.available \in Nat /\ balance.committed \in Nat
    BY DEF TypeOK, Ids
  <2>2. CASE UNCHANGED <<balance, rows>>
    BY <2>2 DEF CommittedBacksReservations, OutstandingOf
  <2>3. ASSUME NEW c \in Clients, CommitReserve(c)
        PROVE  CommittedBacksReservations'
    <3> DEFINE need == kernel[c].need
               new == [status |-> "ACTIVE", intent |-> kernel[c].intent, amount |-> need,
                       consumed |-> 0, released |-> 0,
                       expires |-> kernel[c].issued + TTL]
               f == OutstandingOf(rows)
               g == OutstandingOf(rows')
    <3>1. need \in Nat
      <4>1. kernel[c] \in OpenCall
        BY <2>3, CallKinds DEF CommitReserve
      <4>2. need \in Amounts
        BY <4>1 DEF OpenCall
      <4> QED
        BY <4>2, ConstantsAssumption, Zenon
    <3>2. rows' = Append(rows, new)
      BY <2>3 DEF CommitReserve
    <3>3. balance'.exists = TRUE /\ balance'.committed = balance.committed + need
      BY <2>3 DEF CommitReserve, Balance
    <3>4. Outstanding(new) = need
      BY <3>1 DEF Outstanding, IsLive, LiveStatus, Remaining
    <3>5. /\ Len(rows') = Len(rows) + 1 /\ DOMAIN rows' = 1 .. Len(rows) + 1
          /\ rows'[Len(rows) + 1] = new
          /\ \A i \in 1 .. Len(rows) : rows'[i] = rows[i]
      <4> HIDE DEF new
      <4> QED
        BY <2>1, <3>2
    <3> HIDE DEF need, new
    <3>6. \A i \in 1 .. Len(rows) : f[i] \in Int /\ g[i] = f[i]
      BY <2>1, <3>5, OutstandingType DEF OutstandingOf, Ids
    <3>7. g[Len(rows) + 1] = need
      BY <2>1, <3>4, <3>5 DEF OutstandingOf
    <3> HIDE DEF f, g
    <3>8. Total(g, Len(rows) + 1) = Total(f, Len(rows)) + need
      BY <2>1, <3>1, <3>6, <3>7, TotalExtend
    <3> QED
      BY <3>3, <3>5, <3>8 DEF CommittedBacksReservations, f, g, OutstandingOf
  <2>4. ASSUME NEW r \in Ids, NEW filled \in Amounts, Consume(r, filled)
        PROVE  CommittedBacksReservations'
    <3> DEFINE new == AfterConsume(rows[r], filled)
    <3>1. rows[r] \in Row /\ filled \in Nat /\ CanConsume(rows[r], filled, clock)
      BY <2>1, <2>4, ConstantsAssumption DEF Consume
    <3>2. Outstanding(new) = Outstanding(rows[r]) - filled /\ filled <= Outstanding(rows[r])
      BY <3>1, ConsumeRow DEF RowAccounting
    <3>3. filled <= balance.committed
      <4>1. Outstanding(rows[r]) <= balance.committed /\ Outstanding(rows[r]) \in Nat
        BY <2>1, CommittedCovers, OutstandingType
      <4> QED
        BY <2>1, <3>1, <3>2, <4>1
    <3>4. rows' = [rows EXCEPT ![r] = new]
      BY <2>4 DEF Consume
    <3> HIDE DEF new
    <3>5. Total(OutstandingOf(rows)', Len(rows')) = Total(OutstandingOf(rows), Len(rows)) - filled
      BY <3>1, <3>2, <3>4, OutstandingRewrite
    <3>6. balance' = Balance(balance.exists, balance.available, balance.committed - filled)
      BY <2>4, <3>3, Zenon DEF Consume, BalanceAfterConsume
    <3>7. balance'.exists = balance.exists /\ balance'.committed = balance.committed - filled
      BY <3>6 DEF Balance
    <3> QED
      BY <2>1, <3>1, <3>3, <3>5, <3>7 DEF CommittedBacksReservations
  <2>5. ASSUME NEW r \in Ids, NEW reason \in ReleaseReason, ReleaseTransaction(r, reason)
        PROVE  CommittedBacksReservations'
    <3> DEFINE new == AfterRelease(rows[r], reason)
               left == Remaining(rows[r])
    <3>1. rows[r] \in Row /\ CanRelease(rows[r])
      BY <2>1, <2>5 DEF ReleaseTransaction
    <3>2. Outstanding(new) = 0 /\ Outstanding(rows[r]) = left /\ left \in Nat
      BY <3>1, ReleaseRow DEF RowAccounting
    <3>3. left <= balance.committed
      BY <2>1, <3>2, CommittedCovers
    <3>4. rows' = [rows EXCEPT ![r] = new]
      BY <2>5 DEF ReleaseTransaction
    <3>5. balance' = Balance(balance.exists, balance.available + left, balance.committed - left)
      BY <2>5, <3>3, Zenon DEF ReleaseTransaction, BalanceAfterRelease
    <3> HIDE DEF new, left
    <3>6. Total(OutstandingOf(rows)', Len(rows')) = Total(OutstandingOf(rows), Len(rows)) - left
      <4>1. Outstanding(new) = Outstanding(rows[r]) - left
        BY <3>2
      <4> QED
        BY <3>2, <3>4, <4>1, OutstandingRewrite
    <3>7. balance'.exists = balance.exists /\ balance'.committed = balance.committed - left
      BY <3>5 DEF Balance
    <3> QED
      BY <2>1, <3>2, <3>3, <3>6, <3>7 DEF CommittedBacksReservations
  <2>6. ASSUME NEW total \in Attestations, AttestedCredit(total)
        PROVE  CommittedBacksReservations'
    <3>1. rows' = rows
      BY <2>6 DEF AttestedCredit
    <3>2. \/ ~balance.exists /\ balance' = Balance(TRUE, total, 0)
          \/ balance' = Balance(TRUE, total - balance.committed, balance.committed)
      BY <2>6, Zenon DEF AttestedCredit
    <3>3. balance'.exists = TRUE
      BY <3>2 DEF Balance
    <3>4. balance'.committed = balance.committed
      <4>1. CASE ~balance.exists /\ balance' = Balance(TRUE, total, 0)
        BY <4>1 DEF Balance, CommittedBacksReservations
      <4>2. CASE balance' = Balance(TRUE, total - balance.committed, balance.committed)
        BY <4>2 DEF Balance
      <4> QED
        BY <3>2, <4>1, <4>2
    <3> QED
      BY <3>1, <3>3, <3>4 DEF CommittedBacksReservations, OutstandingOf
  <2> QED
    BY <2>2, <2>3, <2>4, <2>5, <2>6, TableSteps
<1> QED
  BY <1>1, <1>2, TypeCorrect, RowsKeepAccounts, PTL DEF Spec

\* The balance updates whose row count is ignored never miss their row.
THEOREM BalanceGuardsHold == Spec => []BalanceGuardNeverSkips
<1>1. TypeOK /\ RowAccounting /\ CommittedBacksReservations => BalanceGuardNeverSkips
  BY CommittedCovers DEF BalanceGuardNeverSkips, Live, Outstanding
<1> QED
  BY <1>1, TypeCorrect, RowsKeepAccounts, CommittedBacked, PTL

\* No step creates money but a credit, none destroys it but a fill.
THEOREM NoMoneyCreated == Spec => MoneyMovesOnlyByFillOrCredit
<1> DEFINE Inv == TypeOK /\ RowAccounting /\ CommittedBacksReservations
           Kept == \/ Books(balance') = Books(balance)
                   \/ Books(balance') \in Attestations /\ rows' = rows
                   \/ \E r \in Ids : Books(balance) - Books(balance')
                                     = rows'[r].consumed - rows[r].consumed
<1>1. Inv /\ [Next]_vars => [Kept]_vars
  <2> SUFFICES ASSUME Inv, [Next]_vars PROVE Kept
    OBVIOUS
  <2>1. /\ rows \in Seq(Row) /\ Ids = 1 .. Len(rows) /\ Len(rows) \in Nat
        /\ balance.available \in Nat /\ balance.committed \in Nat
    BY DEF TypeOK, Ids
  <2>2. CASE UNCHANGED <<balance, rows>>
    BY <2>2 DEF Books
  <2>3. ASSUME NEW c \in Clients, CommitReserve(c)
        PROVE  Books(balance') = Books(balance)
    <3>1. kernel[c].need \in Nat
      <4>1. kernel[c] \in OpenCall
        BY <2>3, CallKinds DEF CommitReserve
      <4>2. kernel[c].need \in Amounts
        BY <4>1 DEF OpenCall
      <4> QED
        BY <4>2, ConstantsAssumption, Zenon
    <3> QED
      BY <2>1, <2>3, <3>1 DEF CommitReserve, Balance, Books
  <2>4. ASSUME NEW r \in Ids, NEW filled \in Amounts, Consume(r, filled)
        PROVE  Kept
    <3>1. rows[r] \in Row /\ filled \in Nat /\ CanConsume(rows[r], filled, clock)
      BY <2>1, <2>4, ConstantsAssumption DEF Consume
    <3>2. /\ filled <= Outstanding(rows[r])
          /\ AfterConsume(rows[r], filled).consumed = rows[r].consumed + filled
      BY <3>1, ConsumeRow DEF RowAccounting
    <3>3. filled <= balance.committed
      <4>1. Outstanding(rows[r]) <= balance.committed /\ Outstanding(rows[r]) \in Nat
        BY <2>1, CommittedCovers, OutstandingType
      <4> QED
        BY <2>1, <3>1, <3>2, <4>1
    <3>4. rows'[r].consumed = rows[r].consumed + filled
      BY <2>1, <2>4, <3>2 DEF Consume
    <3>5. balance' = Balance(balance.exists, balance.available, balance.committed - filled)
      BY <2>4, <3>3, Zenon DEF Consume, BalanceAfterConsume
    <3>6. Books(balance) - Books(balance') = filled
      BY <2>1, <3>1, <3>5 DEF Balance, Books
    <3>7. rows[r].consumed \in Nat
      BY <3>1 DEF Row
    <3> QED
      BY <3>1, <3>4, <3>6, <3>7
  <2>5. ASSUME NEW r \in Ids, NEW reason \in ReleaseReason, ReleaseTransaction(r, reason)
        PROVE  Books(balance') = Books(balance)
    <3> DEFINE left == Remaining(rows[r])
    <3>1. rows[r] \in Row /\ CanRelease(rows[r])
      BY <2>1, <2>5 DEF ReleaseTransaction
    <3>2. Outstanding(rows[r]) = left /\ left \in Nat
      BY <3>1, ReleaseRow DEF RowAccounting
    <3>3. left <= balance.committed
      BY <2>1, <3>2, CommittedCovers
    <3>4. balance' = Balance(balance.exists, balance.available + left, balance.committed - left)
      BY <2>5, <3>3, Zenon DEF ReleaseTransaction, BalanceAfterRelease
    <3> HIDE DEF left
    <3> QED
      BY <2>1, <3>2, <3>4 DEF Balance, Books
  <2>6. ASSUME NEW total \in Attestations, AttestedCredit(total)
        PROVE  Books(balance') \in Attestations /\ rows' = rows
    <3>1. rows' = rows /\ total \in Nat
      BY <2>6, ConstantsAssumption DEF AttestedCredit
    <3>2. \/ balance' = Balance(TRUE, total, 0)
          \/ balance' = Balance(TRUE, total - balance.committed, balance.committed)
      BY <2>6, Zenon DEF AttestedCredit
    <3>3. Books(balance') = total
      BY <2>1, <3>1, <3>2 DEF Balance, Books
    <3> QED
      BY <3>1, <3>3
  <2> QED
    BY <2>2, <2>3, <2>4, <2>5, <2>6, TableSteps
<1> QED
  BY <1>1, TypeCorrect, RowsKeepAccounts, CommittedBacked, PTL
     DEF Spec, MoneyMovesOnlyByFillOrCredit

-----------------------------------------------------------------------------
\* Snapshots.

\* Every transaction that changes the tables leaves no fresh snapshot behind.
LEMMA WritesStaleSnapshots ==
  ASSUME TypeOK, NEW c \in Clients, kernel'[c] \in {Idle, Staled(kernel)[c]}
  PROVE  ~(kernel'[c].at = "open" /\ kernel'[c].fresh)
<1>1. CASE kernel'[c] = Idle
  BY <1>1 DEF Idle
<1>2. CASE kernel'[c] = Staled(kernel)[c] /\ kernel[c].at = "open"
  <2>1. kernel'[c] = [kernel[c] EXCEPT !.fresh = FALSE]
    BY <1>2 DEF Staled
  <2>2. kernel[c] \in OpenCall
    BY <1>2, CallKinds
  <2>3. kernel'[c].fresh = FALSE
    BY <2>1, <2>2 DEF OpenCall
  <2> QED
    BY <2>3
<1>3. CASE kernel'[c] = Staled(kernel)[c] /\ kernel[c].at # "open"
  BY <1>3 DEF Staled
<1> QED
  BY <1>1, <1>2, <1>3

\* A reserve transaction that gets past the balance lock decides on the
\* present state of the reservations.
THEOREM SnapshotsExact == Spec => []FreshSnapshotIsExact
<1> DEFINE Exact(c) == kernel[c].at = "open" /\ kernel[c].fresh =>
                         /\ kernel[c].count = Cardinality(Active)
                         /\ ActiveFor(kernel[c].intent) = {}
<1>1. Init => FreshSnapshotIsExact
  BY DEF Init, FreshSnapshotIsExact, Idle
<1>2. TypeOK /\ FreshSnapshotIsExact /\ [Next]_vars => FreshSnapshotIsExact'
  <2> SUFFICES ASSUME TypeOK, FreshSnapshotIsExact, [Next]_vars, NEW c \in Clients
               PROVE  Exact(c)'
    BY DEF FreshSnapshotIsExact
  <2>1. Exact(c)
    BY DEF FreshSnapshotIsExact
  <2>2. CASE UNCHANGED rows /\ kernel'[c] = kernel[c]
    BY <2>1, <2>2 DEF Active, ActiveFor, Ids
  <2>3. CASE kernel'[c] = Idle
    BY <2>3 DEF Idle
  <2>4. CASE kernel'[c] \in {Idle, Staled(kernel)[c]}
    BY <2>4, WritesStaleSnapshots
  <2>5. kernel \in [Clients -> {Idle} \cup Call \cup OpenCall]
    BY DEF TypeOK
  <2>6. ASSUME NEW b \in Clients, Reserving(b)
        PROVE  Exact(c)'
    <3>1. ASSUME NEW i \in Intents, NEW n \in Amounts, CountOpen(b, i, n)
          PROVE  Exact(c)'
      <4>1. CASE b = c
        BY <2>5, <3>1, <4>1 DEF CountOpen
      <4> QED
        BY <2>2, <2>5, <3>1, <4>1 DEF CountOpen
    <3>2. CASE CheckBalance(b)
      <4>1. CASE b = c
        <5>1. kernel[c] \in Call
          BY <3>2, <4>1, CallKinds DEF CheckBalance
        <5>2. kernel'[c] = [kernel[c] EXCEPT !.at = "ready"] \/ kernel'[c] = Idle
          BY <2>5, <3>2, <4>1 DEF CheckBalance
        <5>3. [kernel[c] EXCEPT !.at = "ready"].at = "ready"
          BY <5>1 DEF Call
        <5> QED
          BY <2>3, <5>2, <5>3
      <4> QED
        BY <2>2, <2>5, <3>2, <4>1 DEF CheckBalance
    <3>3. CASE OpenTransaction(b)
      <4>1. CASE b = c
        <5>1. \/ kernel'[c] = Idle
              \/ /\ ActiveFor(kernel[c].intent) = {}
                 /\ kernel'[c].intent = kernel[c].intent
                 /\ kernel'[c].count = Cardinality(Active)
          BY <2>5, <3>3, <4>1 DEF OpenTransaction
        <5>2. UNCHANGED rows
          BY <3>3 DEF OpenTransaction
        <5> QED
          BY <2>3, <5>1, <5>2 DEF Active, ActiveFor, Ids
      <4> QED
        BY <2>2, <2>5, <3>3, <4>1 DEF OpenTransaction
    <3>4. CASE SerializationConflict(b)
      <4>1. CASE b = c
        BY <2>3, <2>5, <3>4, <4>1 DEF SerializationConflict
      <4> QED
        BY <2>2, <2>5, <3>4, <4>1 DEF SerializationConflict
    <3>5. CASE Refuse(b)
      <4>1. CASE b = c
        BY <2>3, <2>5, <3>5, <4>1 DEF Refuse
      <4> QED
        BY <2>2, <2>5, <3>5, <4>1 DEF Refuse
    <3>6. CASE CommitReserve(b)
      <4>1. kernel' = [Staled(kernel) EXCEPT ![b] = Idle]
        BY <3>6 DEF CommitReserve
      <4>2. kernel'[c] \in {Idle, Staled(kernel)[c]}
        BY <4>1, StaledType
      <4> QED
        BY <2>4, <4>2
    <3> QED
      BY <2>6, <3>1, <3>2, <3>3, <3>4, <3>5, <3>6 DEF Reserving
  <2>7. ASSUME NEW r \in Ids, NEW filled \in Amounts, Consume(r, filled)
        PROVE  Exact(c)'
    BY <2>4, <2>7 DEF Consume
  <2>8. ASSUME NEW r \in Ids, NEW reason \in ReleaseReason, Release(r, reason)
        PROVE  Exact(c)'
    BY <2>4, <2>8 DEF Release, ReleaseTransaction
  <2>9. ASSUME NEW r \in Ids, ExpireOne(r)
        PROVE  Exact(c)'
    <3>1. CASE ReleaseTransaction(r, "EXPIRED")
      BY <2>4, <3>1 DEF ReleaseTransaction
    <3>2. CASE UNCHANGED <<balance, rows, kernel>>
      BY <2>2, <3>2
    <3> QED
      BY <2>9, <3>1, <3>2 DEF ExpireOne
  <2>10. ASSUME NEW total \in Attestations, AttestedCredit(total)
         PROVE  Exact(c)'
    BY <2>4, <2>10 DEF AttestedCredit
  <2>11. CASE Crash
    BY <2>3, <2>11 DEF Crash
  <2>12. CASE SelectOverdue \/ Tick \/ UNCHANGED vars
    BY <2>2, <2>12 DEF SelectOverdue, Tick, vars
  <2> QED
    BY <2>6, <2>7, <2>8, <2>9, <2>10, <2>11, <2>12 DEF Next
<1> QED
  BY <1>1, <1>2, TypeCorrect, PTL DEF Spec

\* The open limit holds however many callers counted at once.
THEOREM OpenLimit == Spec => []OpenLimitHolds
<1>1. Init => OpenLimitHolds
  <2> SUFFICES ASSUME Init PROVE OpenLimitHolds
    OBVIOUS
  <2>1. Active = {}
    BY DEF Init, Active, Ids
  <2> QED
    BY <2>1, FS_EmptySet, ConstantsAssumption DEF OpenLimitHolds
<1>2. TypeOK /\ RowAccounting /\ FreshSnapshotIsExact /\ OpenLimitHolds /\ [Next]_vars
        => OpenLimitHolds'
  <2> SUFFICES ASSUME TypeOK, RowAccounting, FreshSnapshotIsExact, OpenLimitHolds,
                      [Next]_vars
               PROVE  OpenLimitHolds'
    OBVIOUS
  <2>1. rows \in Seq(Row) /\ Ids = 1 .. Len(rows) /\ Len(rows) \in Nat
    BY DEF TypeOK, Ids
  <2>2. IsFiniteSet(Active) /\ Cardinality(Active) \in Nat
    <3>1. IsFiniteSet(1 .. Len(rows)) /\ Active \subseteq 1 .. Len(rows)
      BY <2>1, FS_Interval DEF Active
    <3> QED
      BY <3>1, FS_Subset, FS_CardinalityType
  <2>3. ASSUME Active' \subseteq Active
        PROVE  OpenLimitHolds'
    <3>1. Cardinality(Active') <= Cardinality(Active) /\ Cardinality(Active') \in Nat
      BY <2>2, <2>3, FS_Subset, FS_CardinalityType
    <3> QED
      BY <2>2, <3>1, ConstantsAssumption DEF OpenLimitHolds
  <2>4. CASE UNCHANGED <<balance, rows>>
    BY <2>3, <2>4 DEF Active, Ids
  <2>5. ASSUME NEW c \in Clients, CommitReserve(c)
        PROVE  OpenLimitHolds'
    <3>1. Cardinality(Active) < MaxOpen
      BY <2>5 DEF CommitReserve, FreshSnapshotIsExact
    <3>2. Active' \subseteq Active \cup {Len(rows) + 1}
      <4> DEFINE new == [status |-> "ACTIVE", intent |-> kernel[c].intent,
                         amount |-> kernel[c].need, consumed |-> 0, released |-> 0,
                         expires |-> kernel[c].issued + TTL]
      <4>1. rows' = Append(rows, new)
        BY <2>5 DEF CommitReserve
      <4> HIDE DEF new
      <4> QED
        BY <2>1, <4>1 DEF Active, Ids
    <3>3. /\ IsFiniteSet(Active \cup {Len(rows) + 1})
          /\ Cardinality(Active \cup {Len(rows) + 1}) <= Cardinality(Active) + 1
          /\ Cardinality(Active \cup {Len(rows) + 1}) \in Nat
      BY <2>2, FS_AddElement, FS_CardinalityType
    <3>4. /\ Cardinality(Active') <= Cardinality(Active \cup {Len(rows) + 1})
          /\ Cardinality(Active') \in Nat
      BY <3>2, <3>3, FS_Subset, FS_CardinalityType
    <3> QED
      BY <2>2, <3>1, <3>3, <3>4, ConstantsAssumption DEF OpenLimitHolds
  <2>6. ASSUME NEW r \in Ids, NEW filled \in Amounts, Consume(r, filled)
        PROVE  OpenLimitHolds'
    <3>1. rows[r] \in Row /\ filled \in Nat /\ CanConsume(rows[r], filled, clock)
      BY <2>1, <2>6, ConstantsAssumption DEF Consume
    <3>2. AfterConsume(rows[r], filled).status # "ACTIVE"
      BY <3>1, ConsumeRow DEF RowAccounting
    <3>3. Ids' = Ids /\ \A s \in Ids : rows'[s] = IF s = r THEN AfterConsume(rows[r], filled)
                                                       ELSE rows[s]
      BY <2>1, <2>6 DEF Consume, Ids
    <3>4. Active' \subseteq Active
      BY <3>2, <3>3 DEF Active
    <3> QED
      BY <2>3, <3>4
  <2>7. ASSUME NEW r \in Ids, NEW reason \in ReleaseReason, ReleaseTransaction(r, reason)
        PROVE  OpenLimitHolds'
    <3>1. rows[r] \in Row /\ CanRelease(rows[r])
      BY <2>1, <2>7 DEF ReleaseTransaction
    <3>2. AfterRelease(rows[r], reason).status \in {"RELEASED", "EXPIRED"}
      BY <3>1, ReleaseRow DEF RowAccounting
    <3>3. Ids' = Ids /\ \A s \in Ids : rows'[s] = IF s = r THEN AfterRelease(rows[r], reason)
                                                       ELSE rows[s]
      BY <2>1, <2>7 DEF ReleaseTransaction, Ids
    <3>4. Active' \subseteq Active
      BY <3>2, <3>3 DEF Active
    <3> QED
      BY <2>3, <3>4
  <2>8. ASSUME NEW total \in Attestations, AttestedCredit(total)
        PROVE  OpenLimitHolds'
    BY <2>3, <2>8 DEF AttestedCredit, Active, Ids
  <2> QED
    BY <2>4, <2>5, <2>6, <2>7, <2>8, TableSteps
<1> QED
  BY <1>1, <1>2, TypeCorrect, RowsKeepAccounts, SnapshotsExact, PTL DEF Spec

-----------------------------------------------------------------------------
\* A row's status only moves forward and a terminal row is never written.
THEOREM RowsAdvance == Spec => RowsOnlyAdvance
<1>1. TypeOK /\ RowAccounting /\ [Next]_vars => [RowsAdvanceOrStay]_vars
  <2> SUFFICES ASSUME TypeOK, RowAccounting, [Next]_vars PROVE RowsAdvanceOrStay
    OBVIOUS
  <2>1. rows \in Seq(Row) /\ Ids = 1 .. Len(rows)
    BY DEF TypeOK, Ids
  <2>2. ASSUME NEW s \in Ids, rows'[s] = rows[s]
        PROVE  /\ Rank(rows[s].status) <= Rank(rows'[s].status)
               /\ ~IsLive(rows[s]) => rows'[s] = rows[s]
    BY <2>2 DEF Rank
  <2>3. ASSUME NEW s \in Ids, IsLive(rows[s]), rows'[s].status # "ACTIVE"
        PROVE  /\ Rank(rows[s].status) <= Rank(rows'[s].status)
               /\ ~IsLive(rows[s]) => rows'[s] = rows[s]
    BY <2>3 DEF Rank, IsLive, LiveStatus
  <2>4. CASE UNCHANGED <<balance, rows>>
    BY <2>2, <2>4 DEF RowsAdvanceOrStay
  <2>5. ASSUME NEW c \in Clients, CommitReserve(c)
        PROVE  RowsAdvanceOrStay
    <3> DEFINE new == [status |-> "ACTIVE", intent |-> kernel[c].intent,
                       amount |-> kernel[c].need, consumed |-> 0, released |-> 0,
                       expires |-> kernel[c].issued + TTL]
    <3>1. rows' = Append(rows, new)
      BY <2>5 DEF CommitReserve
    <3> HIDE DEF new
    <3>2. \A s \in Ids : rows'[s] = rows[s]
      BY <2>1, <3>1
    <3> QED
      BY <2>2, <3>2 DEF RowsAdvanceOrStay
  <2>6. ASSUME NEW r \in Ids, NEW filled \in Amounts, Consume(r, filled)
        PROVE  RowsAdvanceOrStay
    <3>1. rows[r] \in Row /\ filled \in Nat /\ CanConsume(rows[r], filled, clock)
      BY <2>1, <2>6, ConstantsAssumption DEF Consume
    <3>2. AfterConsume(rows[r], filled).status # "ACTIVE" /\ IsLive(rows[r])
      BY <3>1, ConsumeRow DEF RowAccounting, CanConsume
    <3>3. \A s \in Ids : rows'[s] = IF s = r THEN AfterConsume(rows[r], filled) ELSE rows[s]
      BY <2>1, <2>6 DEF Consume
    <3> QED
      BY <2>2, <2>3, <3>2, <3>3 DEF RowsAdvanceOrStay
  <2>7. ASSUME NEW r \in Ids, NEW reason \in ReleaseReason, ReleaseTransaction(r, reason)
        PROVE  RowsAdvanceOrStay
    <3>1. rows[r] \in Row /\ CanRelease(rows[r])
      BY <2>1, <2>7 DEF ReleaseTransaction
    <3>2. AfterRelease(rows[r], reason).status # "ACTIVE" /\ IsLive(rows[r])
      BY <3>1, ReleaseRow DEF RowAccounting, CanRelease
    <3>3. \A s \in Ids : rows'[s] = IF s = r THEN AfterRelease(rows[r], reason) ELSE rows[s]
      BY <2>1, <2>7 DEF ReleaseTransaction
    <3> QED
      BY <2>2, <2>3, <3>2, <3>3 DEF RowsAdvanceOrStay
  <2>8. ASSUME NEW total \in Attestations, AttestedCredit(total)
        PROVE  RowsAdvanceOrStay
    BY <2>2, <2>8 DEF AttestedCredit, RowsAdvanceOrStay
  <2> QED
    BY <2>4, <2>5, <2>6, <2>7, <2>8, TableSteps
<1> QED
  BY <1>1, TypeCorrect, RowsKeepAccounts, PTL DEF Spec, RowsOnlyAdvance

-----------------------------------------------------------------------------
\* The books as envelopes of money.

\* What the account has not been credited is not there.
Unfunded == ~balance.exists => balance.available = 0
EnvelopeRow == [held : Nat, spent : Nat]

LEMMA TableIsSeq ==
  ASSUME NEW S, NEW n \in Nat, NEW f \in [1 .. n -> S]
  PROVE  f \in Seq(S) /\ Len(f) = n
<1>1. f \in Seq(S)
  BY SeqDef
<1> QED BY <1>1

\* The sums of the abstract specification are the sums of this one.
LEMMA SameTotal == ASSUME NEW f, NEW n PROVE Purse!Total(f, n) = Total(f, n)
BY DEF Purse!Total, Purse!PrefixTotals, Total, PrefixTotals

LEMMA EnvelopesAre ==
  ASSUME TypeOK, RowAccounting
  PROVE  /\ EnvelopesOf(rows) \in Seq(EnvelopeRow) /\ Len(EnvelopesOf(rows)) = Len(rows)
         /\ Len(rows) \in Nat /\ Ids = 1 .. Len(rows) /\ DOMAIN EnvelopesOf(rows) = 1 .. Len(rows)
         /\ \A r \in 1 .. Len(rows) :
              EnvelopesOf(rows)[r] = [held |-> Outstanding(rows[r]), spent |-> rows[r].consumed]
<1>1. rows \in Seq(Row) /\ Ids = 1 .. Len(rows) /\ Len(rows) \in Nat
  BY DEF TypeOK, Ids
<1>2. DOMAIN EnvelopesOf(rows) = 1 .. Len(rows)
  BY <1>1 DEF EnvelopesOf, Ids
<1>3. ASSUME NEW r \in 1 .. Len(rows)
      PROVE  /\ EnvelopesOf(rows)[r] = [held |-> Outstanding(rows[r]), spent |-> rows[r].consumed]
             /\ EnvelopesOf(rows)[r] \in EnvelopeRow
  <2>1. EnvelopesOf(rows)[r] = [held |-> Outstanding(rows[r]), spent |-> rows[r].consumed]
    BY <1>1 DEF EnvelopesOf, Envelope, Ids
  <2>2. rows[r] \in Row /\ Outstanding(rows[r]) \in Nat
    BY <1>1, OutstandingType
  <2>3. rows[r].consumed \in Nat
    BY <2>2 DEF Row
  <2> QED BY <2>1, <2>2, <2>3 DEF EnvelopeRow
<1>4. EnvelopesOf(rows) \in [1 .. Len(rows) -> EnvelopeRow]
  BY <1>2, <1>3 DEF EnvelopesOf
<1> QED BY <1>1, <1>2, <1>3, <1>4, TableIsSeq

\* A rewritten row is one changed envelope.
LEMMA OneEnvelope ==
  ASSUME TypeOK, RowAccounting, NEW r \in Ids, NEW new, rows' = [rows EXCEPT ![r] = new]
  PROVE  EnvelopesOf(rows)' = [EnvelopesOf(rows) EXCEPT ![r] = Envelope(new)]
<1>1. rows \in Seq(Row) /\ DOMAIN rows' = DOMAIN rows /\ Ids = DOMAIN rows
  BY DEF TypeOK, Ids
<1>2. \A s \in DOMAIN rows : rows'[s] = IF s = r THEN new ELSE rows[s]
  BY <1>1
<1>3. EnvelopesOf(rows)' = [s \in DOMAIN rows |-> Envelope(rows'[s])]
  BY <1>1 DEF EnvelopesOf
<1>4. [s \in DOMAIN rows |-> Envelope(rows'[s])]
        = [s \in DOMAIN rows |-> IF s = r THEN Envelope(new) ELSE Envelope(rows[s])]
  BY <1>2
<1> QED BY <1>3, <1>4 DEF EnvelopesOf

LEMMA ReserveFills ==
  ASSUME TypeOK, RowAccounting, NEW c \in Clients, CommitReserve(c)
  PROVE  Purse!Reserve
<1>1. PICK x : x = kernel[c].need
  OBVIOUS
<1>2. x \in Nat \ {0}
  <2>1. kernel[c] \in OpenCall
    BY CallKinds DEF CommitReserve
  <2>2. kernel[c].need \in Amounts
    BY <2>1 DEF OpenCall
  <2> QED BY <1>1, <2>2, ConstantsAssumption, Zenon
<1>3. x \in 1 .. balance.available /\ balance'.available = balance.available - x
  BY <1>1, <1>2 DEF CommitReserve, TypeOK, Balance
<1>4. PICK row : /\ rows' = Append(rows, row) /\ row.status = "ACTIVE" /\ row.amount = x
                 /\ row.consumed = 0 /\ row.released = 0 /\ row \in Row
  <2>1. PICK row : row = [status |-> "ACTIVE", intent |-> kernel[c].intent, amount |-> kernel[c].need,
                          consumed |-> 0, released |-> 0, expires |-> kernel[c].issued + TTL]
    OBVIOUS
  <2>2. kernel[c] \in OpenCall
    BY CallKinds DEF CommitReserve
  <2>3. kernel[c].intent \in Intents /\ kernel[c].issued + TTL \in Nat
    BY <2>2, ConstantsAssumption DEF OpenCall
  <2>4. row \in Row
    BY <1>1, <1>2, <2>1, <2>3 DEF Row, LiveStatus
  <2> QED BY <1>1, <2>1, <2>4 DEF CommitReserve
<1>5. Envelope(row) = [held |-> x, spent |-> 0]
  BY <1>2, <1>4 DEF Envelope, Outstanding, IsLive, LiveStatus, Remaining
<1>6. PICK n \in Nat : n = Len(rows)
  <2>1. Len(rows) \in Nat
    BY EnvelopesAre
  <2> QED BY <2>1
<1>7. /\ DOMAIN rows = 1 .. n /\ DOMAIN rows' = 1 .. n + 1 /\ rows'[n + 1] = row
      /\ \A i \in 1 .. n : rows'[i] = rows[i]
  BY <1>4, <1>6 DEF TypeOK
<1>8. PICK env : env = EnvelopesOf(rows)
  OBVIOUS
<1>9. env \in Seq(EnvelopeRow) /\ Len(env) = n /\ DOMAIN env = 1 .. n
      /\ \A i \in 1 .. n : env[i] = Envelope(rows[i])
  BY <1>6, <1>8, EnvelopesAre DEF Envelope
<1>10. PICK full : full = Append(env, [held |-> x, spent |-> 0])
  OBVIOUS
<1>11. [held |-> x, spent |-> 0] \in EnvelopeRow
  BY <1>2 DEF EnvelopeRow
<1>12. /\ full \in Seq(EnvelopeRow) /\ Len(full) = n + 1 /\ full[n + 1] = [held |-> x, spent |-> 0]
       /\ \A i \in 1 .. n : full[i] = env[i]
  BY <1>9, <1>10, <1>11, AppendProperties
<1>13. DOMAIN full = 1 .. n + 1 /\ full = [i \in 1 .. n + 1 |-> full[i]]
  BY <1>12
<1>14. EnvelopesOf(rows)' = [i \in 1 .. n + 1 |-> Envelope(rows'[i])]
  BY <1>7 DEF EnvelopesOf
<1>15. \A i \in 1 .. n + 1 : Envelope(rows'[i]) = full[i]
  <2> SUFFICES ASSUME NEW i \in 1 .. n + 1 PROVE Envelope(rows'[i]) = full[i]
    OBVIOUS
  <2>1. i \in 1 .. n \/ i = n + 1
    BY <1>6
  <2>2. CASE i \in 1 .. n
    BY <1>7, <1>9, <1>12, <2>2
  <2>3. CASE i = n + 1
    BY <1>5, <1>7, <1>12, <2>3
  <2> QED BY <2>1, <2>2, <2>3
<1>16. EnvelopesOf(rows)' = full
  BY <1>13, <1>14, <1>15
<1> QED BY <1>3, <1>8, <1>10, <1>16 DEF Purse!Reserve

LEMMA ConsumeSpends ==
  ASSUME TypeOK, RowAccounting, NEW r \in Ids, NEW filled \in Amounts, Consume(r, filled)
  PROVE  Purse!Spend(r)
<1>1. filled \in Nat /\ filled > 0 /\ rows[r] \in Row /\ CanConsume(rows[r], filled, clock)
  BY ConstantsAssumption DEF Consume, TypeOK, Ids
<1>2. PICK new : new = AfterConsume(rows[r], filled)
  OBVIOUS
<1>3. /\ Outstanding(new) = Outstanding(rows[r]) - filled /\ filled <= Outstanding(rows[r])
      /\ new.consumed = rows[r].consumed + filled
  BY <1>1, <1>2, ConsumeRow DEF RowAccounting
<1>4. EnvelopesOf(rows)' = [EnvelopesOf(rows) EXCEPT ![r] = Envelope(new)]
  BY <1>2, OneEnvelope DEF Consume
<1>5. PICK env : env = EnvelopesOf(rows)
  OBVIOUS
<1>6. /\ r \in DOMAIN env /\ env[r].held = Outstanding(rows[r]) /\ env[r].spent = rows[r].consumed
      /\ Outstanding(rows[r]) \in Nat
  BY <1>5, EnvelopesAre, OutstandingType
<1>7. EnvelopesOf(rows)' = [env EXCEPT ![r] = [held |-> @.held - filled, spent |-> @.spent + filled]]
  BY <1>3, <1>4, <1>5, <1>6 DEF Envelope
<1>8. filled \in 1 .. env[r].held
  BY <1>1, <1>3, <1>6
<1>9. balance'.available = balance.available
  BY DEF Consume, BalanceAfterConsume, Balance
<1> QED BY <1>5, <1>7, <1>8, <1>9 DEF Purse!Spend

LEMMA ReleaseReturns ==
  ASSUME TypeOK, RowAccounting, CommittedBacksReservations,
         NEW r \in Ids, NEW reason \in ReleaseReason, ReleaseTransaction(r, reason)
  PROVE  Purse!Return(r)
<1>1. rows[r] \in Row /\ CanRelease(rows[r])
  BY DEF ReleaseTransaction, TypeOK, Ids
<1>2. PICK new : new = AfterRelease(rows[r], reason)
  OBVIOUS
<1>3. PICK left : left = Remaining(rows[r])
  OBVIOUS
<1>4. Outstanding(new) = 0 /\ new.consumed = rows[r].consumed /\ Outstanding(rows[r]) = left /\ left \in Nat
  BY <1>1, <1>2, <1>3, ReleaseRow DEF RowAccounting
<1>5. left <= balance.committed
  BY <1>4, CommittedCovers
<1>6. balance'.available = balance.available + left
  BY <1>3, <1>5 DEF ReleaseTransaction, BalanceAfterRelease, Balance
<1>7. EnvelopesOf(rows)' = [EnvelopesOf(rows) EXCEPT ![r] = Envelope(new)]
  BY <1>2, OneEnvelope DEF ReleaseTransaction
<1>8. PICK env : env = EnvelopesOf(rows)
  OBVIOUS
<1>9. r \in DOMAIN env /\ env[r].held = left /\ env[r].spent = rows[r].consumed
  BY <1>4, <1>8, EnvelopesAre
<1>10. EnvelopesOf(rows)' = [env EXCEPT ![r] = [held |-> 0, spent |-> @.spent]]
  BY <1>4, <1>7, <1>8, <1>9 DEF Envelope
<1> QED BY <1>6, <1>8, <1>9, <1>10 DEF Purse!Return

\* What the envelopes hold is committed_base.
LEMMA HeldIsCommitted ==
  ASSUME TypeOK, RowAccounting, CommittedBacksReservations
  PROVE  Purse!HeldInAll = balance.committed
<1>1. PICK env : env = EnvelopesOf(rows)
  OBVIOUS
<1>2. /\ DOMAIN env = Ids /\ Ids = DOMAIN rows /\ Len(env) = Len(rows)
      /\ \A r \in Ids : env[r].held = Outstanding(rows[r])
  BY <1>1, EnvelopesAre DEF Ids
<1>3. [e \in DOMAIN env |-> env[e].held] = OutstandingOf(rows)
  BY <1>2 DEF OutstandingOf
<1>4. Purse!HeldInAll = Total(OutstandingOf(rows), Len(rows))
  BY <1>1, <1>2, <1>3, SameTotal, Zenon DEF Purse!HeldInAll
<1> QED BY <1>4 DEF CommittedBacksReservations

LEMMA CreditCredits ==
  ASSUME TypeOK, RowAccounting, CommittedBacksReservations, Unfunded,
         NEW total \in Attestations, AttestedCredit(total)
  PROVE  Purse!Credit
<1>1. /\ total \in Nat /\ total > 0 /\ balance.available \in Nat /\ balance.committed \in Nat
      /\ ~balance.exists => balance.committed = 0 /\ balance.available = 0
  BY ConstantsAssumption DEF TypeOK, CommittedBacksReservations, Unfunded
<1>2. balance'.available > balance.available /\ balance'.available + balance.committed = total
  BY <1>1 DEF AttestedCredit, Balance
<1>3. EnvelopesOf(rows)' = EnvelopesOf(rows)
  BY DEF AttestedCredit, EnvelopesOf
<1> QED BY <1>2, <1>3, HeldIsCommitted DEF Purse!Credit

LEMMA UnfundedStep ==
  ASSUME TypeOK, RowAccounting, CommittedBacksReservations, Unfunded, [Next]_vars PROVE Unfunded'
<1>1. CASE UNCHANGED <<balance, rows>>
  BY <1>1 DEF Unfunded
<1>2. ASSUME NEW c \in Clients, CommitReserve(c) PROVE Unfunded'
  BY <1>2 DEF CommitReserve, Balance, Unfunded
<1>3. ASSUME NEW total \in Attestations, AttestedCredit(total) PROVE Unfunded'
  BY <1>3 DEF AttestedCredit, Balance, Unfunded
<1>4. ASSUME NEW r \in Ids, NEW filled \in Amounts, Consume(r, filled) PROVE Unfunded'
  BY <1>4 DEF Consume, BalanceAfterConsume, Balance, Unfunded
<1>5. ASSUME NEW r \in Ids, NEW reason \in ReleaseReason, ReleaseTransaction(r, reason) PROVE Unfunded'
  <2>1. rows[r] \in Row /\ IsLive(rows[r]) /\ CanRelease(rows[r])
    BY <1>5 DEF ReleaseTransaction, CanRelease, TypeOK, Ids
  <2>2. Outstanding(rows[r]) > 0 /\ Outstanding(rows[r]) <= balance.committed
    BY <2>1, CommittedCovers DEF RowAccounting, Outstanding
  <2>3. balance.exists
    <3>1. Outstanding(rows[r]) \in Nat /\ balance.committed \in Nat
      BY OutstandingType DEF TypeOK, Ids
    <3>2. balance.committed # 0
      BY <2>2, <3>1
    <3> QED BY <3>2 DEF CommittedBacksReservations
  <2> QED BY <1>5, <2>3 DEF ReleaseTransaction, BalanceAfterRelease, Balance, Unfunded
<1> QED BY <1>1, <1>2, <1>3, <1>4, <1>5, TableSteps

\* The books are envelopes of money, for any clients, amounts and schedule of
\* the transactions on them.
THEOREM BooksImplementEnvelopes == Spec => BooksAreEnvelopes
<1> DEFINE Inv == TypeOK /\ RowAccounting /\ CommittedBacksReservations
<1>1. Init => Unfunded /\ Purse!PurseInit
  <2> SUFFICES ASSUME Init PROVE Unfunded /\ Purse!PurseInit
    OBVIOUS
  <2>1. rows = <<>> /\ balance.available = 0
    BY DEF Init, Balance
  <2>2. EnvelopesOf(rows) = <<>>
    BY <2>1 DEF EnvelopesOf
  <2> QED BY <2>1, <2>2 DEF Unfunded, Purse!PurseInit
<1>2. Inv /\ Unfunded /\ [Next]_vars => Unfunded'
  BY UnfundedStep
<1>3. Inv /\ Unfunded /\ [Next]_vars => [Purse!PurseNext]_<<balance.available, EnvelopesOf(rows)>>
  <2> SUFFICES ASSUME Inv, Unfunded, [Next]_vars
               PROVE  Purse!PurseNext \/ UNCHANGED <<balance.available, EnvelopesOf(rows)>>
    OBVIOUS
  <2>1. DOMAIN EnvelopesOf(rows) = Ids
    BY DEF EnvelopesOf, Ids
  <2>2. CASE UNCHANGED <<balance, rows>>
    BY <2>2 DEF EnvelopesOf
  <2>3. ASSUME NEW c \in Clients, CommitReserve(c) PROVE Purse!PurseNext
    BY <2>3, ReserveFills DEF Purse!PurseNext
  <2>4. ASSUME NEW r \in Ids, NEW filled \in Amounts, Consume(r, filled) PROVE Purse!PurseNext
    BY <2>1, <2>4, ConsumeSpends DEF Purse!PurseNext
  <2>5. ASSUME NEW r \in Ids, NEW reason \in ReleaseReason, ReleaseTransaction(r, reason)
        PROVE  Purse!PurseNext
    BY <2>1, <2>5, ReleaseReturns DEF Purse!PurseNext
  <2>6. ASSUME NEW total \in Attestations, AttestedCredit(total) PROVE Purse!PurseNext
    BY <2>6, CreditCredits DEF Purse!PurseNext
  <2> QED BY <2>2, <2>3, <2>4, <2>5, <2>6, TableSteps
<1> QED
  BY <1>1, <1>2, <1>3, TypeCorrect, RowsKeepAccounts, CommittedBacked, PTL
     DEF Spec, BooksAreEnvelopes, Purse!PurseSpec
=============================================================================

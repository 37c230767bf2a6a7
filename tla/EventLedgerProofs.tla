-------------------------- MODULE EventLedgerProofs --------------------------
(***************************************************************************)
(* That the event store implements the append-only log, and that neither   *)
(* of its readers loses an event, for any events, transactions and         *)
(* crashes.                                                                *)
(***************************************************************************)
EXTENDS EventLedger, FiniteSetTheorems, RunningTotalProofs

\* The store and its two readers, by themselves.
LedgerSpec == LedgerInit /\ [][Writers \/ Engine \/ Outbox]_ledgerVars

\* The rows written so far, visible or not.
Written == log \cup UNION open

\* What is written is numbered below the sequence, each id and number once: rows
\* of transactions that may still commit are as unique as the visible ones.
WrittenOnce ==
    /\ next \in Nat
    /\ Written \subseteq [id : Events, seq : 1..next]
    /\ Log!Unique(Written)

\* A transaction of several events takes ids that are free and numbers that
\* were never taken.
LEMMA AppendKeepsOnce == ASSUME WrittenOnce, AppendMany PROVE WrittenOnce' /\ UNCHANGED log
<1>1. PICK ids \in SUBSET (Events \ Taken) :
         /\ \E order \in SetToSeqs(ids) :
               open' = open \cup {{[id |-> order[i], seq |-> next + i] : i \in 1..Len(order)}}
         /\ next' = next + Cardinality(ids)
  BY DEF AppendMany
<1>2. PICK order \in SetToSeqs(ids) :
         open' = open \cup {{[id |-> order[i], seq |-> next + i] : i \in 1..Len(order)}}
  BY <1>1
<1> DEFINE n == Cardinality(ids)
<1> DEFINE rows == {[id |-> order[i], seq |-> next + i] : i \in 1..Len(order)}
<1>3. n \in Nat
  <2>1. IsFiniteSet(ids)
    BY FS_Subset, EventLedgerAssumption
  <2> QED BY <2>1, FS_CardinalityType
<1> HIDE DEF n
<1>4. /\ order \in [1..n -> ids] /\ Len(order) = n
      /\ \A i, j \in 1..n : i # j => order[i] # order[j]
  BY <1>3 DEF SetToSeqs, n
<1>5. log' = log /\ next' = next + n
  BY <1>1 DEF AppendMany, n
<1>6. Written' = Written \cup rows
  BY <1>2, <1>5 DEF Written
<1>7. next' \in Nat
  BY <1>3, <1>5 DEF WrittenOnce
<1>8. ASSUME NEW r \in rows
      PROVE  r \in [id : Events, seq : 1..next'] /\ r.seq > next /\ r.id \notin Ids(Written)
  <2>1. PICK i \in 1..n : r = [id |-> order[i], seq |-> next + i]
    BY <1>4, <1>8
  <2>2. order[i] \in Events \ Taken
    BY <1>4
  <2>3. Taken = Ids(Written)
    BY DEF Taken, Ids, Written
  <2> QED BY <1>3, <1>5, <2>1, <2>2, <2>3 DEF WrittenOnce
<1>9. ASSUME NEW r \in rows, NEW s \in rows, r.id = s.id \/ r.seq = s.seq PROVE r = s
  <2>1. PICK i \in 1..n : r = [id |-> order[i], seq |-> next + i]
    BY <1>4
  <2>2. PICK j \in 1..n : s = [id |-> order[j], seq |-> next + j]
    BY <1>4
  <2>3. i = j
    BY <1>3, <1>4, <1>9, <2>1, <2>2 DEF WrittenOnce
  <2> QED BY <2>1, <2>2, <2>3
<1> HIDE DEF rows
<1>10. Written' \subseteq [id : Events, seq : 1..next']
  BY <1>3, <1>5, <1>6, <1>8 DEF WrittenOnce
<1>11. ASSUME NEW r \in Written', NEW s \in Written', r.id = s.id \/ r.seq = s.seq PROVE r = s
  <2>1. \A w \in Written : w.id \in Ids(Written) /\ w.seq \in 1..next
    BY DEF Ids, WrittenOnce
  <2>2. CASE r \in Written /\ s \in Written
    BY <1>11, <2>2 DEF WrittenOnce, Log!Unique
  <2>3. CASE r \in rows /\ s \in rows
    BY <1>9, <1>11, <2>3
  <2>4. CASE r \in Written /\ s \in rows
    BY <1>8, <1>11, <2>1, <2>4 DEF WrittenOnce
  <2>5. CASE r \in rows /\ s \in Written
    BY <1>8, <1>11, <2>1, <2>5 DEF WrittenOnce
  <2> QED BY <1>6, <2>2, <2>3, <2>4, <2>5
<1> QED BY <1>5, <1>7, <1>10, <1>11 DEF WrittenOnce, Log!Unique

LEMMA LedgerStep ==
  ASSUME WrittenOnce, [Writers \/ Engine \/ Outbox]_ledgerVars
  PROVE  WrittenOnce' /\ [Log!LogAppend]_log
<1>1. CASE UNCHANGED <<log, open, next>>
  BY <1>1 DEF WrittenOnce, Written, Log!Unique
<1>2. CASE AppendMany
  BY <1>2, AppendKeepsOnce
<1>3. ASSUME NEW t \in open, Commits(t) PROVE WrittenOnce' /\ Log!LogAppend
  <2>1. log' = log \cup t /\ open' = open \ {t} /\ next' = next
    BY <1>3 DEF Commits
  <2>2. Written' = Written
    BY <2>1 DEF Written
  <2>3. log' \subseteq Written
    BY <2>1 DEF Written
  <2> QED BY <2>1, <2>2, <2>3 DEF WrittenOnce, Log!LogAppend, Log!Unique
<1>4. ASSUME NEW t \in open, RollsBack(t) PROVE WrittenOnce' /\ UNCHANGED log
  <2>1. UNCHANGED <<log, next>> /\ Written' \subseteq Written
    BY <1>4 DEF RollsBack, Written
  <2> QED BY <2>1 DEF WrittenOnce, Log!Unique
<1> QED
  BY <1>1, <1>2, <1>3, <1>4 DEF Writers, Engine, Outbox, ledgerVars, ProcessReads, ProcessCommits,
     RebuildTruncates, RebuildResets, EngineCrashes, DrainReads, DrainHandles, DrainCheckpoints,
     DrainEnds, DrainCrashes

\* The visible rows only grow, and no event and no number is there twice,
\* whatever transactions are in flight, committed late or rolled back.
THEOREM LedgerImplementsLog == LedgerSpec => ImplementsLog
<1>1. LedgerInit => WrittenOnce /\ Log!LogInit
  BY DEF LedgerInit, WrittenOnce, Written, Log!LogInit, Log!Unique
<1> QED BY <1>1, LedgerStep, PTL DEF LedgerSpec, ImplementsLog, Log!LogSpec

-----------------------------------------------------------------------------
(***************************************************************************)
(* That neither reader loses an event.                                     *)
(***************************************************************************)

\* A set of numbers that is not empty has a least one.
LEMMA LeastExists ==
  ASSUME NEW S, S \subseteq Nat, S # {}
  PROVE  \E m \in S : \A x \in S : m <= x
<1>1. PICK m \in S : \A y \in S : ~(<<y, m>> \in OpToRel(<, Nat))
  BY WFMin, NatLessThanWellFounded
<1>2. \A y \in S : ~(y < m)
  BY <1>1 DEF OpToRel
<1> QED BY <1>2

\* One with a bound has a largest one, which is what Max chooses.
LEMMA MaxIsIn ==
  ASSUME NEW S, S \subseteq Nat, S # {}, NEW b \in Nat, \A x \in S : x <= b
  PROVE  Max(S) \in S /\ \A x \in S : x <= Max(S)
<1> DEFINE gaps == {b - x : x \in S}
<1>1. gaps \subseteq Nat /\ gaps # {}
  <2>1. ASSUME NEW x \in S PROVE b - x \in Nat
    <3>1. x \in Nat /\ x <= b
      BY <2>1
    <3> QED BY <3>1
  <2>2. PICK x \in S : TRUE
    OBVIOUS
  <2> QED BY <2>1, <2>2
<1>2. PICK m \in gaps : \A y \in gaps : m <= y
  <2> HIDE DEF gaps
  <2> QED BY <1>1, LeastExists
<1>3. PICK x \in S : m = b - x
  OBVIOUS
<1>4. ASSUME NEW y \in S PROVE x >= y
  <2>1. b - x <= b - y
    BY <1>2, <1>3
  <2> QED BY <2>1
<1> HIDE DEF gaps
<1> QED BY <1>4 DEF Max

LEMMA EarliestIsIn ==
  ASSUME NEW rows, rows # {}, \A r \in rows : r.seq \in Nat
  PROVE  Earliest(rows) \in rows /\ \A r \in rows : Earliest(rows).seq <= r.seq
<1> DEFINE seqs == {r.seq : r \in rows}
<1>1. seqs \subseteq Nat /\ seqs # {}
  OBVIOUS
<1>2. PICK m \in seqs : \A x \in seqs : m <= x
  <2> HIDE DEF seqs
  <2> QED BY <1>1, LeastExists
<1>3. PICK r \in rows : \A s \in rows : r.seq <= s.seq
  BY <1>2
<1> QED BY <1>3 DEF Earliest

(***************************************************************************)
(* What a batch adds to the balance.                                       *)
(***************************************************************************)

Amounts == [available : Int, committed : Int]

LEMMA DeltaIsAmount == ASSUME NEW topic \in Topics PROVE Delta(topic) \in Amounts
<1>1. EventAmount \in Int /\ -EventAmount \in Int /\ 0 \in Int
  BY EventLedgerAssumption
<1> QED BY <1>1 DEF Topics, Delta, Amounts, Zero

\* Rows with ids of events, no two of a number.
ReplayedRows == {rows \in SUBSET [id : Events, seq : Nat] : \A r, s \in rows : r.seq = s.seq => r = s}

LEMMA AddsIsAmount == ASSUME NEW rows \in ReplayedRows, NEW i PROVE Adds(rows, i) \in Amounts
<1>1. Zero \in Amounts
  BY DEF Zero, Amounts
<1>2. CASE \E r \in rows : r.seq = i
  <2> DEFINE r == CHOOSE r \in rows : r.seq = i
  <2>1. r \in rows
    BY <1>2
  <2>2. r.id \in Events
    BY <2>1 DEF ReplayedRows
  <2>3. Topic[r.id] \in Topics
    BY <2>2, EventLedgerAssumption
  <2>4. Adds(rows, i) = Delta(Topic[r.id])
    BY <1>2 DEF Adds
  <2> QED BY <2>3, <2>4, DeltaIsAmount
<1> QED BY <1>1, <1>2 DEF Adds

LEMMA AddsOfUnion ==
  ASSUME NEW a, NEW b, a \cup b \in ReplayedRows, a \cap b = {}, NEW i
  PROVE  /\ Adds(a \cup b, i).available = Adds(a, i).available + Adds(b, i).available
         /\ Adds(a \cup b, i).committed = Adds(a, i).committed + Adds(b, i).committed
<1>0. a \in ReplayedRows /\ b \in ReplayedRows
  BY DEF ReplayedRows
<1>1. /\ Adds(a, i) \in Amounts /\ Adds(b, i) \in Amounts
      /\ Zero.available = 0 /\ Zero.committed = 0
  BY <1>0, AddsIsAmount DEF Zero
<1>2. CASE \E r \in a : r.seq = i
  <2>1. PICK r \in a : r.seq = i
    BY <1>2
  <2>2. \A s \in a \cup b : s.seq = i => s = r
    BY <2>1 DEF ReplayedRows
  <2>3. (CHOOSE s \in a : s.seq = i) = r /\ (CHOOSE s \in a \cup b : s.seq = i) = r
    BY <2>1, <2>2
  <2>4. Adds(a, i) = Delta(Topic[r.id]) /\ Adds(a \cup b, i) = Delta(Topic[r.id])
    BY <2>1, <2>3 DEF Adds
  <2>5. Adds(b, i) = Zero
    BY <2>1, <2>2 DEF Adds
  <2> QED BY <1>1, <2>4, <2>5 DEF Amounts
<1>3. CASE ~\E r \in a : r.seq = i
  <2>1. Adds(a, i) = Zero
    BY <1>3 DEF Adds
  <2>2. Adds(a \cup b, i) = Adds(b, i)
    <3>1. CASE \E r \in b : r.seq = i
      <4>1. PICK r \in b : r.seq = i
        BY <3>1
      <4>2. \A s \in a \cup b : s.seq = i => s = r
        BY <4>1 DEF ReplayedRows
      <4>3. (CHOOSE s \in b : s.seq = i) = r /\ (CHOOSE s \in a \cup b : s.seq = i) = r
        BY <4>1, <4>2
      <4> QED BY <4>1, <4>3 DEF Adds
    <3>2. CASE ~\E r \in b : r.seq = i
      BY <1>3, <3>2 DEF Adds
    <3> QED BY <3>1, <3>2
  <2> QED BY <1>1, <2>1, <2>2 DEF Amounts
<1> QED BY <1>2, <1>3

LEMMA ProjectionIsAmount == ASSUME NEW rows \in ReplayedRows PROVE Projection(rows) \in Amounts
<1> DEFINE f == [i \in 1..MaxSequence |-> Adds(rows, i).available]
           g == [i \in 1..MaxSequence |-> Adds(rows, i).committed]
<1>1. MaxSequence \in Nat /\ \A i \in 1..MaxSequence : f[i] \in Int /\ g[i] \in Int
  BY AddsIsAmount, EventLedgerAssumption DEF Amounts
<1>2. Projection(rows) = [available |-> Total(f, MaxSequence), committed |-> Total(g, MaxSequence)]
  BY DEF Projection
<1> HIDE DEF f, g
<1>3. Total(f, MaxSequence) \in Int /\ Total(g, MaxSequence) \in Int
  BY <1>1, TotalType
<1> QED BY <1>2, <1>3 DEF Amounts

LEMMA ProjectionOfNone == Projection({}) = Zero
<1> DEFINE f == [i \in 1..MaxSequence |-> Adds({}, i).available]
           g == [i \in 1..MaxSequence |-> Adds({}, i).committed]
<1>1. MaxSequence \in Nat /\ \A i \in 1..MaxSequence : f[i] = 0 /\ g[i] = 0
  BY EventLedgerAssumption DEF Adds, Zero
<1>2. Projection({}) = [available |-> Total(f, MaxSequence), committed |-> Total(g, MaxSequence)]
  BY DEF Projection
<1> HIDE DEF f, g
<1>3. Total(f, MaxSequence) = 0 /\ Total(g, MaxSequence) = 0
  BY <1>1, TotalOfZeros
<1> QED BY <1>2, <1>3 DEF Zero

\* What two sets of rows add together is what each adds.
LEMMA ProjectionOfUnion ==
  ASSUME NEW a, NEW b, a \cup b \in ReplayedRows, a \cap b = {}
  PROVE  Projection(a \cup b) = [available |-> Projection(a).available + Projection(b).available,
                                 committed |-> Projection(a).committed + Projection(b).committed]
<1>0. a \in ReplayedRows /\ b \in ReplayedRows /\ MaxSequence \in Nat
  BY EventLedgerAssumption DEF ReplayedRows
<1> DEFINE f == [i \in 1..MaxSequence |-> Adds(a, i).available]
           g == [i \in 1..MaxSequence |-> Adds(b, i).available]
           h == [i \in 1..MaxSequence |-> Adds(a \cup b, i).available]
           p == [i \in 1..MaxSequence |-> Adds(a, i).committed]
           q == [i \in 1..MaxSequence |-> Adds(b, i).committed]
           u == [i \in 1..MaxSequence |-> Adds(a \cup b, i).committed]
<1>1. ASSUME NEW i \in 1..MaxSequence PROVE f[i] \in Int /\ g[i] \in Int /\ h[i] = f[i] + g[i]
  <2>1. Adds(a, i) \in Amounts /\ Adds(b, i) \in Amounts
    BY <1>0, AddsIsAmount
  <2>2. Adds(a \cup b, i).available = Adds(a, i).available + Adds(b, i).available
    BY AddsOfUnion
  <2> QED BY <2>1, <2>2 DEF Amounts
<1>2. ASSUME NEW i \in 1..MaxSequence PROVE p[i] \in Int /\ q[i] \in Int /\ u[i] = p[i] + q[i]
  <2>1. Adds(a, i) \in Amounts /\ Adds(b, i) \in Amounts
    BY <1>0, AddsIsAmount
  <2>2. Adds(a \cup b, i).committed = Adds(a, i).committed + Adds(b, i).committed
    BY AddsOfUnion
  <2> QED BY <2>1, <2>2 DEF Amounts
<1>3. /\ Projection(a).available = Total(f, MaxSequence) /\ Projection(b).available = Total(g, MaxSequence)
      /\ Projection(a).committed = Total(p, MaxSequence) /\ Projection(b).committed = Total(q, MaxSequence)
      /\ Projection(a \cup b) = [available |-> Total(h, MaxSequence), committed |-> Total(u, MaxSequence)]
  BY DEF Projection
<1> HIDE DEF f, g, h, p, q, u
<1>4. Total(h, MaxSequence) = Total(f, MaxSequence) + Total(g, MaxSequence)
  BY <1>0, <1>1, TotalOfSums
<1>5. Total(u, MaxSequence) = Total(p, MaxSequence) + Total(q, MaxSequence)
  BY <1>0, <1>2, TotalOfSums
<1> QED BY <1>3, <1>4, <1>5

ReaderShape ==
    /\ DOMAIN engine = {"pc", "rows"} /\ engine.pc \in {"idle", "truncated", "reset", "read"}
    /\ DOMAIN outbox = {"pc", "last", "batch", "done"} /\ outbox.pc \in {"idle", "draining", "handled"}
    /\ DOMAIN past = {"rebuilds", "disorder", "late", "torn"}
    /\ balance \in [available : Int, committed : Int] /\ check \in 0..next /\ next <= MaxSequence

Projected == {r \in log : r.seq <= check}

\* What a batch holds lies behind the checkpoint and, unless a row came late, is all
\* that was there before its last row.
BatchIsWhole ==
    engine.pc = "read" =>
        /\ engine.rows \subseteq log \ Projected
        /\ ~past.late => \A r \in log \ (Projected \cup engine.rows) : \A s \in engine.rows : s.seq < r.seq

TruncatedIsZero == engine.pc = "truncated" => balance = Zero

\* What the outbox has still to handle is all that was not handled before it.
RestIsWhole ==
    /\ outbox.batch \subseteq log
    /\ outbox.pc = "handled" => outbox.batch # {} /\ Earliest(outbox.batch).id \in outbox.done
    /\ ~past.disorder => \A b \in outbox.batch : \A r \in log :
                             r.seq < b.seq => r \in outbox.batch \/ r.id \in outbox.done
    /\ outbox.last = 0 \/ outbox.last \in Ids(log)
    /\ \A l \in log : outbox.last = l.id => l.id \in outbox.done

ReadersInv ==
    /\ WrittenOnce /\ ReaderShape
    /\ BatchIsWhole /\ TruncatedIsZero /\ ProjectionExact
    /\ RestIsWhole /\ OutboxLeavesNoneBehind

LEMMA WrittenIsReplayed == ASSUME WrittenOnce, NEW rows, rows \subseteq log PROVE rows \in ReplayedRows
BY DEF WrittenOnce, Written, Log!Unique, ReplayedRows

\* Steps of the other reader and of the writers that leave a reader's state alone.
LEMMA EngineStays ==
  ASSUME ReadersInv, UNCHANGED <<log, balance, check, engine, past>>
  PROVE  BatchIsWhole' /\ TruncatedIsZero' /\ ProjectionExact'
<1>1. Projected' = Projected
  BY DEF Projected
<1>2. ProjectionExact'
  BY DEF ReadersInv, ProjectionExact, Projection, Adds
<1> QED BY <1>1, <1>2 DEF ReadersInv, BatchIsWhole, TruncatedIsZero

LEMMA OutboxStays ==
  ASSUME ReadersInv, UNCHANGED <<log, outbox>>, past'.disorder = past.disorder
  PROVE  RestIsWhole' /\ OutboxLeavesNoneBehind'
<1>1. Ids(log)' = Ids(log)
  BY DEF Ids
<1> QED BY <1>1 DEF ReadersInv, RestIsWhole, OutboxLeavesNoneBehind

LEMMA LogStays ==
  ASSUME ReadersInv, AppendMany \/ \E t \in open : RollsBack(t)
  PROVE  ReadersInv'
<1>1. UNCHANGED <<log, balance, check, engine, outbox, past>>
  BY DEF AppendMany, RollsBack
<1>2. WrittenOnce'
  BY LedgerStep DEF ReadersInv, Writers
<1>3. next <= next' /\ next' <= MaxSequence /\ next \in Nat /\ next' \in Nat
  <2>0. next \in Nat /\ next' \in Nat /\ next <= MaxSequence
    BY <1>2 DEF ReadersInv, WrittenOnce, ReaderShape
  <2>1. CASE AppendMany
    <3>1. PICK ids \in SUBSET (Events \ Taken) : next + Cardinality(ids) <= MaxSequence /\ next' = next + Cardinality(ids)
      BY <2>1 DEF AppendMany
    <3>2. Cardinality(ids) \in Nat
      BY FS_Subset, FS_CardinalityType, EventLedgerAssumption
    <3> QED BY <2>0, <3>1, <3>2
  <2>2. CASE \E t \in open : RollsBack(t)
    BY <2>0, <2>2 DEF RollsBack
  <2> QED BY <2>1, <2>2
<1>4. ReaderShape'
  BY <1>1, <1>3 DEF ReadersInv, ReaderShape
<1> QED BY <1>1, <1>2, <1>4, EngineStays, OutboxStays DEF ReadersInv

\* Rows of a transaction appear: behind the checkpoint only if it is noted.
LEMMA CommitsKeeps == ASSUME ReadersInv, NEW t \in open, Commits(t) PROVE ReadersInv'
<1>1. WrittenOnce'
  BY LedgerStep DEF ReadersInv, Writers
<1>2. /\ log' = log \cup t /\ UNCHANGED <<next, balance, check, engine, outbox>>
      /\ past' = [past EXCEPT
            !.late = @ \/ \E r \in t : r.seq <= check \/ \E s \in engine.rows : s.seq > r.seq,
            !.disorder = @ \/ \E r \in t, s \in log : s.seq > r.seq]
  BY DEF Commits
<1>3. DOMAIN past' = DOMAIN past /\ past'.torn = past.torn
  BY <1>2 DEF ReadersInv, ReaderShape
<1>4. ~past'.late => ~past.late /\ \A r \in t : ~(r.seq <= check) /\ \A s \in engine.rows : ~(s.seq > r.seq)
  BY <1>2 DEF ReadersInv, ReaderShape
<1>5. ~past'.disorder => ~past.disorder /\ \A r \in t, s \in log : ~(s.seq > r.seq)
  BY <1>2 DEF ReadersInv, ReaderShape
<1>6. /\ \A r \in log' : r.seq \in Nat /\ r.id \in Events
      /\ \A r, s \in log' : r.id = s.id \/ r.seq = s.seq => r = s
      /\ check \in Nat
  BY <1>1 DEF ReadersInv, ReaderShape, WrittenOnce, Written, Log!Unique
<1>7. ReaderShape'
  BY <1>2, <1>3 DEF ReadersInv, ReaderShape
<1>8. ~past'.late => Projected' = Projected
  BY <1>2, <1>4 DEF Projected
<1>9. ProjectionExact'
  <2>1. ASSUME engine'.pc # "truncated", ~past'.late, ~past'.torn PROVE balance' = Projection(Projected')
    BY <1>2, <1>3, <1>4, <1>8, <2>1 DEF ReadersInv, ProjectionExact, Projected
  <2>2. Projected' = {r \in log' : r.seq <= check'}
    BY DEF Projected
  <2> HIDE DEF Projected
  <2>3. ASSUME NEW rows, rows = {r \in log' : r.seq <= check'}, engine'.pc # "truncated", ~past'.late, ~past'.torn
        PROVE  balance' = Projection(rows)
    BY <2>1, <2>2, <2>3
  <2> QED BY <2>3 DEF ProjectionExact, Projection, Adds
<1>10. BatchIsWhole'
  <2>1. ASSUME engine.pc = "read" PROVE engine.rows \subseteq log' \ Projected'
    BY <1>2, <2>1 DEF ReadersInv, BatchIsWhole, Projected
  <2>2. ASSUME engine.pc = "read", ~past'.late, NEW r \in log' \ (Projected' \cup engine.rows), NEW s \in engine.rows
        PROVE  s.seq < r.seq
    <3>1. s \in log
      BY <2>2 DEF ReadersInv, BatchIsWhole
    <3>2. CASE r \in log
      BY <1>4, <1>8, <2>2, <3>2 DEF ReadersInv, BatchIsWhole
    <3>3. CASE r \in t
      <4>1. ~(s.seq > r.seq) /\ s # r
        BY <1>4, <2>2, <3>3
      <4>2. s.seq \in Nat /\ r.seq \in Nat /\ s.seq # r.seq
        BY <1>2, <1>6, <2>2, <3>1, <4>1
      <4> QED BY <4>1, <4>2
    <3> QED BY <1>2, <2>2, <3>2, <3>3
  <2> QED BY <1>2, <2>1, <2>2 DEF BatchIsWhole
<1>11. TruncatedIsZero'
  BY <1>2 DEF ReadersInv, TruncatedIsZero
<1>12. RestIsWhole'
  <2>1. outbox.batch \subseteq log' /\ (outbox.last = 0 \/ outbox.last \in Ids(log)')
    BY <1>2 DEF ReadersInv, RestIsWhole, Ids
  <2>2. ASSUME ~past'.disorder, NEW b \in outbox.batch, NEW r \in log', r.seq < b.seq
        PROVE  r \in outbox.batch \/ r.id \in outbox.done
    <3>1. CASE r \in log
      BY <1>5, <2>2, <3>1 DEF ReadersInv, RestIsWhole
    <3>2. CASE r \in t
      <4>1. b \in log /\ b.seq > r.seq
        BY <1>6, <2>1, <2>2 DEF ReadersInv, RestIsWhole
      <4> QED BY <1>5, <2>2, <3>2, <4>1
    <3> QED BY <1>2, <3>1, <3>2
  <2>3. ASSUME NEW l \in log', outbox.last = l.id PROVE l.id \in outbox.done
    <3>1. outbox.last \in Ids(log)
      BY <1>6, <2>3, EventLedgerAssumption DEF ReadersInv, RestIsWhole
    <3>2. PICK k \in log : k.id = outbox.last
      BY <3>1 DEF Ids
    <3> QED BY <2>3, <3>2 DEF ReadersInv, RestIsWhole
  <2>4. outbox.pc = "handled" => outbox.batch # {} /\ Earliest(outbox.batch).id \in outbox.done
    BY DEF ReadersInv, RestIsWhole
  <2> QED BY <1>2, <2>1, <2>2, <2>3, <2>4 DEF RestIsWhole, Earliest
<1>13. OutboxLeavesNoneBehind'
  <2>1. ASSUME ~past'.disorder, NEW l \in log', NEW r \in log', outbox.last = l.id, r.seq < l.seq
        PROVE  r.id \in outbox.done
    <3>1. outbox.last \in Ids(log)
      BY <1>6, <2>1, EventLedgerAssumption DEF ReadersInv, RestIsWhole
    <3>2. PICK k \in log : k.id = outbox.last
      BY <3>1 DEF Ids
    <3>3. l = k
      BY <1>2, <1>6, <2>1, <3>2
    <3>4. CASE r \in log
      BY <1>5, <2>1, <3>2, <3>3, <3>4 DEF ReadersInv, OutboxLeavesNoneBehind
    <3>5. CASE r \in t
      <4>1. k.seq > r.seq
        BY <1>2, <1>6, <2>1, <3>2, <3>3
      <4> QED BY <1>5, <2>1, <3>2, <3>5, <4>1
    <3> QED BY <1>2, <3>4, <3>5
  <2> QED BY <1>2, <2>1 DEF OutboxLeavesNoneBehind
<1> QED BY <1>1, <1>7, <1>9, <1>10, <1>11, <1>12, <1>13 DEF ReadersInv

\* What a step of the engine leaves to show.
LEMMA EngineMoves ==
  ASSUME ReadersInv, UNCHANGED <<log, open, next, outbox>>, past'.disorder = past.disorder, WrittenOnce',
         ReaderShape', BatchIsWhole', TruncatedIsZero', ProjectionExact'
  PROVE  ReadersInv'
BY OutboxStays DEF ReadersInv

LEMMA OnceStays == ASSUME WrittenOnce, UNCHANGED <<log, open, next>> PROVE WrittenOnce'
BY DEF WrittenOnce, Written, Log!Unique

LEMMA ProcessReadsKeeps == ASSUME ReadersInv, ProcessReads PROVE ReadersInv'
<1>1. /\ engine' = [pc |-> "read", rows |-> {r \in log : r.seq >= check + 1}] /\ engine.pc # "truncated"
      /\ UNCHANGED <<log, open, next, balance, check, outbox, past>>
  BY DEF ProcessReads
<1>2. WrittenOnce'
  BY <1>1, OnceStays DEF ReadersInv
<1>3. ReaderShape'
  BY <1>1 DEF ReadersInv, ReaderShape
<1>4. BatchIsWhole'
  <2>1. check \in Nat /\ \A r \in log : r.seq \in Nat
    BY DEF ReadersInv, ReaderShape, WrittenOnce, Written
  <2>2. \A r \in log : r \in engine'.rows <=> ~(r.seq <= check)
    BY <1>1, <2>1
  <2>3. engine'.rows \subseteq log
    BY <1>1
  <2> QED BY <1>1, <2>2, <2>3 DEF BatchIsWhole, Projected
<1>5. TruncatedIsZero'
  BY <1>1 DEF TruncatedIsZero
<1>6. ProjectionExact'
  BY <1>1 DEF ReadersInv, ProjectionExact, Projection, Adds
<1> QED BY <1>1, <1>2, <1>3, <1>4, <1>5, <1>6, EngineMoves

LEMMA EngineCrashesKeeps == ASSUME ReadersInv, EngineCrashes PROVE ReadersInv'
<1>1. /\ engine' = [pc |-> "idle", rows |-> {}] /\ past' = [past EXCEPT !.torn = @ \/ engine.pc = "truncated"]
      /\ UNCHANGED <<log, open, next, balance, check, outbox>>
  BY DEF EngineCrashes
<1>2. /\ DOMAIN past' = DOMAIN past /\ past'.late = past.late /\ past'.disorder = past.disorder
      /\ ~past'.torn => ~past.torn /\ engine.pc # "truncated"
  BY <1>1 DEF ReadersInv, ReaderShape
<1>3. WrittenOnce'
  BY <1>1, OnceStays DEF ReadersInv
<1>4. ReaderShape'
  BY <1>1, <1>2 DEF ReadersInv, ReaderShape
<1>5. BatchIsWhole' /\ TruncatedIsZero'
  BY <1>1 DEF BatchIsWhole, TruncatedIsZero
<1>6. ProjectionExact'
  BY <1>1, <1>2 DEF ReadersInv, ProjectionExact, Projection, Adds
<1> QED BY <1>1, <1>2, <1>3, <1>4, <1>5, <1>6, EngineMoves

LEMMA RebuildTruncatesKeeps == ASSUME ReadersInv, RebuildTruncates PROVE ReadersInv'
<1>1. /\ engine' = [engine EXCEPT !.pc = "truncated"] /\ balance' = Zero
      /\ past' = [past EXCEPT !.rebuilds = @ + 1] /\ UNCHANGED <<log, open, next, check, outbox>>
  BY DEF RebuildTruncates
<1>2. /\ DOMAIN past' = DOMAIN past /\ past'.disorder = past.disorder
      /\ DOMAIN engine' = DOMAIN engine /\ engine'.pc = "truncated"
  BY <1>1 DEF ReadersInv, ReaderShape
<1>3. WrittenOnce'
  BY <1>1, OnceStays DEF ReadersInv
<1>4. ReaderShape'
  BY <1>1, <1>2 DEF ReadersInv, ReaderShape, Zero
<1>5. BatchIsWhole' /\ TruncatedIsZero' /\ ProjectionExact'
  BY <1>1, <1>2 DEF BatchIsWhole, TruncatedIsZero, ProjectionExact
<1> QED BY <1>1, <1>2, <1>3, <1>4, <1>5, EngineMoves

LEMMA RebuildResetsKeeps == ASSUME ReadersInv, RebuildResets PROVE ReadersInv'
<1>1. /\ engine' = [engine EXCEPT !.pc = "reset"] /\ check' = 0 /\ engine.pc = "truncated"
      /\ past' = [past EXCEPT !.late = FALSE, !.torn = FALSE] /\ UNCHANGED <<log, open, next, balance, outbox>>
  BY DEF RebuildResets
<1>2. /\ DOMAIN past' = DOMAIN past /\ past'.disorder = past.disorder
      /\ DOMAIN engine' = DOMAIN engine /\ engine'.pc = "reset"
  BY <1>1 DEF ReadersInv, ReaderShape
<1>3. WrittenOnce'
  BY <1>1, OnceStays DEF ReadersInv
<1>4. ReaderShape'
  <2>1. next \in Nat
    BY DEF ReadersInv, WrittenOnce
  <2> QED BY <1>1, <1>2, <2>1 DEF ReadersInv, ReaderShape
<1>5. BatchIsWhole' /\ TruncatedIsZero'
  BY <1>2 DEF BatchIsWhole, TruncatedIsZero
<1>6. ProjectionExact'
  <2>1. \A r \in log : r.seq \in Nat \ {0}
    BY DEF ReadersInv, WrittenOnce, Written
  <2>2. {r \in log' : r.seq <= check'} = {}
    BY <1>1, <2>1
  <2>3. balance' = Projection({})
    BY <1>1, ProjectionOfNone DEF ReadersInv, TruncatedIsZero
  <2>4. ASSUME NEW rows, rows = {r \in log' : r.seq <= check'} PROVE balance' = Projection(rows)
    BY <2>2, <2>3, <2>4
  <2> QED BY <2>4 DEF ProjectionExact, Projection, Adds
<1> QED BY <1>1, <1>2, <1>3, <1>4, <1>5, <1>6, EngineMoves

\* The batch is added with its checkpoint: what lies before the new checkpoint is what
\* lay before the old one, and the batch.
LEMMA ProcessCommitsKeeps == ASSUME ReadersInv, ProcessCommits PROVE ReadersInv'
<1> DEFINE seqs == {r.seq : r \in engine.rows} \cup {check}
<1>1. /\ engine.pc = "read" /\ engine' = [pc |-> "idle", rows |-> {}]
      /\ balance' = [available |-> balance.available + Projection(engine.rows).available,
                     committed |-> balance.committed + Projection(engine.rows).committed]
      /\ check' = Max(seqs) /\ UNCHANGED <<log, open, next, outbox, past>>
  BY DEF ProcessCommits
<1>2. /\ \A r \in log : r.seq \in Nat /\ r.seq <= next
      /\ check \in Nat /\ check <= next /\ next \in Nat
      /\ engine.rows \subseteq log \ Projected
  BY <1>1 DEF ReadersInv, ReaderShape, WrittenOnce, Written, BatchIsWhole
<1>3. check' \in seqs /\ \A x \in seqs : x <= check'
  <2>1. seqs \subseteq Nat /\ seqs # {} /\ \A x \in seqs : x <= next
    BY <1>2
  <2> HIDE DEF seqs
  <2> QED BY <1>1, <1>2, <2>1, MaxIsIn
<1>4. check' \in Nat /\ check' <= next /\ check <= check'
  BY <1>2, <1>3
<1>5. engine.rows \in ReplayedRows /\ Projected \in ReplayedRows /\ Projected \cup engine.rows \in ReplayedRows
  BY <1>2, WrittenIsReplayed DEF ReadersInv, Projected
<1>6. WrittenOnce'
  BY <1>1, OnceStays DEF ReadersInv
<1>7. ReaderShape'
  <2>1. Projection(engine.rows) \in Amounts
    BY <1>5, ProjectionIsAmount
  <2>2. balance' \in [available : Int, committed : Int]
    BY <1>1, <2>1 DEF ReadersInv, ReaderShape, Amounts
  <2> QED BY <1>1, <1>2, <1>4, <2>2 DEF ReadersInv, ReaderShape
<1>8. BatchIsWhole' /\ TruncatedIsZero'
  BY <1>1 DEF BatchIsWhole, TruncatedIsZero
<1>9. ProjectionExact'
  <2>1. ASSUME ~past.late PROVE {r \in log' : r.seq <= check'} = Projected \cup engine.rows
    <3>1. ASSUME NEW r \in log, r.seq <= check', r \notin Projected, r \notin engine.rows PROVE FALSE
      <4>1. ~(r.seq <= check)
        BY <3>1 DEF Projected
      <4>2. PICK s \in engine.rows : s.seq = check'
        BY <1>3, <3>1, <4>1
      <4>3. s.seq < r.seq
        BY <1>1, <2>1, <3>1 DEF ReadersInv, BatchIsWhole
      <4> QED BY <1>2, <1>4, <3>1, <4>2, <4>3
    <3>2. ASSUME NEW r \in engine.rows PROVE r \in log /\ r.seq <= check'
      BY <1>2, <1>3
    <3>3. ASSUME NEW r \in Projected PROVE r \in log /\ r.seq <= check'
      BY <1>2, <1>4 DEF Projected
    <3> QED BY <1>1, <3>1, <3>2, <3>3
  <2>2. ASSUME ~past.late, ~past.torn PROVE balance' = Projection(Projected \cup engine.rows)
    <3>1. balance = Projection(Projected)
      BY <1>1, <2>2 DEF ReadersInv, ProjectionExact, Projected
    <3>2. Projected \cap engine.rows = {}
      BY <1>2
    <3> QED BY <1>1, <1>5, <3>1, <3>2, ProjectionOfUnion
  <2>3. ASSUME NEW rows, rows = {r \in log' : r.seq <= check'}, ~past'.late, ~past'.torn PROVE balance' = Projection(rows)
    BY <1>1, <2>1, <2>2, <2>3
  <2> QED BY <2>3 DEF ProjectionExact, Projection, Adds
<1> QED BY <1>1, <1>6, <1>7, <1>8, <1>9, EngineMoves

\* What a step of the outbox leaves to show.
LEMMA OutboxMoves ==
  ASSUME ReadersInv, UNCHANGED <<log, open, next, balance, check, engine, past>>,
         DOMAIN outbox' = {"pc", "last", "batch", "done"}, outbox'.pc \in {"idle", "draining", "handled"},
         RestIsWhole', OutboxLeavesNoneBehind'
  PROVE  ReadersInv'
<1>1. ReaderShape'
  BY DEF ReadersInv, ReaderShape
<1> QED BY <1>1, EngineStays, OnceStays DEF ReadersInv

LEMMA DrainReadsKeeps == ASSUME ReadersInv, DrainReads PROVE ReadersInv'
<1>1. /\ outbox' = [outbox EXCEPT !.pc = "draining", !.batch = AfterLast(log, outbox.last)]
      /\ UNCHANGED <<log, open, next, balance, check, engine, past>>
  BY DEF DrainReads
<1>2. /\ DOMAIN outbox' = DOMAIN outbox /\ outbox'.pc = "draining" /\ outbox'.batch = AfterLast(log, outbox.last)
      /\ outbox'.last = outbox.last /\ outbox'.done = outbox.done
  BY <1>1 DEF ReadersInv, ReaderShape
<1>3. /\ \A r \in log : r.seq \in Nat /\ r.id \in Events
      /\ \A r, s \in log : r.id = s.id \/ r.seq = s.seq => r = s
  BY DEF ReadersInv, WrittenOnce, Written, Log!Unique
<1>4. AfterLast(log, outbox.last) \subseteq log
  BY DEF AfterLast
<1>5. ASSUME ~past.disorder, NEW b \in AfterLast(log, outbox.last), NEW r \in log, r.seq < b.seq
      PROVE  r \in AfterLast(log, outbox.last) \/ r.id \in outbox.done
  <2>1. CASE outbox.last = 0 \/ outbox.last \notin Ids(log)
    BY <2>1 DEF AfterLast
  <2>2. CASE outbox.last # 0 /\ outbox.last \in Ids(log)
    <3>1. PICK l \in log : l.id = outbox.last
      BY <2>2 DEF Ids
    <3>2. CASE r.seq > l.seq
      BY <2>2, <3>1, <3>2 DEF AfterLast
    <3>3. CASE r.seq < l.seq
      BY <1>5, <3>1, <3>3 DEF ReadersInv, OutboxLeavesNoneBehind
    <3>4. CASE r.seq = l.seq
      BY <1>3, <3>1, <3>4 DEF ReadersInv, RestIsWhole
    <3> QED BY <1>3, <3>2, <3>3, <3>4
  <2> QED BY <2>1, <2>2
<1>6. RestIsWhole'
  <2>1. Ids(log)' = Ids(log)
    BY <1>1 DEF Ids
  <2> QED BY <1>1, <1>2, <1>4, <1>5, <2>1 DEF ReadersInv, RestIsWhole
<1>7. OutboxLeavesNoneBehind'
  BY <1>1, <1>2 DEF ReadersInv, OutboxLeavesNoneBehind
<1> QED BY <1>1, <1>2, <1>6, <1>7, OutboxMoves DEF ReadersInv, ReaderShape

LEMMA DrainHandlesKeeps == ASSUME ReadersInv, DrainHandles PROVE ReadersInv'
<1>1. /\ outbox.batch # {} /\ outbox' = [outbox EXCEPT !.pc = "handled", !.done = @ \cup {Earliest(outbox.batch).id}]
      /\ UNCHANGED <<log, open, next, balance, check, engine, past>>
  BY DEF DrainHandles
<1>2. /\ DOMAIN outbox' = DOMAIN outbox /\ outbox'.pc = "handled" /\ outbox'.batch = outbox.batch
      /\ outbox'.last = outbox.last /\ outbox'.done = outbox.done \cup {Earliest(outbox.batch).id}
  BY <1>1 DEF ReadersInv, ReaderShape
<1>3. RestIsWhole'
  <2>1. Ids(log)' = Ids(log)
    BY <1>1 DEF Ids
  <2> QED BY <1>1, <1>2, <2>1 DEF ReadersInv, RestIsWhole
<1>4. OutboxLeavesNoneBehind'
  BY <1>1, <1>2 DEF ReadersInv, OutboxLeavesNoneBehind
<1> QED BY <1>1, <1>2, <1>3, <1>4, OutboxMoves DEF ReadersInv, ReaderShape

LEMMA DrainCheckpointsKeeps == ASSUME ReadersInv, DrainCheckpoints PROVE ReadersInv'
<1> DEFINE e == Earliest(outbox.batch)
<1>1. /\ outbox.pc = "handled"
      /\ outbox' = [outbox EXCEPT !.pc = "draining", !.batch = outbox.batch \ {e}, !.last = IF CheckpointRow THEN e.id ELSE outbox.last]
      /\ UNCHANGED <<log, open, next, balance, check, engine, past>>
  BY DEF DrainCheckpoints
<1>2. /\ \A r \in log : r.seq \in Nat /\ r.id \in Events
      /\ \A r, s \in log : r.id = s.id \/ r.seq = s.seq => r = s
  BY DEF ReadersInv, WrittenOnce, Written, Log!Unique
<1>3. e \in outbox.batch /\ e \in log /\ e.id \in outbox.done /\ \A b \in outbox.batch : e.seq <= b.seq
  <2>1. outbox.batch # {} /\ outbox.batch \subseteq log /\ e.id \in outbox.done
    BY <1>1 DEF ReadersInv, RestIsWhole
  <2> QED BY <1>2, <2>1, EarliestIsIn
<1> HIDE DEF e
<1>4. /\ DOMAIN outbox' = DOMAIN outbox /\ outbox'.pc = "draining" /\ outbox'.batch = outbox.batch \ {e}
      /\ outbox'.done = outbox.done /\ (outbox'.last = e.id \/ outbox'.last = outbox.last)
  BY <1>1 DEF ReadersInv, ReaderShape
<1>5. ASSUME ~past.disorder, NEW r \in log, r.seq < e.seq PROVE r.id \in outbox.done
  <2>1. r \notin outbox.batch
    <3>1. ASSUME r \in outbox.batch PROVE FALSE
      BY <1>2, <1>3, <1>5, <3>1
    <3> QED BY <3>1
  <2> QED BY <1>3, <1>5, <2>1 DEF ReadersInv, RestIsWhole
<1>6. RestIsWhole'
  <2>1. Ids(log)' = Ids(log) /\ e.id \in Ids(log)
    BY <1>1, <1>3 DEF Ids
  <2>2. ASSUME ~past.disorder, NEW b \in outbox.batch \ {e}, NEW r \in log, r.seq < b.seq
        PROVE  r \in outbox.batch \ {e} \/ r.id \in outbox.done
    BY <1>3, <2>2 DEF ReadersInv, RestIsWhole
  <2>3. \A l \in log : outbox'.last = l.id => l.id \in outbox.done
    BY <1>3, <1>4 DEF ReadersInv, RestIsWhole
  <2> QED BY <1>1, <1>4, <2>1, <2>2, <2>3 DEF ReadersInv, RestIsWhole
<1>7. OutboxLeavesNoneBehind'
  <2>1. ASSUME ~past.disorder, NEW l \in log, NEW r \in log, outbox'.last = l.id, r.seq < l.seq PROVE r.id \in outbox.done
    <3>1. CASE outbox'.last = e.id
      BY <1>2, <1>3, <1>5, <2>1, <3>1
    <3>2. CASE outbox'.last = outbox.last
      BY <2>1, <3>2 DEF ReadersInv, OutboxLeavesNoneBehind
    <3> QED BY <1>4, <3>1, <3>2
  <2> QED BY <1>1, <1>4, <2>1 DEF OutboxLeavesNoneBehind
<1> QED BY <1>1, <1>4, <1>6, <1>7, OutboxMoves DEF ReadersInv, ReaderShape

LEMMA DrainStopsKeeps == ASSUME ReadersInv, DrainEnds \/ DrainCrashes PROVE ReadersInv'
<1>1. /\ DOMAIN outbox' = DOMAIN outbox /\ outbox'.pc = "idle" /\ outbox'.batch = {}
      /\ outbox'.last = outbox.last /\ outbox'.done = outbox.done
  BY DEF DrainEnds, DrainCrashes, ReadersInv, ReaderShape
<1>2. UNCHANGED <<log, open, next, balance, check, engine, past>>
  BY DEF DrainEnds, DrainCrashes
<1>3. RestIsWhole'
  <2>1. Ids(log)' = Ids(log)
    BY <1>2 DEF Ids
  <2> QED BY <1>1, <1>2, <2>1 DEF ReadersInv, RestIsWhole
<1>4. OutboxLeavesNoneBehind'
  BY <1>1, <1>2 DEF ReadersInv, OutboxLeavesNoneBehind
<1> QED BY <1>1, <1>2, <1>3, <1>4, OutboxMoves DEF ReadersInv, ReaderShape

LEMMA ReadersInvStep == ASSUME ReadersInv, [Writers \/ Engine \/ Outbox]_ledgerVars PROVE ReadersInv'
<1>1. CASE UNCHANGED ledgerVars
  <2>1. UNCHANGED <<log, open, next, balance, check, engine, outbox, past>>
    BY <1>1 DEF ledgerVars
  <2>2. ReaderShape'
    BY <2>1 DEF ReadersInv, ReaderShape
  <2> QED BY <2>1, <2>2, EngineStays, OutboxStays, OnceStays DEF ReadersInv
<1>2. CASE Writers
  BY <1>2, LogStays, CommitsKeeps DEF Writers
<1>3. CASE Engine
  BY <1>3, ProcessReadsKeeps, ProcessCommitsKeeps, RebuildTruncatesKeeps, RebuildResetsKeeps, EngineCrashesKeeps DEF Engine
<1>4. CASE Outbox
  BY <1>4, DrainReadsKeeps, DrainHandlesKeeps, DrainCheckpointsKeeps, DrainStopsKeeps DEF Outbox
<1> QED BY <1>1, <1>2, <1>3, <1>4

LEMMA ReadersInvInit == ASSUME LedgerInit PROVE ReadersInv
<1>1. WrittenOnce
  BY DEF LedgerInit, WrittenOnce, Written, Log!Unique
<1>2. ReaderShape
  BY EventLedgerAssumption DEF LedgerInit, ReaderShape, Zero
<1>3. BatchIsWhole /\ TruncatedIsZero /\ RestIsWhole /\ OutboxLeavesNoneBehind
  BY DEF LedgerInit, BatchIsWhole, TruncatedIsZero, RestIsWhole, OutboxLeavesNoneBehind
<1>4. ProjectionExact
  <2>1. {r \in log : r.seq <= check} = {}
    BY DEF LedgerInit
  <2> QED BY <2>1, ProjectionOfNone DEF LedgerInit, ProjectionExact
<1> QED BY <1>1, <1>2, <1>3, <1>4 DEF ReadersInv

\* The balance is the sum of the events before its checkpoint and the outbox has handled
\* all that lies before its own, however transactions commit, readers crash and rebuilds
\* break off, outside of the cases the property names.
THEOREM ReadersKeepUp == LedgerSpec => []ReadersLoseNothing
<1>1. ReadersInv => ReadersLoseNothing
  BY DEF ReadersInv, ReadersLoseNothing
<1> QED BY <1>1, ReadersInvInit, ReadersInvStep, PTL DEF LedgerSpec
=============================================================================

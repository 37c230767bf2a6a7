---------------------------- MODULE EventLedger ----------------------------
(***************************************************************************)
(* The event log in kernel_events and what is computed from it: the        *)
(* balance projection, one transaction per batch behind a checkpoint, and  *)
(* the outbox, one handler call per event behind a checkpoint row.  A      *)
(* sequence number is taken when a row is inserted and becomes visible     *)
(* when its transaction commits, so numbers may appear out of order.       *)
(***************************************************************************)
EXTENDS Integers, Sequences, FiniteSets, FiniteSetsExt, SequencesExt, RunningTotal

CONSTANTS
    Events,         \* ids of the events writers append
    Topic,          \* topic of each event
    EventAmount,    \* amount in the payload of an event
    CheckpointRow,  \* outbox_checkpoints holds the row of the outbox
    MaxSequence,    \* bound on the sequence numbers taken
    MaxRebuilds     \* bound on the rebuilds

Topics == {"RESERVATION_CREATED", "RESERVATION_CONSUMED", "RESERVATION_RELEASED",
           "ORDER_FILLED", "SETTLEMENT", "REDEEM", "FUNDS_TRANSFERRED", "REVERSED_FILL"}

ASSUME EventLedgerAssumption ==
    /\ EventAmount \in Nat \ {0} /\ CheckpointRow \in BOOLEAN /\ MaxSequence \in Nat
    /\ IsFiniteSet(Events) /\ 0 \notin Events     \* 0 stands for no job in the outbox's checkpoint
    /\ Topic \in [Events -> Topics]

VARIABLES
    log,        \* visible rows of kernel_events: [id, seq]
    open,       \* rows of transactions still open: sets of [id, seq]
    next,       \* kernel_events_seq
    balance,    \* balance_projections: available, committed
    check,      \* projection_checkpoints.last_event_seq
    engine,     \* PgProjectionEngine: where it is, what it replayed
    outbox,     \* PgOutboxProcessor: last_job_id, the batch, what was handled
    past        \* history: a row became visible behind the checkpoint, ...

ledgerVars == <<log, open, next, balance, check, engine, outbox, past>>

Zero == [available |-> 0, committed |-> 0]
\* Rows are replayed in the order of their numbers.
Earliest(rows) == CHOOSE r \in rows : \A s \in rows : r.seq <= s.seq
Ids(rows) == {r.id : r \in rows}
\* Slip: an id in an open transaction is taken to be free.
TakenVisible == Ids(log)
Taken == Ids(log) \cup UNION {Ids(t) : t \in open}

(***************************************************************************)
(* PgEventStore.  An event is written by its own statement or in a         *)
(* transaction of several; an id already there is returned, not written.   *)
(***************************************************************************)

AppendMany ==
    /\ \E ids \in SUBSET (Events \ Taken) :
          /\ ids # {} /\ next + Cardinality(ids) <= MaxSequence
          /\ \E order \in SetToSeqs(ids) :
                open' = open \cup {{[id |-> order[i], seq |-> next + i] : i \in 1..Len(order)}}
          /\ next' = next + Cardinality(ids)
    /\ UNCHANGED <<log, balance, check, engine, outbox, past>>

Commits(t) ==
    /\ t \in open /\ open' = open \ {t}
    /\ log' = log \cup t
    /\ past' = [past EXCEPT
          !.late = @ \/ \E r \in t : r.seq <= check \/ \E s \in engine.rows : s.seq > r.seq,
          !.disorder = @ \/ \E r \in t, s \in log : s.seq > r.seq]
    /\ UNCHANGED <<next, balance, check, engine, outbox>>

\* The numbers of a transaction rolled back are never used again.
RollsBack(t) ==
    /\ t \in open /\ open' = open \ {t}
    /\ UNCHANGED <<log, next, balance, check, engine, outbox, past>>

(***************************************************************************)
(* PgProjectionEngine.                                                     *)
(***************************************************************************)

\* projectEvent: what an event adds to the two sides of the balance.
Delta(topic) ==
    CASE topic = "RESERVATION_CREATED"  -> [available |-> -EventAmount, committed |-> EventAmount]
      [] topic = "RESERVATION_CONSUMED" -> [available |-> 0, committed |-> -EventAmount]
      [] topic = "RESERVATION_RELEASED" -> [available |-> EventAmount, committed |-> -EventAmount]
      [] topic = "ORDER_FILLED"         -> [available |-> 0, committed |-> -EventAmount]
      [] topic = "REVERSED_FILL"        -> [available |-> 0, committed |-> -EventAmount]
      [] topic \in {"SETTLEMENT", "REDEEM"} -> [available |-> EventAmount, committed |-> 0]
      [] topic = "FUNDS_TRANSFERRED"    -> Zero

\* What the row with number i adds, if it is one of them.
Adds(rows, i) ==
    IF \E r \in rows : r.seq = i THEN Delta(Topic[(CHOOSE r \in rows : r.seq = i).id]) ELSE Zero

Projection(rows) ==
    [available |-> Total([i \in 1..MaxSequence |-> Adds(rows, i).available], MaxSequence),
     committed |-> Total([i \in 1..MaxSequence |-> Adds(rows, i).committed], MaxSequence)]

\* process: getCheckpoint and replay, each a statement of its own.
ProcessReads ==
    /\ engine.pc \in {"idle", "reset"}
    /\ engine' = [pc |-> "read", rows |-> {r \in log : r.seq >= check + 1}]
    /\ UNCHANGED <<log, open, next, balance, check, outbox, past>>

\* Slip: the batch is projected and the checkpoint stays.
ProcessKeepsCheckpoint ==
    /\ engine.pc = "read"
    /\ engine' = [pc |-> "idle", rows |-> {}]
    /\ balance' = [available |-> balance.available + Projection(engine.rows).available,
                   committed |-> balance.committed + Projection(engine.rows).committed]
    /\ UNCHANGED <<log, open, next, check, outbox, past>>
\* The batch and its checkpoint are one transaction.
ProcessCommits ==
    /\ engine.pc = "read"
    /\ engine' = [pc |-> "idle", rows |-> {}]
    /\ balance' = [available |-> balance.available + Projection(engine.rows).available,
                   committed |-> balance.committed + Projection(engine.rows).committed]
    /\ check' = Max({r.seq : r \in engine.rows} \cup {check})
    /\ UNCHANGED <<log, open, next, outbox, past>>

\* rebuild: truncate, then reset the checkpoint, then process.
RebuildTruncates ==
    /\ engine.pc = "idle" /\ past.rebuilds < MaxRebuilds
    /\ engine' = [engine EXCEPT !.pc = "truncated"]
    /\ balance' = Zero
    /\ past' = [past EXCEPT !.rebuilds = @ + 1]
    /\ UNCHANGED <<log, open, next, check, outbox>>

RebuildResets ==
    /\ engine.pc = "truncated"
    /\ engine' = [engine EXCEPT !.pc = "reset"]
    /\ check' = 0
    /\ past' = [past EXCEPT !.late = FALSE, !.torn = FALSE]
    /\ UNCHANGED <<log, open, next, balance, outbox>>

EngineCrashes ==
    /\ engine.pc # "idle"
    /\ engine' = [pc |-> "idle", rows |-> {}]
    /\ past' = [past EXCEPT !.torn = @ \/ engine.pc = "truncated"]
    /\ UNCHANGED <<log, open, next, balance, check, outbox>>

(***************************************************************************)
(* PgOutboxProcessor.drain.  The checkpoint is an UPDATE: without a row it *)
(* writes nothing.                                                         *)
(***************************************************************************)

AfterLast(rows, last) ==
    IF last = 0 \/ last \notin Ids(rows) THEN rows
    ELSE {r \in rows : \E l \in rows : l.id = last /\ r.seq > l.seq}

DrainReads ==
    /\ outbox.pc = "idle"
    /\ outbox' = [outbox EXCEPT !.pc = "draining", !.batch = AfterLast(log, outbox.last)]
    /\ UNCHANGED <<log, open, next, balance, check, engine, past>>

DrainHandles ==
    /\ outbox.pc = "draining" /\ outbox.batch # {}
    /\ outbox' = [outbox EXCEPT !.pc = "handled", !.done = @ \cup {Earliest(outbox.batch).id}]
    /\ UNCHANGED <<log, open, next, balance, check, engine, past>>

DrainCheckpoints ==
    /\ outbox.pc = "handled"
    /\ outbox' = [outbox EXCEPT !.pc = "draining", !.batch = @ \ {Earliest(@)},
                    !.last = IF CheckpointRow THEN Earliest(outbox.batch).id ELSE @]
    /\ UNCHANGED <<log, open, next, balance, check, engine, past>>

DrainEnds ==
    /\ outbox.pc = "draining" /\ outbox.batch = {}
    /\ outbox' = [outbox EXCEPT !.pc = "idle"]
    /\ UNCHANGED <<log, open, next, balance, check, engine, past>>

\* The handler throws, or the process dies between a call and its checkpoint.
DrainCrashes ==
    /\ outbox.pc # "idle"
    /\ outbox' = [outbox EXCEPT !.pc = "idle", !.batch = {}]
    /\ UNCHANGED <<log, open, next, balance, check, engine, past>>

-----------------------------------------------------------------------------

LedgerInit ==
    /\ log = {} /\ open = {} /\ next = 0
    /\ balance = Zero /\ check = 0
    /\ engine = [pc |-> "idle", rows |-> {}]
    /\ outbox = [pc |-> "idle", last |-> 0, batch |-> {}, done |-> {}]
    /\ past = [rebuilds |-> 0, disorder |-> FALSE, late |-> FALSE, torn |-> FALSE]

Writers == AppendMany \/ (\E t \in open : Commits(t) \/ RollsBack(t))
Engine == ProcessReads \/ ProcessCommits \/ RebuildTruncates \/ RebuildResets \/ EngineCrashes
Outbox == DrainReads \/ DrainHandles \/ DrainCheckpoints \/ DrainEnds \/ DrainCrashes

-----------------------------------------------------------------------------

LedgerTypeOK ==
    /\ log \subseteq [id : Events, seq : 1..next] /\ open \subseteq SUBSET [id : Events, seq : 1..next]
    /\ balance \in [available : Int, committed : Int] /\ check \in 0..next
    /\ engine.pc \in {"idle", "truncated", "reset", "read"} /\ engine.rows \subseteq log
    /\ outbox.pc \in {"idle", "draining", "handled"} /\ outbox.batch \subseteq log

\* The projection is the sum of the events up to its checkpoint, whatever the
\* crashes and rebuilds, except after a row was committed behind the
\* checkpoint and after a crash between the truncation and the reset.
ProjectionExact ==
    engine.pc # "truncated" /\ ~past.late /\ ~past.torn
        => balance = Projection({r \in log : r.seq <= check})

\* Everything before the outbox's checkpoint has been handled, whatever the
\* crashes between a call and its checkpoint, as long as rows become visible
\* in the order of their numbers.
OutboxLeavesNoneBehind ==
    ~past.disorder => \A l, r \in log : outbox.last = l.id /\ r.seq < l.seq => r.id \in outbox.done

\* Neither reader of the log loses an event.
ReadersLoseNothing == ProjectionExact /\ OutboxLeavesNoneBehind

\* The store implements the append-only log, transactions in flight included.
Log == INSTANCE AppendOnlyLog WITH log <- log, Events <- Events
ImplementsLog == Log!LogSpec
=============================================================================

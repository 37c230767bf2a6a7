----------------------------- MODULE Calibration -----------------------------
(***************************************************************************)
(* The calibration the resolution sync trains: isotonic regression by      *)
(* pooling adjacent violators, one map for each model that made forecasts, *)
(* and the map as a new forecast is put through it.  A mean is kept as its *)
(* sum and its number of samples.                                          *)
(***************************************************************************)
EXTENDS Integers, Sequences, FiniteSets, SequencesExt, FiniteSetsExt, RunningTotal, Ordering

CONSTANTS
    Resolutions,    \* forecasts of decided markets: [model, p, y], y = 1 when it won
    MinSamples,     \* MIN_CALIBRATION_SAMPLES
    Limit,          \* rows the training reads
    MaxResolutions  \* bound on the rows

\* A forecast and its outcome are numbers, and so are the bounds.
ASSUME CalibrationAssumption ==
    /\ \A r \in Resolutions : r.p \in Int /\ r.y \in Int
    /\ {MinSamples, Limit, MaxResolutions} \subseteq Nat

VARIABLES
    resolved,   \* forecasts joined with resolved_clusters, the newest first
    job,        \* trainFromResolvedClusters: the groups left, and a fit
    maps        \* calibration_models: model -> [points, of]

calibrationVars == <<resolved, job, maps>>

Models == {r.model : r \in Resolutions}
Idle0 == [groups |-> << >>, samples |-> << >>, of |-> << >>, blocks |-> << >>, busy |-> FALSE]

(***************************************************************************)
(* fitIsotonic                                                             *)
(***************************************************************************)

\* sort is stable: samples with the same p keep the order of the rows.
SortedByP(rows) ==
    LET order == InOrder(DOMAIN rows, {e \in (DOMAIN rows) \X (DOMAIN rows) :
                     rows[e[1]].p < rows[e[2]].p \/ (rows[e[1]].p = rows[e[2]].p /\ e[1] < e[2])})
    IN  [k \in 1..Len(rows) |-> rows[order[k]]]

Block(r) == [p |-> r.p, sum |-> r.y, n |-> 1]
Above(a, b) == a.sum * b.n > b.sum * a.n
\* Slip: the pooled block forgets the size of the block it takes in.
MergedAsOne(a, b) == [p |-> b.p, sum |-> a.sum + b.sum, n |-> a.n + 1]
Merged(a, b) == [p |-> b.p, sum |-> a.sum + b.sum, n |-> a.n + b.n]

Violated(blocks) ==
    /\ Len(blocks) >= 2
    /\ Above(blocks[Len(blocks) - 1], Last(blocks))

\* applyIsotonic.
Apply(points, p) ==
    IF p <= points[1].p THEN points[1]
    ELSE points[Max({j \in DOMAIN points : points[j].p <= p})]

(***************************************************************************)
(* The training                                                            *)
(***************************************************************************)

Resolves(r) ==
    /\ Len(resolved) < MaxResolutions
    /\ resolved' = <<r>> \o resolved
    /\ UNCHANGED <<job, maps>>

\* The rows of a model, and a group for each model in the order of their newest.
RowsOf(taken, m) == {i \in DOMAIN taken : taken[i].model = m}
GroupsOf(taken) ==
    LET asked == {m \in Models : RowsOf(taken, m) # {}}
        order == InOrder(asked, {e \in asked \X asked : Min(RowsOf(taken, e[1])) < Min(RowsOf(taken, e[2]))})
    IN  [k \in 1..Cardinality(asked) |-> Picked(taken, RowsOf(taken, order[k]))]

\* One query of the newest rows, and the groups are trained one after another.
TrainingStarts ==
    /\ ~job.busy /\ resolved # << >>
    /\ job' = [Idle0 EXCEPT !.busy = TRUE,
                   !.groups = GroupsOf(SubSeq(resolved, 1, IF Len(resolved) < Limit THEN Len(resolved) ELSE Limit))]
    /\ UNCHANGED <<resolved, maps>>

\* A group with too few samples is skipped and keeps the map it has.
GroupStarts ==
    /\ job.busy /\ job.of = << >> /\ job.groups # << >>
    /\ LET g == Head(job.groups)
           left == [job EXCEPT !.groups = Tail(@)]
       IN  job' = IF Len(g) < MinSamples THEN left
                  ELSE [left EXCEPT !.samples = SortedByP(g), !.of = SortedByP(g)]
    /\ UNCHANGED <<resolved, maps>>

Pushes ==
    /\ job.samples # << >> /\ ~Violated(job.blocks)
    /\ job' = [job EXCEPT !.samples = Tail(@), !.blocks = Append(@, Block(Head(job.samples)))]
    /\ UNCHANGED <<resolved, maps>>

Merges ==
    /\ Violated(job.blocks)
    /\ LET front == Front(job.blocks)
       IN  job' = [job EXCEPT !.blocks = Append(Front(front), Merged(Last(front), Last(job.blocks)))]
    /\ UNCHANGED <<resolved, maps>>

\* The upsert; one that fails is swallowed like a group that is too small.
Stores(ok) ==
    /\ job.of # << >> /\ job.samples = << >> /\ ~Violated(job.blocks)
    /\ maps' = IF ok THEN [maps EXCEPT ![job.of[1].model] = [points |-> job.blocks, of |-> job.of]] ELSE maps
    /\ job' = [job EXCEPT !.of = << >>, !.blocks = << >>]
    /\ UNCHANGED resolved

TrainingEnds ==
    /\ job.busy /\ job.of = << >> /\ job.groups = << >>
    /\ job' = Idle0
    /\ UNCHANGED <<resolved, maps>>

-----------------------------------------------------------------------------

Untrained == [points |-> << >>, of |-> << >>]

CalibrationInit ==
    resolved = << >> /\ job = Idle0 /\ maps = [m \in Models |-> Untrained]

CalibrationNext ==
    \/ \E r \in Resolutions : Resolves(r)
    \/ TrainingStarts \/ GroupStarts \/ Pushes \/ Merges \/ TrainingEnds
    \/ \E ok \in BOOLEAN : Stores(ok)

-----------------------------------------------------------------------------

CalibrationTypeOK ==
    /\ Range(resolved) \subseteq Resolutions /\ Len(resolved) <= MaxResolutions
    /\ \A m \in Models : {r.model : r \in Range(maps[m].of)} \subseteq {m}

\* The running sums of the outcomes and of the sizes of the blocks.
Won(s) == PrefixTotals([i \in DOMAIN s |-> s[i].y], Len(s))
Reach(points) == PrefixTotals([j \in DOMAIN points |-> points[j].n], Len(points))
Average(s, a, b) == [sum |-> Won(s)[b] - Won(s)[a - 1], n |-> b - a + 1]
BlockOf(points, k) == points[Min({j \in DOMAIN points : Reach(points)[j] >= k})]

\* The fit is the isotonic regression of its samples, by the max-min formula
\* that defines it without blocks, over the samples in the order of their
\* forecasts: the value at sample k is the largest, over
\* starts a <= k, of the smallest average of a..b with b >= k.  And what a new
\* forecast is mapped to never falls as the forecast rises.
IsotonicFit ==
    \A m \in Models :
        LET s == maps[m].of
            points == maps[m].points
        IN  /\ s # << >> => Len(s) >= MinSamples
            /\ \A i, j \in DOMAIN s : i < j => s[i].p <= s[j].p
            /\ \A k \in DOMAIN s :
                  /\ \E a \in 1..k : \A b \in k..Len(s) : ~Above(BlockOf(points, k), Average(s, a, b))
                  /\ \A a \in 1..k : \E b \in k..Len(s) : ~Above(Average(s, a, b), BlockOf(points, k))
            /\ s # << >> => \A p, q \in {r.p : r \in Resolutions} :
                               p < q => ~Above(Apply(points, p), Apply(points, q))
=============================================================================

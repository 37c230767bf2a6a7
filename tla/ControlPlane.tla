---------------------------- MODULE ControlPlane ----------------------------
(***************************************************************************)
(* The orchestrator of the control plane and its periodic reconciliation:  *)
(* orchestrate takes an intent to the executor, PgReconciler asks the      *)
(* venue about the orders whose answer was lost and writes recovery_ledger *)
(* beside Executor.reconcile, PgSupervisor runs it on a timer.             *)
(***************************************************************************)
EXTENDS Integers, FiniteSets

CONSTANTS
    Intents,        \* one order each
    MaxFaults       \* bound on failed statements and restarts

ASSUME ControlAssumption == MaxFaults \in Nat

VARIABLES
    stage,      \* intent -> where orchestrate is with it
    held,       \* intents whose reservation holds cash
    recoveryRows, \* intent -> its row of recovery_ledger
    seen,       \* intent -> the executor's seen log
    clob,       \* intent -> the venue's record of its order
    sweep,      \* reconcileAll: the ids still to do, the order, its new state
    faults

controlVars == <<stage, held, recoveryRows, seen, clob, sweep, faults>>

Waiting == [pc |-> "waiting", todo |-> {}, order |-> {}, answer |-> "none"]
Unwritten == [state |-> "NOT_SEEN", resolved |-> FALSE, verdict |-> "none"]
Row(state, final) ==
    [state |-> state, resolved |-> final, verdict |-> IF final THEN state ELSE "none"]
Working == {"reserved", "built", "claimed"}

(***************************************************************************)
(* orchestrate.  Nothing gives a reservation back when the builder or the  *)
(* executor refuses: it waits for the expiry job.                          *)
(***************************************************************************)

\* The intent must have the side and the price of the edge.
Matches(edge, intent) == edge.trade /\ intent.side = edge.side /\ intent.price \in {"unset", edge.price}

Decides(i, edge, intent, gateOk) ==
    /\ stage[i] = "idle"
    /\ IF Matches(edge, intent) /\ gateOk
       THEN stage' = [stage EXCEPT ![i] = "reserved"] /\ held' = held \cup {i}
       ELSE stage' = [stage EXCEPT ![i] = "ended"] /\ held' = held
    /\ UNCHANGED <<recoveryRows, seen, clob, sweep, faults>>

Builds(i, ok) ==
    /\ stage[i] = "reserved"
    /\ stage' = [stage EXCEPT ![i] = IF ok THEN "built" ELSE "ended"]
    /\ UNCHANGED <<held, recoveryRows, seen, clob, sweep, faults>>

\* Executor.submit: the claim of the permit writes the row, or refuses.
ClaimsPermit(i, ok) ==
    /\ stage[i] = "built"
    /\ IF ok
       THEN /\ stage' = [stage EXCEPT ![i] = "claimed"]
            /\ recoveryRows' = [recoveryRows EXCEPT ![i] = Row("SUBMITTING", FALSE)]
            /\ seen' = [seen EXCEPT ![i] = "SUBMITTING"]
       ELSE stage' = [stage EXCEPT ![i] = "ended"] /\ UNCHANGED <<recoveryRows, seen>>
    /\ UNCHANGED <<held, clob, sweep, faults>>

\* The venue takes the order, and its answer arrives.
Acknowledged(i, status) ==
    /\ stage[i] = "claimed"
    /\ stage' = [stage EXCEPT ![i] = "ended"]
    /\ clob' = [clob EXCEPT ![i] = status]
    /\ seen' = [seen EXCEPT ![i] = "ACKNOWLEDGED"]
    /\ recoveryRows' = [recoveryRows EXCEPT ![i] = Row("ACKNOWLEDGED", status = "MATCHED")]
    /\ held' = IF status = "MATCHED" THEN held \ {i} ELSE held
    /\ UNCHANGED <<sweep, faults>>

\* The answer is lost: the venue has the order, may have it later, or not.
AnswerLost(i, status) ==
    /\ stage[i] = "claimed"
    /\ stage' = [stage EXCEPT ![i] = "ended"]
    /\ clob' = [clob EXCEPT ![i] = status]
    /\ seen' = [seen EXCEPT ![i] = "SUBMISSION_UNKNOWN"]
    /\ recoveryRows' = [recoveryRows EXCEPT ![i] = Row("SUBMISSION_UNKNOWN", FALSE)]
    /\ UNCHANGED <<held, sweep, faults>>

VenueChangesOrder(i, status) ==
    /\ \/ clob[i] = "sent" /\ status \in {"none", "LIVE", "MATCHED"}
       \/ clob[i] = "LIVE" /\ status \in {"MATCHED", "CANCELED"}
    /\ clob' = [clob EXCEPT ![i] = status]
    /\ UNCHANGED <<stage, held, recoveryRows, seen, sweep, faults>>

\* expireOverdue.
ReservationTimesOut(i) ==
    /\ i \in held /\ held' = held \ {i}
    /\ UNCHANGED <<stage, recoveryRows, seen, clob, sweep, faults>>

(***************************************************************************)
(* PgReconciler.reconcileAll, one sweep at a time: a tick that finds one   *)
(* running returns.                                                        *)
(***************************************************************************)

SweepSelects ==
    /\ sweep.pc = "waiting"
    /\ sweep' = [Waiting EXCEPT !.pc = "loop", !.todo = {i \in Intents : recoveryRows[i].state = "SUBMISSION_UNKNOWN"}]
    /\ UNCHANGED <<stage, held, recoveryRows, seen, clob, faults>>

NeedsAnswer(i) == ~recoveryRows[i].resolved /\ recoveryRows[i].state # "NOT_SEEN"
Reported(i) == IF clob[i] = "sent" THEN "none" ELSE clob[i]

\* Executor.reconcile asks the venue, unless the row was closed meanwhile.
SweepAsks(i) ==
    /\ sweep.pc = "loop" /\ i \in sweep.todo
    /\ sweep' = IF NeedsAnswer(i)
                THEN [sweep EXCEPT !.pc = "answered", !.order = {i}, !.answer = Reported(i)]
                ELSE [sweep EXCEPT !.pc = "update", !.order = {i}, !.answer = seen[i]]
    /\ UNCHANGED <<stage, held, recoveryRows, seen, clob, faults>>

\* Slip: an order the venue does not know is taken to be rejected.
RejectsUnknown(i, status) == IF status \in {"LIVE", "MATCHED"} THEN "ACKNOWLEDGED" ELSE "DEFINITIVE_REJECT"
\* What the venue's answer says of the order: nothing is concluded from an
\* order the venue does not know.
StateFor(i, status) ==
    CASE status = "CANCELED"            -> "DEFINITIVE_REJECT"
      [] status \in {"LIVE", "MATCHED"} -> "ACKNOWLEDGED"
      [] OTHER                          -> seen[i]

\* Executor.reconcile writes what it concluded and returns it.
ExecutorResolves ==
    /\ sweep.pc = "answered"
    /\ \E i \in sweep.order :
          LET new == StateFor(i, sweep.answer)
          IN  /\ seen' = [seen EXCEPT ![i] = new]
              /\ recoveryRows' = IF sweep.answer \in {"MATCHED", "CANCELED"} THEN [recoveryRows EXCEPT ![i] = Row(new, TRUE)]
                         ELSE IF sweep.answer = "LIVE" THEN [recoveryRows EXCEPT ![i].state = new] ELSE recoveryRows
              /\ held' = IF sweep.answer \in {"MATCHED", "CANCELED"} THEN held \ {i} ELSE held
              /\ sweep' = [sweep EXCEPT !.pc = "update", !.answer = new]
    /\ UNCHANGED <<stage, clob, faults>>

\* The reconciler writes the state over the row, in a statement of its own,
\* and closes the row in another.
SweepUpdates ==
    /\ sweep.pc = "update"
    /\ \E i \in sweep.order :
          /\ recoveryRows' = [recoveryRows EXCEPT ![i].state = sweep.answer]
          /\ sweep' = IF sweep.answer \in {"ACKNOWLEDGED", "DEFINITIVE_REJECT"} THEN [sweep EXCEPT !.pc = "close"]
                      ELSE [Waiting EXCEPT !.pc = "loop", !.todo = sweep.todo \ {i}]
    /\ UNCHANGED <<stage, held, seen, clob, faults>>

SweepCloses ==
    /\ sweep.pc = "close"
    /\ \E i \in sweep.order :
          /\ recoveryRows' = [recoveryRows EXCEPT ![i].resolved = TRUE, ![i].verdict = sweep.answer]
          /\ sweep' = [Waiting EXCEPT !.pc = "loop", !.todo = sweep.todo \ {i}]
    /\ UNCHANGED <<stage, held, seen, clob, faults>>

SweepEnds ==
    /\ sweep.pc = "loop" /\ sweep.todo = {} /\ sweep' = Waiting
    /\ UNCHANGED <<stage, held, recoveryRows, seen, clob, faults>>

\* Slip: the flag that one sweep runs at a time stays set.
SweepStaysBusy ==
    /\ sweep.pc # "waiting" /\ faults < MaxFaults
    /\ faults' = faults + 1 /\ sweep' = [Waiting EXCEPT !.pc = "stuck"]
    /\ UNCHANGED <<stage, held, recoveryRows, seen, clob>>
\* A statement throws: the rest of the sweep is dropped until the next tick.
SweepThrows ==
    /\ sweep.pc # "waiting" /\ faults < MaxFaults
    /\ faults' = faults + 1 /\ sweep' = Waiting
    /\ UNCHANGED <<stage, held, recoveryRows, seen, clob>>

\* createOrchestratorPg again: the seen log comes from the unresolved recoveryRows.
Restarts ==
    /\ faults < MaxFaults /\ faults' = faults + 1
    /\ \E placed \in SUBSET {i \in Intents : stage[i] = "claimed"} :
          clob' = [i \in Intents |-> IF i \in placed THEN "sent" ELSE clob[i]]
    /\ stage' = [i \in Intents |-> IF stage[i] \in Working THEN "ended" ELSE stage[i]]
    /\ seen' = [i \in Intents |-> IF recoveryRows[i].resolved THEN "NOT_SEEN" ELSE recoveryRows[i].state]
    /\ sweep' = Waiting
    /\ UNCHANGED <<held, recoveryRows>>

-----------------------------------------------------------------------------

ControlInit ==
    /\ stage = [i \in Intents |-> "idle"] /\ held = {}
    /\ recoveryRows = [i \in Intents |-> Unwritten] /\ seen = [i \in Intents |-> "NOT_SEEN"]
    /\ clob = [i \in Intents |-> "none"]
    /\ sweep = Waiting /\ faults = 0

Edges == {[trade |-> FALSE, side |-> "YES", price |-> "p"], [trade |-> TRUE, side |-> "YES", price |-> "p"]}
Wanted == [side : {"YES", "NO"}, price : {"unset", "p", "q"}]

ControlNext ==
    \/ \E i \in Intents :
          \/ \E e \in Edges, w \in Wanted, ok \in BOOLEAN : Decides(i, e, w, ok)
          \/ \E ok \in BOOLEAN : Builds(i, ok) \/ ClaimsPermit(i, ok)
          \/ \E s \in {"LIVE", "MATCHED"} : Acknowledged(i, s)
          \/ \E s \in {"none", "sent", "LIVE", "MATCHED"} : AnswerLost(i, s)
          \/ \E s \in {"none", "LIVE", "MATCHED", "CANCELED"} : VenueChangesOrder(i, s)
          \/ ReservationTimesOut(i) \/ SweepAsks(i)
    \/ SweepSelects \/ ExecutorResolves \/ SweepUpdates \/ SweepCloses \/ SweepEnds
    \/ SweepThrows \/ Restarts

\* The timer, and awaits that return; the faults are bounded.
Sweeps ==
    \/ SweepSelects \/ (\E i \in Intents : SweepAsks(i))
    \/ ExecutorResolves \/ SweepUpdates \/ SweepCloses \/ SweepEnds
ControlFairness == WF_controlVars(Sweeps)

-----------------------------------------------------------------------------

ControlTypeOK ==
    /\ stage \in [Intents -> {"idle", "ended"} \cup Working] /\ held \subseteq Intents
    /\ \A i \in Intents : recoveryRows[i].verdict = "none" <=> ~recoveryRows[i].resolved
    /\ sweep.pc \in {"waiting", "loop", "answered", "update", "close"} /\ faults \in 0..MaxFaults

\* No row is closed against the venue, though answers are used after the venue
\* has moved on, requests arrive late, and reconciler and executor both write
\* the row: a rejected order does not rest or fill, an accepted one exists.
NoVerdictAgainstVenue ==
    \A i \in Intents : recoveryRows[i].resolved =>
        \/ recoveryRows[i].verdict = "DEFINITIVE_REJECT" /\ clob[i] = "CANCELED"
        \/ recoveryRows[i].verdict = "ACKNOWLEDGED" /\ clob[i] \notin {"none", "sent"}

\* An order whose answer was lost and that the venue knows is found by the
\* sweeps, whatever statements fail and however often the process restarts.
LostAnswerIsFound ==
    \A i \in Intents :
        recoveryRows[i].state = "SUBMISSION_UNKNOWN" /\ clob[i] \notin {"none", "sent"}
            ~> recoveryRows[i].state # "SUBMISSION_UNKNOWN"
=============================================================================

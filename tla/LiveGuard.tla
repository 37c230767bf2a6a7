----------------------------- MODULE LiveGuard -----------------------------
(***************************************************************************)
(* The one row of live_guard_state and everybody who reads or writes it:   *)
(* the trading pass, which loads, evaluates and saves the loss latch       *)
(* between reserving cash and submitting; the operator's halt, guard reset *)
(* and mode change, each a read and a later write from another process;    *)
(* the mode watcher, which polls the row and caches the mode.  The cash a  *)
(* pass reserved is followed until an order, a release or the expiry job   *)
(* takes it.  realized_loss_pusd is left out: no decision reads it back.   *)
(***************************************************************************)
EXTENDS Integers, Sequences

CONSTANTS
    MaxPermits,     \* bound: reservations the passes make
    MaxSelected,    \* maxConcurrentMarkets
    Universe,       \* markets of the universe
    LossCap,        \* POLYROOT_LIVE_LOSS_CAP_USD
    Losses,         \* values the realized loss of a session takes
    MaxFailures,    \* maxFailuresBeforeDegrade
    MaxHalts, MaxResets, MaxChanges,    \* bounds on the operators
    MaxCrashes                          \* bound on the crashes

ASSUME LiveGuardAssumption ==
    /\ LossCap \in Nat \ {0} /\ Losses \subseteq Nat
    /\ MaxSelected \in Nat \ {0} /\ Universe \in Nat \ {0}
    /\ MaxFailures \in Nat \ {0} /\ MaxPermits \in Nat

VARIABLES
    guard,      \* the row: halted and runtime_mode
    why,        \* history: what engaged the latch that is engaged
    watcher,    \* ModeWatcher: cached mode, consecutive failures, degraded
    polled,     \* polls whose result is read and not yet applied
    halt,       \* requestHalt of the operator
    reset,      \* runGuardReset of the operator
    change,     \* requestModeChange of the operator
    agent,      \* the agent process: running, admitted at its start
    pass,       \* runContinuous and executeG4Step
    res,        \* the reservations in the order they were made: held by the
                \* pass, or settled by an order, a release or the expiry
    spent       \* bounds and history: what happened so far

guardVars == <<guard, why, watcher, polled, halt, reset, change, agent, pass,
               res, spent>>

RuntimeMode == {"LIVE", "READ_ONLY"}

FreshWatcher == [mode |-> "LIVE", failures |-> 0, degraded |-> FALSE]
Idle == [pc |-> "top", todo |-> 0, permit |-> 0, previous |-> FALSE]
\* A pass with n markets still to take.
Taking(n) == [pc |-> "market", todo |-> n, permit |-> 0, previous |-> FALSE]

(***************************************************************************)
(* evaluateLossGuard and decideGuardReset.                                 *)
(***************************************************************************)

\* Slip: only the loss measured now counts.
LossGuardForgets(cap, realized, isReset, previous) == cap <= 0 \/ realized < 0 \/ realized >= cap
\* The state evaluateLossGuard returns, and so the state the pass saves.
LossGuardHalts(cap, realized, isReset, previous) ==
    \/ cap <= 0 \/ realized < 0
    \/ previous /\ ~isReset
    \/ realized >= cap

\* decideGuardReset: the measured loss must be back under the cap.
ResetAllowed(realized) == realized < LossCap

(***************************************************************************)
(* The mode watcher.  The interval starts a poll whether or not the last   *)
(* one was answered, so answers may be applied late and out of order.      *)
(***************************************************************************)

\* History: what the pass in flight still had to do when the mode narrowed.
Narrowed ==
    spent' = IF watcher'.mode = "LIVE" THEN [spent EXCEPT !.lag = 0, !.left = 0]
             ELSE IF watcher.mode = "LIVE" THEN [spent EXCEPT !.left = pass.todo]
             ELSE spent

PollReads ==
    /\ agent.up
    /\ polled' = polled \cup {guard.mode}
    /\ UNCHANGED <<guard, why, watcher, halt, reset, change, agent, pass, res, spent>>

\* Slip: a watcher that has degraded does not look at the row any more.
PollIgnored(m) ==
    /\ agent.up /\ m \in polled
    /\ polled' = polled \ {m}
    /\ watcher' = IF watcher.degraded THEN watcher ELSE [mode |-> m, failures |-> 0, degraded |-> FALSE]
    /\ Narrowed
    /\ UNCHANGED <<guard, why, halt, reset, change, agent, pass, res>>
\* pollOnce after the query: a degraded watcher takes the mode of the row too.
PollApplies(m) ==
    /\ agent.up /\ m \in polled
    /\ polled' = polled \ {m}
    /\ watcher' = [mode |-> m, failures |-> 0, degraded |-> FALSE]
    /\ Narrowed
    /\ UNCHANGED <<guard, why, halt, reset, change, agent, pass, res>>

PollFails ==
    /\ agent.up /\ watcher.failures < MaxFailures
    /\ LET n == watcher.failures + 1
       IN  watcher' = IF n >= MaxFailures /\ ~watcher.degraded
                      THEN [mode |-> "READ_ONLY", failures |-> n, degraded |-> TRUE]
                      ELSE [watcher EXCEPT !.failures = n]
    /\ Narrowed
    /\ UNCHANGED <<guard, why, polled, halt, reset, change, agent, pass, res>>

(***************************************************************************)
(* requestModeChange, from another process: the latch is read, then the    *)
(* row is updated in a second statement.                                   *)
(***************************************************************************)

ChangeReads ==
    /\ change.pc = "idle" /\ spent.changes < MaxChanges
    /\ \E m \in RuntimeMode :
          IF m = "LIVE" /\ guard.halted THEN UNCHANGED change
          ELSE change' = [pc |-> "checked", mode |-> m]
    /\ spent' = [spent EXCEPT !.changes = @ + 1]
    /\ UNCHANGED <<guard, why, watcher, polled, halt, reset, agent, pass, res>>

ChangeWrites ==
    /\ change.pc = "checked"
    /\ change' = [pc |-> "idle", mode |-> "LIVE"]
    /\ guard' = [guard EXCEPT !.mode = change.mode]
    /\ UNCHANGED <<why, watcher, polled, halt, reset, agent, pass, res, spent>>

(***************************************************************************)
(* requestHalt: save the latch, then stop the local agents and exit.  What *)
(* it loads first only carries the loss over; a save that fails throws     *)
(* before any other side effect.                                           *)
(* Nothing of the repository writes the orders table the cancel list is    *)
(* read from, so the list is empty and no order is cancelled.              *)
(***************************************************************************)

HaltSaves ==
    /\ halt = "idle" /\ spent.halts < MaxHalts
    /\ halt' = "saved"
    /\ guard' = [guard EXCEPT !.halted = TRUE]
    /\ why' = "operator"
    /\ spent' = [spent EXCEPT !.halts = @ + 1, !.afterHalt = 0]
    /\ UNCHANGED <<watcher, polled, reset, change, agent, pass, res>>

\* What a process holds in memory is gone: mode cache, session loss, pass.
Stopped ==
    /\ agent' = [up |-> FALSE, admitted |-> FALSE, warm |-> FALSE]
    /\ pass' = Idle
    /\ watcher' = FreshWatcher
    /\ polled' = {}

\* pkill may find no agent ("|| true"); the halt exits either way.
HaltExits ==
    /\ halt = "saved" /\ halt' = "idle"
    /\ (Stopped \/ UNCHANGED <<agent, pass, watcher, polled>>)
    /\ UNCHANGED <<guard, why, reset, change, res, spent>>

(***************************************************************************)
(* polyroot guard-reset, from another process.                             *)
(***************************************************************************)

\* A reset of a latch that is clear changes nothing.
ResetLoads ==
    /\ reset = "idle" /\ spent.resets < MaxResets /\ guard.halted
    /\ reset' = "loaded"
    /\ spent' = [spent EXCEPT !.resets = @ + 1]
    /\ UNCHANGED <<guard, why, watcher, polled, halt, change, agent, pass, res>>

\* The measured loss is an argument of the command.
ResetSaves(realized) ==
    /\ reset = "loaded" /\ reset' = "idle"
    /\ IF ResetAllowed(realized)
       THEN guard' = [guard EXCEPT !.halted = FALSE] /\ why' = "none"
       ELSE UNCHANGED <<guard, why>>
    /\ UNCHANGED <<watcher, polled, halt, change, agent, pass, res, spent>>

(***************************************************************************)
(* The process.  The admission is resolved once, at the start: gate G2     *)
(* wants the latch clear, the other gates can only refuse as well.         *)
(***************************************************************************)

Start ==
    /\ ~agent.up
    /\ agent' = [up |-> TRUE, admitted |-> ~guard.halted, warm |-> FALSE]
    /\ spent' = [spent EXCEPT !.lag = 0, !.left = 0, !.traded = FALSE]
    /\ UNCHANGED <<guard, why, watcher, polled, halt, reset, change, pass, res>>

Crash ==
    /\ agent.up /\ spent.crashes < MaxCrashes
    /\ Stopped
    /\ spent' = [spent EXCEPT !.crashes = @ + 1]
    /\ UNCHANGED <<guard, why, halt, reset, change, res>>

(***************************************************************************)
(* The trading pass.                                                       *)
(***************************************************************************)

\* syncModeFromWatcher, then the pass: entries wait while READ_ONLY.  Until a
\* market has a score the pass takes the whole universe.
PassStarts ==
    /\ agent.up /\ pass.pc = "top"
    /\ watcher.mode = "LIVE" /\ ~watcher.degraded
    /\ \E n \in 1..(IF agent.warm /\ MaxSelected < Universe THEN MaxSelected ELSE Universe) :
          pass' = Taking(n)
    /\ UNCHANGED <<guard, why, watcher, polled, halt, reset, change, agent, res, spent>>

\* The market is done and scored.
NextMarket(todo) ==
    /\ pass' = IF todo = 0 THEN Idle ELSE Taking(todo)
    /\ agent' = [agent EXCEPT !.warm = TRUE]

\* Gates, forecast, book, edge or sizing say NO_TRADE, or the kernel refuses.
NoTrade ==
    /\ agent.up /\ pass.pc = "market"
    /\ NextMarket(pass.todo - 1)
    /\ UNCHANGED <<guard, why, watcher, polled, halt, reset, change, res, spent>>

\* computeFinancialGate allows and validateAndReserve commits.
Reserve ==
    /\ agent.up /\ pass.pc = "market" /\ agent.admitted
    /\ Len(res) < MaxPermits
    /\ res' = Append(res, "held")
    /\ pass' = [pass EXCEPT !.pc = "reserved", !.todo = @ - 1, !.permit = Len(res) + 1]
    /\ spent' = [spent EXCEPT !.lag =
                    IF watcher.mode = "LIVE" THEN 0 ELSE @ + 1]
    /\ UNCHANGED <<guard, why, watcher, polled, halt, reset, change, agent>>

\* releaseUnsubmittedReservation: a failed release is logged and swallowed.
GivenBack(r) ==
    \/ res' = [res EXCEPT ![r] = "settled"]
    \/ UNCHANGED res

\* Signing fails, or a cap is missing or exceeded: abortReserved.
Abort ==
    /\ agent.up /\ pass.pc = "reserved"
    /\ GivenBack(pass.permit)
    /\ NextMarket(pass.todo)
    /\ UNCHANGED <<guard, why, watcher, polled, halt, reset, change, spent>>

LoadLatch ==
    /\ agent.up /\ pass.pc = "reserved"
    /\ pass' = [pass EXCEPT !.pc = "loaded", !.previous = guard.halted]
    /\ UNCHANGED <<guard, why, watcher, polled, halt, reset, change, agent, res, spent>>

\* Slip: the row is written and the order stopped for a breach of now only.
SaveOnBreach(realized) ==
    /\ agent.up /\ pass.pc = "loaded"
    /\ guard' = [guard EXCEPT !.halted = @ \/ realized >= LossCap]
    /\ why' = IF realized >= LossCap THEN "loss" ELSE why
    /\ IF realized >= LossCap THEN GivenBack(pass.permit) /\ NextMarket(pass.todo)
       ELSE pass' = [pass EXCEPT !.pc = "clear"] /\ UNCHANGED <<res, agent>>
    /\ UNCHANGED <<watcher, polled, halt, reset, change, spent>>
\* saveLatch writes the whole latch from what was loaded and from the loss the
\* session's metrics show, which every sync and every fill moves.
SaveLatch(realized) ==
    LET halts == LossGuardHalts(LossCap, realized, FALSE, pass.previous)
    IN  /\ agent.up /\ pass.pc = "loaded"
        /\ guard' = [guard EXCEPT !.halted = halts]
        /\ why' = IF ~halts THEN "none" ELSE IF realized >= LossCap THEN "loss" ELSE why
        /\ IF halts THEN GivenBack(pass.permit) /\ NextMarket(pass.todo)
           ELSE pass' = [pass EXCEPT !.pc = "clear"] /\ UNCHANGED <<res, agent>>
        /\ UNCHANGED <<watcher, polled, halt, reset, change, spent>>

\* The executor took the order, or does not know.
Submit ==
    /\ agent.up /\ pass.pc = "clear"
    /\ res' = [res EXCEPT ![pass.permit] = "settled"]
    /\ NextMarket(pass.todo)
    /\ spent' = [spent EXCEPT !.traded = TRUE,
                    !.afterHalt = IF why = "operator" THEN @ + 1 ELSE @]
    /\ UNCHANGED <<guard, why, watcher, polled, halt, reset, change>>

\* The executor refused the order.
Refused ==
    /\ agent.up /\ pass.pc = "clear"
    /\ GivenBack(pass.permit)
    /\ NextMarket(pass.todo)
    /\ UNCHANGED <<guard, why, watcher, polled, halt, reset, change, spent>>

\* A query throws: the exception reaches runContinuous, which starts over.
Throws ==
    /\ agent.up /\ pass.pc \in {"reserved", "loaded", "clear"}
    /\ pass' = Idle
    /\ UNCHANGED <<guard, why, watcher, polled, halt, reset, change, agent, res, spent>>

\* The expiry job gives back what neither an order nor a release took.
Expire(r) ==
    /\ agent.up /\ r \in DOMAIN res /\ res[r] = "held"
    /\ res' = [res EXCEPT ![r] = "settled"]
    /\ UNCHANGED <<guard, why, watcher, polled, halt, reset, change, agent, pass, spent>>

-----------------------------------------------------------------------------

GuardInit ==
    /\ guard = [halted |-> FALSE, mode |-> "LIVE"]
    /\ why = "none"
    /\ watcher = FreshWatcher
    /\ polled = {}
    /\ halt = "idle"
    /\ reset = "idle"
    /\ change = [pc |-> "idle", mode |-> "LIVE"]
    /\ agent = [up |-> FALSE, admitted |-> FALSE, warm |-> FALSE]
    /\ pass = Idle
    /\ res = <<>>
    /\ spent = [halts |-> 0, resets |-> 0, changes |-> 0, crashes |-> 0,
                lag |-> 0, left |-> 0, traded |-> FALSE, afterHalt |-> 0]

GuardNext ==
    \/ PollReads \/ (\E m \in RuntimeMode : PollApplies(m)) \/ PollFails
    \/ ChangeReads \/ ChangeWrites
    \/ HaltSaves \/ HaltExits
    \/ ResetLoads \/ (\E l \in Losses : ResetSaves(l))
    \/ Start \/ Crash
    \/ PassStarts \/ NoTrade \/ Reserve \/ Abort
    \/ LoadLatch \/ (\E l \in Losses : SaveLatch(l)) \/ Submit \/ Refused \/ Throws
    \/ (\E r \in DOMAIN res : Expire(r))

\* The watcher's interval keeps firing, the supervisor restarts the process, and
\* an answered poll is applied.
GuardFairness ==
    /\ WF_guardVars(Start) /\ WF_guardVars(ChangeWrites)
    /\ WF_guardVars(PollReads)
    /\ \A m \in RuntimeMode : WF_guardVars(PollApplies(m))

GuardSpec == GuardInit /\ [][GuardNext]_guardVars /\ GuardFairness

-----------------------------------------------------------------------------

Counters == [halts : Nat, resets : Nat, changes : Nat, crashes : Nat, lag : Nat, left : Nat,
             traded : BOOLEAN, afterHalt : Nat]

RowTyped ==
    /\ guard \in [halted : BOOLEAN, mode : RuntimeMode]
    /\ why \in {"none", "loss", "operator"}
    /\ halt \in {"idle", "saved"} /\ reset \in {"idle", "loaded"}
    /\ change \in [pc : {"idle", "checked"}, mode : RuntimeMode]
WatcherTyped ==
    /\ watcher \in [mode : RuntimeMode, failures : 0..MaxFailures, degraded : BOOLEAN]
    /\ polled \subseteq RuntimeMode
PassTyped ==
    /\ agent \in [up : BOOLEAN, admitted : BOOLEAN, warm : BOOLEAN]
    /\ pass \in [pc : {"top", "market", "reserved", "loaded", "clear"},
                 todo : 0..Universe, permit : 0..MaxPermits, previous : BOOLEAN]
    /\ pass.pc = "market" => pass.todo > 0
ReservationsTyped ==
    /\ res \in Seq({"held", "settled"}) /\ Len(res) <= MaxPermits
    /\ pass.pc \in {"reserved", "loaded", "clear"} => pass.permit \in 1..Len(res)

\* The state a process or a row may be in; a pass has a permit from the
\* reservation on, and it goes through no more markets than there are.
GuardTypeOK == RowTyped /\ WatcherTyped /\ PassTyped /\ ReservationsTyped /\ spent \in Counters

\* A halt the loss guard engaged itself outlives the pass, the process and the
\* session that measured the loss: only a guard reset disengages it.
BreachStaysLatched ==
    [][why = "loss" /\ guard.halted /\ ~guard'.halted
         => reset = "loaded" /\ reset' = "idle"]_guardVars

\* The latch is the last thing read before the order is sent, so of the
\* passes in flight when the operator's halt is saved at most one sends an
\* order while that halt stays engaged.
OneOrderAfterHalt == why = "operator" => spent.afterHalt <= 1

\* An agent that started against an engaged latch sends nothing until it is
\* restarted, even after a guard reset: the admission is not resolved again.
HaltedStartNeverTrades == agent.up /\ ~agent.admitted => ~spent.traded

\* The mode is read once per pass, so once the watcher has turned READ_ONLY
\* the markets the pass in flight had left may still be entered, and no other.
ReadOnlyLag == spent.lag <= spent.left

\* What the operators of a trading process may rely on: its orders follow the
\* halt, the reset and the mode as closely as the order of its reads allows.
OrdersObeyOperators == OneOrderAfterHalt /\ HaltedStartNeverTrades /\ ReadOnlyLag

\* Once the operators are done, the watcher keeps coming back to the mode of
\* the row, however many polls fail or are answered late.
WatcherFollowsRow == []<>(watcher.mode = guard.mode /\ ~watcher.degraded)
=============================================================================

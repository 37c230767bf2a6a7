---------------------------- MODULE OwnerStream ----------------------------
(***************************************************************************)
(* What the agent tells its owner on Telegram while it trades: the alert   *)
(* of each trade, the gate when it changes, and a digest of the passes of  *)
(* a window.  Nothing in the loop waits for it: an alert and a digest read *)
(* the funds first and go on when the answer is there, with the loop       *)
(* running meanwhile, and every message then competes for a quota.         *)
(***************************************************************************)
EXTENDS Integers, Sequences, RunningTotal

CONSTANTS
    Minute,         \* STREAM window, in ticks of the clock
    PerMinuteCap,   \* STREAM_MAX_PER_MINUTE
    DigestInterval, \* between two digests, in ticks
    GateWords,          \* what the gate may say
    MaxClock, MaxSteps  \* bounds: ticks of the clock, steps and passes

VARIABLES
    clock,      \* a tick, from 1
    sentAt,     \* the emitter's times: how many requests it notes at each tick of the last minute
    requests,   \* requests on their way to Telegram
    started,    \* how many requests were really started at each of them
    streak,     \* failures in a row
    window,     \* steps and trades since the last digest, and markets scanned
    lastFlush,  \* of the DigestThrottle; -1 before the first pass
    waiting,    \* alerts, and the passes whose digest waits for the funds
    lastGate,   \* ReportDedupe: the gate told last
    done,       \* steps, trades and markets scanned so far
    digested    \* trades and markets the digests so far have counted

streamVars == <<clock, sentAt, requests, started, streak, window, lastFlush, waiting, lastGate, done, digested>>

ASSUME StreamAssumption == MaxClock \in Nat \ {0} /\ Minute \in Nat \ {0} /\ PerMinuteCap \in Nat \ {0}

Clock == 1..MaxClock
NoWindow == [evaluated |-> 0, trades |-> 0, scanned |-> 0]
Recent(times) == [t \in Clock |-> IF t > clock - Minute THEN times[t] ELSE 0]

(***************************************************************************)
(* TelegramStreamEmitter                                                   *)
(***************************************************************************)

\* A request is counted when it is started.
Started(times) == [times EXCEPT ![clock] = @ + 1]

\* emit, up to its await: over the quota the message is dropped, for good.
Emit ==
    LET recent == Recent(sentAt)
    IN  IF Total(recent, MaxClock) >= PerMinuteCap
        THEN sentAt' = recent /\ UNCHANGED <<requests, started>>
        ELSE /\ sentAt' = Started(recent) /\ requests' = requests + 1
             /\ started' = [Recent(started) EXCEPT ![clock] = @ + 1]

\* A rejection, a timeout and an unreachable host count alike; nothing is sent again.
TelegramAnswers(ok) ==
    /\ requests > 0 /\ requests' = requests - 1
    /\ streak' = IF ok THEN 0 ELSE streak + 1
    /\ UNCHANGED <<clock, sentAt, started, window, lastFlush, waiting, lastGate, done, digested>>

(***************************************************************************)
(* The loop                                                                *)
(***************************************************************************)

\* emitStepComplete: a trade starts an alert, which reads the funds first.
StepCompletes(traded) ==
    /\ done.steps < MaxSteps
    /\ done' = [done EXCEPT !.steps = @ + 1, !.trades = @ + (IF traded THEN 1 ELSE 0)]
    /\ window' = [window EXCEPT !.evaluated = @ + 1, !.trades = @ + (IF traded THEN 1 ELSE 0)]
    /\ waiting' = [waiting EXCEPT !.alerts = @ + (IF traded THEN 1 ELSE 0)]
    /\ UNCHANGED <<clock, sentAt, requests, started, streak, lastFlush, lastGate, digested>>

\* The funds may be unreadable; the alert goes either way.
AlertGoes ==
    /\ waiting.alerts > 0 /\ waiting' = [waiting EXCEPT !.alerts = @ - 1] /\ Emit
    /\ UNCHANGED <<clock, streak, window, lastFlush, lastGate, done, digested>>

Due == lastFlush # -1 /\ clock - lastFlush >= DigestInterval
\* onUniversePass: the digest is begun, and the pass is then added to the window.
PassReported(scanned) ==
    /\ done.passes < MaxSteps
    /\ lastFlush' = IF lastFlush = -1 \/ Due THEN clock ELSE lastFlush
    /\ waiting' = IF Due THEN [waiting EXCEPT !.digests = Append(@, scanned)] ELSE waiting
    /\ window' = [window EXCEPT !.scanned = @ + scanned]
    /\ done' = [done EXCEPT !.passes = @ + 1, !.scanned = @ + scanned]
    /\ UNCHANGED <<clock, sentAt, requests, started, streak, lastGate, digested>>

DigestOf(w) == [trades |-> w.trades, scanned |-> w.scanned + Head(waiting.digests)]
\* The digest counts the window as it is when the funds are there, the pass
\* that began it once more, and empties it in the same turn.
DigestGoes ==
    /\ waiting.digests # << >> /\ waiting' = [waiting EXCEPT !.digests = Tail(@)] /\ Emit
    /\ digested' = [trades |-> digested.trades + DigestOf(window).trades, scanned |-> digested.scanned + DigestOf(window).scanned]
    /\ window' = NoWindow
    /\ UNCHANGED <<clock, streak, lastFlush, lastGate, done>>

\* emitFinancialGate: the gate is noted as told before the message is sent.
GateShown(gate) ==
    /\ gate # lastGate /\ lastGate' = gate /\ Emit
    /\ UNCHANGED <<clock, streak, window, lastFlush, waiting, done, digested>>

TimePasses ==
    /\ clock < MaxClock /\ clock' = clock + 1
    /\ UNCHANGED <<sentAt, requests, started, streak, window, lastFlush, waiting, lastGate, done, digested>>

-----------------------------------------------------------------------------

StreamInit ==
    /\ clock = 1 /\ sentAt = [t \in Clock |-> 0] /\ started = sentAt
    /\ requests = 0 /\ streak = 0 /\ window = NoWindow
    /\ lastFlush = -1 /\ waiting = [alerts |-> 0, digests |-> << >>] /\ lastGate = "none"
    /\ done = [steps |-> 0, trades |-> 0, passes |-> 0, scanned |-> 0]
    /\ digested = [trades |-> 0, scanned |-> 0]

StreamNext ==
    \/ \E ok \in BOOLEAN : TelegramAnswers(ok)
    \/ \E traded \in BOOLEAN : StepCompletes(traded)
    \/ AlertGoes \/ DigestGoes \/ PassReported(1) \/ TimePasses
    \/ \E gate \in GateWords : GateShown(gate)

-----------------------------------------------------------------------------

StreamTypeOK ==
    /\ clock \in Clock /\ Total(sentAt, MaxClock) <= PerMinuteCap
    /\ window.trades <= window.evaluated /\ window.evaluated <= done.steps

\* However many messages are begun while others wait for the funds or for
\* Telegram, no minute sees more requests started than the quota.
QuotaHolds == Total(Recent(started), MaxClock) <= PerMinuteCap

\* Every trade is counted in one digest and in one only, also when it happens
\* while a digest waits for the funds or two digests wait at once.
EveryTradeInOneDigest == digested.trades + window.trades = done.trades

\* The quota holds and no trade is told twice or to nobody.
OwnerIsTold == QuotaHolds /\ EveryTradeInOneDigest
=============================================================================

------------------------------ MODULE Executor ------------------------------
(***************************************************************************)
(* Executor.submit, reconcile and cancel (executor/src/index.ts) as        *)
(* concurrent calls over the stores they share: the executor lease, the    *)
(* single-use permits, the recovery ledger, the seen log, the reservation  *)
(* each permit draws on, and the venue.                                    *)
(*                                                                         *)
(* A call is the list `todo` of the awaits it still has to make; one step  *)
(* makes the first of them together with the synchronous code up to the    *)
(* next.  Any await of a database or the venue may fail (Fault), and a     *)
(* process may die between two of them (Crash).  Cash is counted in filled *)
(* units at price 1: decimal conversion is not modelled here.              *)
(***************************************************************************)
EXTENDS ReservationRow, RecoveryLedger, FiniteSets, Sequences

CONSTANTS
  Orders, Permits,
  PermitOf,            \* the permit_id an order is signed with
  Workers,             \* concurrent callers of the executor
  Processes,
  ProcessOf,           \* the process a worker runs in
  Size,                \* units of an order, and cash its permit reserves
  PermitTTL, LeaseTTL, \* lifetimes, in clock units
  AdapterReports,      \* the adapter fills submit_status and order_status
                       \* in, as the VenueAdapter contract allows;
                       \* PolymarketVenueAdapter does not
  CancelStateStored,   \* the ledger accepts CANCEL_UNKNOWN: the in-memory
                       \* one does, the CHECK of migration 0005 does not
  MaxSubmits,          \* bound: submissions of one order
  MaxTime,             \* bound: the clock
  MaxFailures          \* bound: crashes and failed awaits

\* claimed_order_id IS NULL
Unclaimed == "unclaimed"

ASSUME ExecutorAssumption ==
  /\ PermitOf \in [Orders -> Permits]
  /\ Unclaimed \notin Orders
  /\ ProcessOf \in [Workers -> Processes]
  /\ {Size, PermitTTL, LeaseTTL, MaxSubmits, MaxTime, MaxFailures} \subseteq Nat
  /\ {AdapterReports, CancelStateStored} \subseteq BOOLEAN

VARIABLES
  calls,       \* worker -> the call it makes
  lease,       \* expires_at of the lease row, NoLease without one
  claimed,     \* permit -> claimed_order_id of execution_permits
  ledger,      \* order -> its row of recovery_ledger
  seen,        \* process -> its mirror of the seen log
  seenLog,     \* order -> states handed to PgSeenStore.flush so far
  reservation, \* permit -> its row of `reservations`
  venue,       \* order -> the venue's own record of it
  submits,     \* order -> times it was handed to submit
  clock,
  failures

vars == <<calls, lease, claimed, ledger, seen, seenLog, reservation, venue,
          submits, clock, failures>>

NoLease == -1
NoReply == Reply(FALSE, "NONE", 0)

LedgerState == {"NOT_SEEN", "SUBMITTING", "ACKNOWLEDGED", "SUBMISSION_UNKNOWN",
                "DEFINITIVE_REJECT", "CANCEL_UNKNOWN"}
Await == {"acquire", "check", "claim", "record", "place", "state", "acked",
          "unlease", "finally", "tryAcquire", "need", "ask", "recordCancel", "askCancel",
          "resolve", "release", "count", "consume", "baseline"}

\* `then`: what the handler still does when an await throws.
\* `state`: the lifecycle state the next updateState writes.
NoCall == [kind |-> "none"]
Call == [kind : {"submit", "resubmit", "reconcile", "cancel"}, order : Orders,
         todo : Seq(Await), then : Seq(Await), state : LedgerState,
         reply : [ack : BOOLEAN, status : {"NONE", "LIVE", "MATCHED", "CANCELED", "REJECTED"},
                  filled : 0 .. Size],
         cash : 0 .. Size]

TypeOK ==
  /\ calls \in [Workers -> {NoCall} \cup Call]
  /\ lease \in {NoLease} \cup Nat
  /\ claimed \in [Permits -> Orders \cup {Unclaimed}]
  /\ ledger \in [Orders -> [exists : BOOLEAN, state : LedgerState, resolved : BOOLEAN,
                            verdict : {"NONE", "ACKNOWLEDGED", "DEFINITIVE_REJECT"},
                            counted : 0 .. Size]]
  /\ seen \in [Processes -> [Orders -> LedgerState]]
  /\ seenLog \in [Orders -> SUBSET LedgerState]
  /\ reservation \in [Permits -> [status : LiveStatus \cup TerminalStatus,
                                  intent : Permits, amount : Nat, consumed : Nat,
                                  released : Nat, expires : Nat]]
  /\ venue \in [Orders -> [status : {"NONE", "SENT", "LIVE", "MATCHED", "CANCELED"},
                           filled : 0 .. Size, sends : Nat]]
  /\ submits \in [Orders -> 0 .. MaxSubmits]
  /\ clock \in 0 .. MaxTime
  /\ failures \in 0 .. MaxFailures

\* Every permit has just been issued with the reservation that backs it.
Init ==
  /\ calls = [w \in Workers |-> NoCall]
  /\ lease = NoLease
  /\ claimed = [p \in Permits |-> Unclaimed]
  /\ ledger = [o \in Orders |-> NoRow]
  /\ seen = [q \in Processes |-> [o \in Orders |-> "NOT_SEEN"]]
  /\ seenLog = [o \in Orders |-> {}]
  /\ reservation = [p \in Permits |-> [status |-> "ACTIVE", intent |-> p, amount |-> Size,
                                       consumed |-> 0, released |-> 0, expires |-> PermitTTL]]
  /\ venue = [o \in Orders |-> [status |-> "NONE", filled |-> 0, sends |-> 0]]
  /\ submits = [o \in Orders |-> 0]
  /\ clock = 0
  /\ failures = 0

-----------------------------------------------------------------------------
\* Calls

Busy(w) == calls[w].kind # "none"
OrderOf(w) == calls[w].order
\* The await worker w makes next, if it makes `await` next.
At(w, await) == Busy(w) /\ Head(calls[w].todo) = await
Rest(w) == Tail(calls[w].todo)

\* The call goes on with `todo`, or returns when nothing is left of it.
Goes(w, call, todo) ==
  calls' = [calls EXCEPT ![w] = IF todo = <<>> THEN NoCall
                                               ELSE [call EXCEPT !.todo = todo]]
Continues(w, todo) == Goes(w, calls[w], todo)

Begins(w, kind, o, todo) ==
  calls' = [calls EXCEPT ![w] =
    [kind |-> kind, order |-> o, todo |-> todo, then |-> <<>>, state |-> "NOT_SEEN",
     reply |-> NoReply, cash |-> 0]]

Sees(w, o, state) ==
  /\ seen' = [seen EXCEPT ![ProcessOf[w]][o] = state]
  /\ seenLog' = [seenLog EXCEPT ![o] = seenLog[o] \cup {state}]
SeesNothing == UNCHANGED <<seen, seenLog>>

\* g4-core gives the reservation back when submit refused the order; it
\* hands over each permit once.  A repeated submission has no such caller.
GiveBack(w) == IF calls[w].kind = "submit" THEN <<"release">> ELSE <<>>
HandedOver(p) == \E o \in Orders : PermitOf[o] = p /\ submits[o] > 0

StartSubmit(w, o) ==
  /\ ~Busy(w)
  /\ submits[o] < MaxSubmits
  /\ submits' = [submits EXCEPT ![o] = submits[o] + 1]
  /\ Begins(w, IF HandedOver(PermitOf[o]) THEN "resubmit" ELSE "submit", o,
            <<"acquire", "check", "claim", "record", "place">>)
  /\ UNCHANGED <<lease, claimed, ledger, seen, seenLog, reservation, venue, clock, failures>>

\* reconcileOpenOrders runs over recoveryLedger.getUnresolved().
StartReconcile(w, o) ==
  /\ ~Busy(w)
  /\ NeedsReconcile(ledger[o])
  /\ Begins(w, "reconcile", o, <<"tryAcquire", "need", "ask">>)
  /\ UNCHANGED <<lease, claimed, ledger, seen, seenLog, reservation, venue, submits,
                 clock, failures>>

StartCancel(w, o) ==
  /\ ~Busy(w)
  /\ ledger[o].exists
  /\ Begins(w, "cancel", o, <<"acquire", "recordCancel", "askCancel", "unlease">>)
  /\ UNCHANGED <<lease, claimed, ledger, seen, seenLog, reservation, venue, submits,
                 clock, failures>>

-----------------------------------------------------------------------------
\* Lease

\* acquire_executor_lease: no row, or one that expired.  Every caller has the
\* same lease_epoch and the same holder (constants in main.ts), so the other
\* ways to acquire never apply and a release always finds its holder.
LeaseFree == lease < clock
TakesLease == lease' = clock + LeaseTTL

Acquire(w) ==
  /\ At(w, "acquire")
  /\ IF ~LeaseFree
     THEN Continues(w, GiveBack(w)) /\ UNCHANGED lease
     ELSE /\ TakesLease
          /\ IF calls[w].kind = "cancel"
             THEN \/ Continues(w, Rest(w))
                  \/ Continues(w, <<"unlease">>)          \* mode gate
             ELSE Goes(w, [calls[w] EXCEPT !.then = <<"finally">>], Rest(w))
  /\ UNCHANGED <<claimed, ledger, seen, seenLog, reservation, venue, submits, clock, failures>>

\* reconcile goes on without the lease, and releases it only if it has it.
TryAcquire(w) ==
  /\ At(w, "tryAcquire")
  /\ IF LeaseFree
     THEN TakesLease /\ Continues(w, Rest(w) \o <<"unlease">>)
     ELSE UNCHANGED lease /\ Continues(w, Rest(w))
  /\ UNCHANGED <<claimed, ledger, seen, seenLog, reservation, venue, submits, clock, failures>>

Unlease(w) ==
  /\ At(w, "unlease") \/ At(w, "finally")
  /\ lease' = NoLease
  /\ Continues(w, Rest(w))
  /\ UNCHANGED <<claimed, ledger, seen, seenLog, reservation, venue, submits, clock, failures>>

-----------------------------------------------------------------------------
\* submit

Permit(w) == PermitOf[OrderOf(w)]
Duplicate(w) ==
  seen[ProcessOf[w]][OrderOf(w)] \notin {"NOT_SEEN", "DEFINITIVE_REJECT"}

\* A refused submission releases the lease in `finally`, most refusals also
\* right away.
Refused(w, todo) == Continues(w, todo \o <<"finally">> \o GiveBack(w))

\* The seen log, isClaimed, the permit's expiry and the checks of the order
\* against the permit and the venue mode: reads only.
CheckSubmit(w) ==
  /\ At(w, "check")
  /\ \/ Refused(w, <<>>)
     \/ Refused(w, <<"unlease">>)
     \/ /\ ~Duplicate(w)
        /\ claimed[Permit(w)] = Unclaimed
        /\ ~PastDeadline(reservation[Permit(w)], clock)
        /\ Continues(w, Rest(w))
  /\ UNCHANGED <<lease, claimed, ledger, seen, seenLog, reservation, venue, submits, clock, failures>>

\* Slip: the claim checks the expiry only.
ClaimableWhileValid(p) == reservation[p].expires > clock

\* used_at IS NULL AND expires_at > now()
Claimable(p) == claimed[p] = Unclaimed /\ reservation[p].expires > clock

\* One transaction: claim the permit and record SUBMITTING.
ClaimPermit(w) ==
  LET o == OrderOf(w) IN
  /\ At(w, "claim")
  /\ IF Claimable(Permit(w))
     THEN /\ claimed' = [claimed EXCEPT ![Permit(w)] = o]
          /\ ledger' = [ledger EXCEPT ![o] = Upserted(ledger[o])]
          /\ Sees(w, o, "SUBMITTING")
          /\ Continues(w, Rest(w))
     ELSE Refused(w, <<"unlease">>) /\ SeesNothing /\ UNCHANGED <<claimed, ledger>>
  /\ UNCHANGED <<lease, reservation, venue, submits, clock, failures>>

RecordSubmission(w) ==
  /\ At(w, "record")
  /\ ledger' = [ledger EXCEPT ![OrderOf(w)] = Upserted(ledger[OrderOf(w)])]
  /\ Continues(w, Rest(w))
  /\ UNCHANGED <<lease, claimed, seen, seenLog, reservation, venue, submits, clock, failures>>

\* The venue got the request and has it as `status`, `filled` units done.
Sent(o, status, filled) ==
  venue' = [venue EXCEPT ![o] =
    [status |-> status, filled |-> filled, sends |-> venue[o].sends + 1]]

\* A network error that may have come after the request was written.
SentOrLost(o) == Sent(o, "SENT", 0) \/ UNCHANGED venue

Answered(w, state, reply, todo) ==
  Goes(w, [calls[w] EXCEPT !.state = state, !.reply = reply, !.cash = reply.filled], todo)

PlaceAccepted(w) ==
  LET o == OrderOf(w) IN
  \E status \in {"LIVE", "MATCHED", "CANCELED"}, filled \in 0 .. Size :
    LET reply == IF AdapterReports THEN Reply(TRUE, status, filled) ELSE NoReply IN
    /\ status = "MATCHED" <=> filled = Size
    /\ Sent(o, status, filled)
    /\ Answered(w, IF AdapterReports THEN "ACKNOWLEDGED" ELSE "SUBMITTING", reply,
         <<"acked", "unlease", "resolve">>
         \o (IF reply.filled > 0 THEN <<"consume", "baseline">> ELSE <<>>)
         \o <<"finally">>)
    /\ SeesNothing

\* VENUE_REJECTED: the seen log keeps SUBMITTING and nothing is resolved.
PlaceRejected(w) ==
  /\ Sent(OrderOf(w), "NONE", 0)
  /\ Answered(w, "DEFINITIVE_REJECT", NoReply,
              <<"state", "unlease", "release", "finally">> \o GiveBack(w))
  /\ SeesNothing

\* provedNothingSent: the connection never opened.
PlaceNotSent(w) ==
  /\ UNCHANGED venue
  /\ Sees(w, OrderOf(w), "DEFINITIVE_REJECT")
  /\ Answered(w, "DEFINITIVE_REJECT", Reply(FALSE, "REJECTED", 0),
              <<"state", "resolve", "release", "unlease", "finally">> \o GiveBack(w))

\* Slip: a timeout taken as proof that nothing was sent.
PlaceTimedOutAsNotSent(w) ==
  /\ SentOrLost(OrderOf(w))
  /\ Continues(w, <<"release", "unlease", "finally">>)
  /\ SeesNothing

PlaceTimedOut(w) ==
  /\ SentOrLost(OrderOf(w))
  /\ Continues(w, <<"unlease", "finally">>)
  /\ SeesNothing

PlaceUnknown(w) ==
  /\ SentOrLost(OrderOf(w))
  /\ Sees(w, OrderOf(w), "SUBMISSION_UNKNOWN")
  /\ Answered(w, "SUBMISSION_UNKNOWN", NoReply, <<"state", "unlease", "finally">>)

PlaceOrder(w) ==
  /\ At(w, "place")
  /\ \/ PlaceAccepted(w)
     \/ PlaceRejected(w)
     \/ PlaceNotSent(w)
     \/ PlaceTimedOut(w)
     \/ PlaceUnknown(w)
  /\ UNCHANGED <<lease, claimed, ledger, reservation, submits, clock, failures>>

\* updateState; after an acknowledgement the seen log follows it.
UpdateState(w) ==
  LET o == OrderOf(w) IN
  /\ \/ At(w, "state") /\ SeesNothing
     \/ At(w, "acked") /\ Sees(w, o, calls[w].state)
  /\ ledger' = [ledger EXCEPT ![o] = StateUpdated(ledger[o], calls[w].state)]
  /\ Continues(w, Rest(w))
  /\ UNCHANGED <<lease, claimed, reservation, venue, submits, clock, failures>>

-----------------------------------------------------------------------------
\* reconcile

\* Not needed any more: skip the question to the venue.
NeedsIt(w) ==
  /\ At(w, "need")
  /\ IF NeedsReconcile(ledger[OrderOf(w)])
     THEN Goes(w, [calls[w] EXCEPT !.then = Tail(Rest(w))], Rest(w))
     ELSE Continues(w, Tail(Rest(w)))
  /\ UNCHANGED <<lease, claimed, ledger, seen, seenLog, reservation, venue, submits, clock, failures>>

\* getOrderStatus: null for an order the venue does not have.
AskVenue(w) ==
  LET o == OrderOf(w)
      reply == Reply(AdapterReports, venue[o].status, venue[o].filled)
      Finds(state, todo) == Sees(w, o, state) /\ Answered(w, state, reply, todo \o Rest(w))
  IN
  /\ At(w, "ask")
  /\ CASE venue[o].status \in {"NONE", "SENT"} -> Continues(w, Rest(w)) /\ SeesNothing
       [] venue[o].status \in Dead -> Finds("DEFINITIVE_REJECT", <<"resolve", "release">>)
       [] venue[o].status \in {"LIVE", "MATCHED"} /\ reply.ack ->
            Finds("ACKNOWLEDGED", IF reply.filled > 0 THEN <<"count", "resolve">>
                                                      ELSE <<"resolve">>)
       [] venue[o].status \in {"LIVE", "MATCHED"} /\ ~reply.ack ->
            Continues(w, Rest(w)) /\ SeesNothing
  /\ UNCHANGED <<lease, claimed, ledger, reservation, venue, submits, clock, failures>>

\* consumeFill of a poll: the cash not counted before is spent next.
CountFill(w) ==
  LET o == OrderOf(w)
      delta == FillDelta(ledger[o], calls[w].reply.filled)
  IN
  /\ At(w, "count")
  /\ ledger' = [ledger EXCEPT ![o] = FillCounted(ledger[o], calls[w].reply.filled)]
  /\ IF delta > 0
     THEN Goes(w, [calls[w] EXCEPT !.cash = delta], <<"consume">> \o Rest(w))
     ELSE Continues(w, Rest(w))
  /\ UNCHANGED <<lease, claimed, seen, seenLog, reservation, venue, submits, clock, failures>>

-----------------------------------------------------------------------------
\* Settlement, shared by the three handlers

ResolveOrder(w) ==
  /\ At(w, "resolve")
  /\ ledger' = [ledger EXCEPT ![OrderOf(w)] = Resolved(ledger[OrderOf(w)], calls[w].reply)]
  /\ Continues(w, Rest(w))
  /\ UNCHANGED <<lease, claimed, seen, seenLog, reservation, venue, submits, clock, failures>>

\* A reservation that is not live any more refuses, and the call goes on.
ReleaseReservation(w) ==
  LET row == reservation[Permit(w)] IN
  /\ At(w, "release")
  /\ reservation' = [reservation EXCEPT ![Permit(w)] =
       IF CanRelease(row) THEN AfterRelease(row, "CANCELLED") ELSE row]
  /\ Continues(w, Rest(w))
  /\ UNCHANGED <<lease, claimed, ledger, seen, seenLog, venue, submits, clock, failures>>

ConsumeReservation(w) ==
  LET row == reservation[Permit(w)] IN
  /\ At(w, "consume")
  /\ reservation' = [reservation EXCEPT ![Permit(w)] =
       IF CanConsume(row, calls[w].cash, clock) THEN AfterConsume(row, calls[w].cash) ELSE row]
  /\ Continues(w, Rest(w))
  /\ UNCHANGED <<lease, claimed, ledger, seen, seenLog, venue, submits, clock, failures>>

\* Slip: submit consumes its fill and leaves the counter at zero.
SkipBaseline(w) ==
  /\ At(w, "baseline")
  /\ Continues(w, Rest(w))
  /\ UNCHANGED <<lease, claimed, ledger, seen, seenLog, reservation, venue, submits, clock, failures>>

\* submit counts the fill it has just consumed, so that no poll does.
RecordBaseline(w) ==
  LET o == OrderOf(w) IN
  /\ At(w, "baseline")
  /\ ledger' = [ledger EXCEPT ![o] = FillCounted(ledger[o], calls[w].reply.filled)]
  /\ Continues(w, Rest(w))
  /\ UNCHANGED <<lease, claimed, seen, seenLog, reservation, venue, submits, clock, failures>>

-----------------------------------------------------------------------------
\* cancel

\* Where the table refuses CANCEL_UNKNOWN the statement throws, and with it
\* cancel, which has no `finally`: the lease stays until it expires.
RecordCancel(w) ==
  LET o == OrderOf(w) IN
  /\ At(w, "recordCancel")
  /\ IF CancelStateStored \/ ~NeedsReconcile(ledger[o])
     THEN ledger' = [ledger EXCEPT ![o] = CancelRequested(ledger[o])] /\ Continues(w, Rest(w))
     ELSE UNCHANGED ledger /\ Continues(w, <<>>)
  /\ UNCHANGED <<lease, claimed, seen, seenLog, reservation, venue, submits, clock, failures>>

\* adapter.cancelOrder: confirmed, done but the answer lost, or refused.
AskCancel(w) ==
  LET o == OrderOf(w)
      canceled == [venue EXCEPT ![o].status = "CANCELED"]
  IN
  /\ At(w, "askCancel")
  /\ \/ /\ venue[o].status = "LIVE"
        /\ venue' = canceled
        /\ Goes(w, [calls[w] EXCEPT !.reply = Reply(FALSE, "CANCELED", 0), !.then = Rest(w)],
                <<"resolve", "release">> \o Rest(w))
     \/ /\ venue[o].status = "LIVE"
        /\ venue' = canceled
        /\ Continues(w, Rest(w))
     \/ UNCHANGED venue /\ Continues(w, Rest(w))
  /\ UNCHANGED <<lease, claimed, ledger, seen, seenLog, reservation, submits, clock, failures>>

-----------------------------------------------------------------------------
\* Failures

\* Awaits whose failure is logged and swallowed.
BestEffort == {"release", "consume", "baseline", "count", "finally"}

\* An await throws before it has an effect.  The adapter turns its own
\* network errors into answers.
Fault(w) ==
  /\ failures < MaxFailures
  /\ failures' = failures + 1
  /\ Busy(w)
  /\ ~At(w, "place") /\ ~At(w, "askCancel")
  /\ CASE Head(calls[w].todo) \in BestEffort -> Continues(w, Rest(w))
       [] At(w, "need") -> Continues(w, Tail(Rest(w)))
       [] OTHER -> Goes(w, [calls[w] EXCEPT !.then = <<>>], calls[w].then)
  /\ UNCHANGED <<lease, claimed, ledger, seen, seenLog, reservation, venue, submits, clock>>

\* A process dies and starts again.  hydrate() reads what flush() had written
\* of an order by then, the last states perhaps not, and then the unresolved
\* rows of the ledger.
Crash(q) ==
  /\ failures < MaxFailures
  /\ failures' = failures + 1
  /\ calls' = [w \in Workers |-> IF ProcessOf[w] = q THEN NoCall ELSE calls[w]]
  /\ \E flushed \in [Orders -> LedgerState] :
       /\ \A o \in Orders : flushed[o] \in seenLog[o] \cup {"NOT_SEEN"}
       /\ seen' = [seen EXCEPT ![q] = [o \in Orders |->
            IF NeedsReconcile(ledger[o]) THEN ledger[o].state ELSE flushed[o]]]
  /\ UNCHANGED <<lease, claimed, ledger, seenLog, reservation, venue, submits, clock>>

-----------------------------------------------------------------------------
\* Environment

\* The reservation expiry job does not look at the venue.
ExpireReservation(p) ==
  /\ Overdue(reservation[p], clock)
  /\ CanRelease(reservation[p])
  /\ reservation' = [reservation EXCEPT ![p] = AfterRelease(reservation[p], "EXPIRED")]
  /\ UNCHANGED <<calls, lease, claimed, ledger, seen, seenLog, venue, submits, clock, failures>>

\* The venue: a request on the wire arrives or does not, an order fills, the
\* venue drops it (market closed, order expired).
VenueChanges(o, status, filled) ==
  /\ venue' = [venue EXCEPT ![o].status = status, ![o].filled = filled]
  /\ UNCHANGED <<calls, lease, claimed, ledger, seen, seenLog, reservation, submits, clock, failures>>
VenueReceives(o) ==
  venue[o].status = "SENT" /\ \E status \in {"LIVE", "NONE"} : VenueChanges(o, status, 0)
VenueFills(o) ==
  /\ venue[o].status = "LIVE"
  /\ \E filled \in venue[o].filled + 1 .. Size :
       VenueChanges(o, IF filled = Size THEN "MATCHED" ELSE "LIVE", filled)
VenueCancels(o) == venue[o].status = "LIVE" /\ VenueChanges(o, "CANCELED", venue[o].filled)

Tick ==
  /\ clock < MaxTime
  /\ clock' = clock + 1
  /\ UNCHANGED <<calls, lease, claimed, ledger, seen, seenLog, reservation, venue, submits, failures>>

Advance(w) ==
  \/ Acquire(w)
  \/ TryAcquire(w)
  \/ Unlease(w)
  \/ CheckSubmit(w)
  \/ ClaimPermit(w)
  \/ RecordSubmission(w)
  \/ PlaceOrder(w)
  \/ UpdateState(w)
  \/ NeedsIt(w)
  \/ AskVenue(w)
  \/ CountFill(w)
  \/ ResolveOrder(w)
  \/ ReleaseReservation(w)
  \/ ConsumeReservation(w)
  \/ RecordBaseline(w)
  \/ RecordCancel(w)
  \/ AskCancel(w)

Next ==
  \/ \E w \in Workers, o \in Orders : StartSubmit(w, o)
  \/ \E w \in Workers, o \in Orders : StartReconcile(w, o)
  \/ \E w \in Workers, o \in Orders : StartCancel(w, o)
  \/ \E w \in Workers : Advance(w)
  \/ \E w \in Workers : Fault(w)
  \/ \E q \in Processes : Crash(q)
  \/ \E p \in Permits : ExpireReservation(p)
  \/ \E o \in Orders : VenueReceives(o)
  \/ \E o \in Orders : VenueFills(o)
  \/ \E o \in Orders : VenueCancels(o)
  \/ Tick

Spec == Init /\ [][Next]_vars

\* A call that began goes on; every worker polls each open order again and
\* again.
FairSpec ==
  /\ Spec
  /\ \A w \in Workers : WF_vars(Advance(w))
  /\ \A w \in Workers, o \in Orders : SF_vars(StartReconcile(w, o))

-----------------------------------------------------------------------------
OrdersOf(p) == {o \in Orders : PermitOf[o] = p}
OpenAtVenue(o) == venue[o].status \in {"SENT", "LIVE"}

(***************************************************************************)
(* Submit exactly once: whatever is submitted again, by whom, and wherever *)
(* a process dies, no second order of a permit reaches the venue.          *)
(***************************************************************************)
PermitSpentOnce ==
  \A p \in Permits, o1, o2 \in Orders :
    PermitOf[o1] = p /\ PermitOf[o2] = p /\ venue[o1].sends > 0 /\ venue[o2].sends > 0
      => o1 = o2 /\ venue[o1].sends = 1

(***************************************************************************)
(* The recovery ledger closes an order only with what became of it: it is  *)
(* ACKNOWLEDGED and resolved when the venue matched it all, rejected and   *)
(* resolved when the venue does not have it or cancelled it.  No answer of *)
(* another call, however old, makes it close an order that still rests.    *)
(***************************************************************************)
VerdictMatchesVenue ==
  \A o \in Orders : ledger[o].resolved =>
    venue[o].status \in CASE ledger[o].verdict = "ACKNOWLEDGED" -> {"MATCHED"}
                          [] OTHER -> {"NONE", "CANCELED"}

(***************************************************************************)
(* Nothing but the expiry job takes the cash from under an order that is   *)
(* open at the venue: not a lost answer, not a refusal, not a restart, as  *)
(* long as its permit is handed over once.                                 *)
(***************************************************************************)
HandedOverOnce(p) == \A o1, o2 \in OrdersOf(p) :
  submits[o1] > 0 /\ submits[o2] > 0 => o1 = o2 /\ submits[o1] = 1
OpenOrderKeepsItsCash ==
  \A o \in Orders : OpenAtVenue(o) /\ HandedOverOnce(PermitOf[o])
    => reservation[PermitOf[o]].status # "RELEASED"

(***************************************************************************)
(* The life of an order (OrderLife): its permit is spent once and for      *)
(* good, the venue is asked once, and what the ledger closes it with is    *)
(* what became of it and is never taken back or written over.              *)
(***************************************************************************)
FateOf(o) == IF venue[o].sends = 0 THEN "UNASKED" ELSE venue[o].status
Written(o) == IF ledger[o].resolved THEN ledger[o].verdict ELSE "NONE"
Life == INSTANCE OrderLife WITH holder <- claimed, fate <- [o \in Orders |-> FateOf(o)],
                                verdict <- [o \in Orders |-> Written(o)]
ExecutorImplementsLife == Life!LifeSpec

(***************************************************************************)
(* An order the venue is done with is closed in the ledger in the end,     *)
(* though answers are lost, awaits fail and processes restart.             *)
(***************************************************************************)
TerminalOrdersSettle ==
  \A o \in Orders : venue[o].status \in {"MATCHED", "CANCELED"} ~> ledger[o].resolved

(***************************************************************************)
(* "consume post-submit fills exactly once ... replays consume zero"       *)
(* (reconcile): a permit never spends more than its order filled.          *)
(***************************************************************************)
FillsConsumedOnce ==
  \A o \in Orders : claimed[PermitOf[o]] = o
    => reservation[PermitOf[o]].consumed <= venue[o].filled

(***************************************************************************)
(* With one caller, between its calls and while no await has failed, the   *)
(* fills counted in the ledger are the fills spent from the reservation,   *)
(* whether submit or a poll saw them first, as long as consume() may still *)
(* accept them.  (Two callers may both spend a fill: FillsConsumedOnce.)   *)
(***************************************************************************)
Quiet == \A w \in Workers : ~Busy(w)
ConsumeMayAccept(row) ==
  ~PastDeadline(row, clock) /\ row.status \in LiveStatus \cup {"CONSUMED"}
CountedFillsAreSpent ==
  \A o \in Orders : LET row == reservation[PermitOf[o]] IN
    Quiet /\ failures = 0 /\ claimed[PermitOf[o]] = o /\ ConsumeMayAccept(row)
      => row.consumed = ledger[o].counted

(***************************************************************************)
(* cancel(): "release() only returns reserved-minus-consumed, so partially *)
(* filled orders keep their filled portion consumed".  Once an order is    *)
(* closed, its reservation has paid for all that filled.                   *)
(***************************************************************************)
SettledFillsArePaid ==
  \A o \in Orders : Quiet /\ ledger[o].resolved
    => reservation[PermitOf[o]].consumed >= venue[o].filled

(***************************************************************************)
(* submit(): "only the current lease holder may submit. This prevents      *)
(* split-brain": no two calls are about to place an order.                 *)
(***************************************************************************)
OneSubmitterAtATime ==
  \A v, w \in Workers : At(v, "place") /\ At(w, "place") => v = w

(***************************************************************************)
(* resolve(): LIVE and PARTIAL "are NOT terminal ... keep resolved=false   *)
(* so reconciliation keeps polling".                                       *)
(***************************************************************************)
RestingOrderIsPolled == \A o \in Orders : venue[o].status = "LIVE" => NeedsReconcile(ledger[o])
=============================================================================

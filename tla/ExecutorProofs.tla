-------------------------- MODULE ExecutorProofs ---------------------------
(***************************************************************************)
(* What the executor promises of an order, for any number of orders,       *)
(* permits, workers and processes, and whatever they lose on the way.      *)
(***************************************************************************)
EXTENDS Executor, SequenceTheorems, TLAPS

(***************************************************************************)
(* The awaits a call may still have to make.  The three handlers begin     *)
(* with steps of their own; what follows them only settles the order.      *)
(***************************************************************************)
Settling == {"state", "acked", "unlease", "finally", "resolve", "release", "count",
             "consume", "baseline"}
SubmitSteps == {<<"acquire", "check", "claim", "record", "place">>,
                <<"check", "claim", "record", "place">>, <<"claim", "record", "place">>,
                <<"record", "place">>, <<"place">>}
PollSteps == {<<"tryAcquire", "need", "ask">>, <<"need", "ask">>, <<"need", "ask", "unlease">>,
              <<"ask">>, <<"ask", "unlease">>}
CancelSteps == {<<"acquire", "recordCancel", "askCancel", "unlease">>,
                <<"recordCancel", "askCancel", "unlease">>, <<"askCancel", "unlease">>}
Steps == SubmitSteps \cup PollSteps \cup CancelSteps

InOrder(c) ==
  /\ c.then \in Seq({"unlease", "finally"})
  /\ c.todo # <<>>
  /\ c.todo \in Steps \cup Seq(Settling)
  /\ c.todo \in PollSteps \cup CancelSteps => c.kind # "submit"

CallsTyped ==
  /\ calls \in [Workers -> {NoCall} \cup Call]
  /\ \A w \in Workers : Busy(w) => InOrder(calls[w])

On(w, o) == Busy(w) /\ OrderOf(w) = o
\* What a call may still do to its order.
MayPlace(w) == Busy(w) /\ calls[w].todo \in SubmitSteps
Placing(w) == Busy(w) /\ calls[w].todo \in {<<"record", "place">>, <<"place">>}
MayResolve(w) == Busy(w) /\ calls[w].todo \notin Seq(Await \ {"resolve"})
MayRelease(w) == Busy(w) /\ calls[w].todo \notin Seq(Await \ {"release"})

(***************************************************************************)
(* An order is placed by the one call that claimed its permit for it.      *)
(***************************************************************************)
PlacedByClaimant ==
  /\ \A w \in Workers : Placing(w) =>
       claimed[Permit(w)] = OrderOf(w) /\ venue[OrderOf(w)].sends = 0
  /\ \A v, w \in Workers : Placing(v) /\ Placing(w) /\ OrderOf(v) = OrderOf(w) => v = w
  /\ \A o \in Orders : venue[o].sends > 0 => claimed[PermitOf[o]] = o /\ venue[o].sends = 1
  /\ \A o \in Orders : venue[o].sends = 0 => venue[o].status = "NONE"

(***************************************************************************)
(* What a call will write as the verdict on its order is true for good.    *)
(***************************************************************************)
Over(o) ==
  \/ venue[o].status = "CANCELED"
  \/ /\ venue[o].status = "NONE"
     /\ claimed[PermitOf[o]] # Unclaimed
     /\ \A w \in Workers : ~(Placing(w) /\ OrderOf(w) = o)
VerdictHolds(o, verdict) ==
  IF verdict = "ACKNOWLEDGED" THEN venue[o].status = "MATCHED" ELSE Over(o)
VerdictsAreFinal ==
  /\ \A w \in Workers : MayResolve(w) =>
       calls[w].reply.status \in Resting \/ VerdictHolds(OrderOf(w), Verdict(calls[w].reply))
  /\ \A o \in Orders : ledger[o].resolved => VerdictHolds(o, ledger[o].verdict)

(***************************************************************************)
(* The cash of a permit that is handed over once is given back when its    *)
(* order cannot be open any more.                                          *)
(***************************************************************************)
Gone(o) ==
  \/ venue[o].status \in {"MATCHED", "CANCELED"}
  \/ /\ venue[o].status = "NONE"
     /\ \A w \in Workers : ~(MayPlace(w) /\ OrderOf(w) = o)
Submitted == 
  /\ \A w \in Workers : Busy(w) => submits[OrderOf(w)] > 0
  /\ \A o \in Orders : ledger[o].exists \/ venue[o].sends > 0 => submits[o] > 0
  /\ \A p \in Permits : reservation[p].status = "RELEASED" => HandedOver(p)
ReleasedWhenGone ==
  \A o \in Orders : submits[o] > 0 /\ HandedOverOnce(PermitOf[o]) =>
    /\ \A w \in Workers : MayPlace(w) /\ OrderOf(w) = o => venue[o].sends = 0
    /\ \A v, w \in Workers :
         MayPlace(v) /\ MayPlace(w) /\ OrderOf(v) = o /\ OrderOf(w) = o => v = w
    /\ \A w \in Workers : MayRelease(w) /\ OrderOf(w) = o => Gone(o)
    /\ reservation[PermitOf[o]].status = "RELEASED" => Gone(o)

(***************************************************************************)
(* Sequences of awaits                                                     *)
(***************************************************************************)

LEMMA Awaits ==
  /\ Settling \subseteq Await /\ {"unlease", "finally"} \subseteq Settling
  /\ Settling \cap {"acquire", "check", "claim", "record", "place", "tryAcquire", "need", "ask",
                    "recordCancel", "askCancel"} = {}
  BY DEF Settling, Await

\* What follows the first step of a submission, of a poll and of a cancellation.
LEMMA SubmitOrder ==
  /\ Head(<<"acquire", "check", "claim", "record", "place">>) = "acquire"
  /\ Tail(<<"acquire", "check", "claim", "record", "place">>)
       = <<"check", "claim", "record", "place">>
  /\ Head(<<"check", "claim", "record", "place">>) = "check"
  /\ Tail(<<"check", "claim", "record", "place">>) = <<"claim", "record", "place">>
  /\ Head(<<"claim", "record", "place">>) = "claim"
  /\ Tail(<<"claim", "record", "place">>) = <<"record", "place">>
  /\ Head(<<"record", "place">>) = "record" /\ Tail(<<"record", "place">>) = <<"place">>
  /\ Head(<<"place">>) = "place" /\ Tail(<<"place">>) = <<>>
<1>1. /\ Head(<<"acquire", "check", "claim", "record", "place">>) = "acquire"
      /\ Tail(<<"acquire", "check", "claim", "record", "place">>)
           = <<"check", "claim", "record", "place">>
  OBVIOUS
<1>2. /\ Head(<<"check", "claim", "record", "place">>) = "check"
      /\ Tail(<<"check", "claim", "record", "place">>) = <<"claim", "record", "place">>
  OBVIOUS
<1>3. /\ Head(<<"claim", "record", "place">>) = "claim"
      /\ Tail(<<"claim", "record", "place">>) = <<"record", "place">>
  OBVIOUS
<1>4. Head(<<"record", "place">>) = "record" /\ Tail(<<"record", "place">>) = <<"place">>
  OBVIOUS
<1>5. Head(<<"place">>) = "place" /\ Tail(<<"place">>) = <<>>
  OBVIOUS
<1> QED BY <1>1, <1>2, <1>3, <1>4, <1>5

LEMMA PollOrder ==
  /\ Head(<<"tryAcquire", "need", "ask">>) = "tryAcquire"
  /\ Tail(<<"tryAcquire", "need", "ask">>) = <<"need", "ask">>
  /\ Head(<<"need", "ask">>) = "need" /\ Tail(<<"need", "ask">>) = <<"ask">>
  /\ Head(<<"need", "ask", "unlease">>) = "need"
  /\ Tail(<<"need", "ask", "unlease">>) = <<"ask", "unlease">>
  /\ Head(<<"ask">>) = "ask" /\ Tail(<<"ask">>) = <<>>
  /\ Head(<<"ask", "unlease">>) = "ask" /\ Tail(<<"ask", "unlease">>) = <<"unlease">>
  /\ <<"need", "ask">> \o <<"unlease">> = <<"need", "ask", "unlease">>
<1>1. /\ Head(<<"tryAcquire", "need", "ask">>) = "tryAcquire"
      /\ Tail(<<"tryAcquire", "need", "ask">>) = <<"need", "ask">>
  OBVIOUS
<1>2. Head(<<"need", "ask">>) = "need" /\ Tail(<<"need", "ask">>) = <<"ask">>
  OBVIOUS
<1>3. /\ Head(<<"need", "ask", "unlease">>) = "need"
      /\ Tail(<<"need", "ask", "unlease">>) = <<"ask", "unlease">>
  OBVIOUS
<1>4. Head(<<"ask">>) = "ask" /\ Tail(<<"ask">>) = <<>>
  OBVIOUS
<1>5. Head(<<"ask", "unlease">>) = "ask" /\ Tail(<<"ask", "unlease">>) = <<"unlease">>
  OBVIOUS
<1>6. <<"need", "ask">> \o <<"unlease">> = <<"need", "ask", "unlease">>
  <2> DEFINE s == <<"need", "ask">> \o <<"unlease">>
             t == <<"need", "ask", "unlease">>
  <2>1. s \in Seq(Await) /\ Len(s) = 3 /\ s[1] = "need" /\ s[2] = "ask" /\ s[3] = "unlease"
    <3>1. <<"need", "ask">> \in Seq(Await) /\ <<"unlease">> \in Seq(Await)
      BY DEF Await
    <3> QED BY <3>1, ConcatProperties
  <2>2. t \in Seq(Await) /\ Len(t) = 3 /\ t[1] = "need" /\ t[2] = "ask" /\ t[3] = "unlease"
    BY DEF Await
  <2>3. \A i \in 1..3 : s[i] = t[i]
    BY <2>1, <2>2
  <2> HIDE DEF s, t
  <2>4. s = t
    BY <2>1, <2>2, <2>3, SeqEqual
  <2> QED BY <2>4 DEF s, t
<1> QED BY <1>1, <1>2, <1>3, <1>4, <1>5, <1>6

LEMMA CancelOrder ==
  /\ Head(<<"acquire", "recordCancel", "askCancel", "unlease">>) = "acquire"
  /\ Tail(<<"acquire", "recordCancel", "askCancel", "unlease">>)
       = <<"recordCancel", "askCancel", "unlease">>
  /\ Head(<<"recordCancel", "askCancel", "unlease">>) = "recordCancel"
  /\ Tail(<<"recordCancel", "askCancel", "unlease">>) = <<"askCancel", "unlease">>
  /\ Head(<<"askCancel", "unlease">>) = "askCancel"
  /\ Tail(<<"askCancel", "unlease">>) = <<"unlease">>
<1>1. /\ Head(<<"acquire", "recordCancel", "askCancel", "unlease">>) = "acquire"
      /\ Tail(<<"acquire", "recordCancel", "askCancel", "unlease">>)
           = <<"recordCancel", "askCancel", "unlease">>
  OBVIOUS
<1>2. /\ Head(<<"recordCancel", "askCancel", "unlease">>) = "recordCancel"
      /\ Tail(<<"recordCancel", "askCancel", "unlease">>) = <<"askCancel", "unlease">>
  OBVIOUS
<1>3. /\ Head(<<"askCancel", "unlease">>) = "askCancel"
      /\ Tail(<<"askCancel", "unlease">>) = <<"unlease">>
  OBVIOUS
<1> QED BY <1>1, <1>2, <1>3

LEMMA StepsAreAwaits == Steps \subseteq Seq(Await)
<1> SUFFICES ASSUME NEW s \in Steps PROVE s \in Seq(Await)
  OBVIOUS
<1>1. CASE s \in SubmitSteps
  <2>1. CASE s = <<"acquire", "check", "claim", "record", "place">>
    BY <2>1 DEF Await
  <2>2. CASE s = <<"check", "claim", "record", "place">>
    BY <2>2 DEF Await
  <2>3. CASE s = <<"claim", "record", "place">>
    BY <2>3 DEF Await
  <2>4. CASE s = <<"record", "place">>
    BY <2>4 DEF Await
  <2>5. CASE s = <<"place">>
    BY <2>5 DEF Await
  <2> QED BY <1>1, <2>1, <2>2, <2>3, <2>4, <2>5 DEF SubmitSteps
<1>2. CASE s \in PollSteps
  <2>1. CASE s = <<"tryAcquire", "need", "ask">>
    BY <2>1 DEF Await
  <2>2. CASE s = <<"need", "ask">>
    BY <2>2 DEF Await
  <2>5. CASE s = <<"ask">>
    BY <2>5 DEF Await
  <2>3. CASE s = <<"need", "ask", "unlease">>
    BY <2>3 DEF Await
  <2>4. CASE s = <<"ask", "unlease">>
    BY <2>4 DEF Await
  <2> QED BY <1>2, <2>1, <2>2, <2>3, <2>4, <2>5 DEF PollSteps
<1>3. CASE s \in CancelSteps
  <2>1. CASE s = <<"acquire", "recordCancel", "askCancel", "unlease">>
    BY <2>1 DEF Await
  <2>2. CASE s = <<"recordCancel", "askCancel", "unlease">>
    BY <2>2 DEF Await
  <2>3. CASE s = <<"askCancel", "unlease">>
    BY <2>3 DEF Await
  <2> QED BY <1>3, <2>1, <2>2, <2>3 DEF CancelSteps
<1> QED BY <1>1, <1>2, <1>3 DEF Steps

\* The first of the awaits says which of the steps are left.
LEMMA FirstStep ==
  ASSUME NEW s \in Steps
  PROVE  /\ s # <<>> /\ Head(s) \notin Settling
         /\ Head(s) = "acquire" => Tail(s) \in {<<"check", "claim", "record", "place">>,
                                                <<"recordCancel", "askCancel", "unlease">>}
         /\ Head(s) = "check" => s \in SubmitSteps /\ Tail(s) = <<"claim", "record", "place">>
         /\ Head(s) = "claim" => s \in SubmitSteps /\ Tail(s) = <<"record", "place">>
         /\ Head(s) = "record" => s = <<"record", "place">> /\ Tail(s) = <<"place">>
         /\ Head(s) = "place" => s = <<"place">>
         /\ Head(s) = "tryAcquire" => Tail(s) = <<"need", "ask">>
         /\ Head(s) = "need" => Tail(s) \in {<<"ask">>, <<"ask", "unlease">>}
         /\ Head(s) = "ask" => Tail(s) \in {<<>>, <<"unlease">>}
         /\ Head(s) = "recordCancel" => Tail(s) = <<"askCancel", "unlease">>
         /\ Head(s) = "askCancel" => Tail(s) = <<"unlease">>
<1>1. CASE s \in SubmitSteps
  <2>1. CASE s = <<"acquire", "check", "claim", "record", "place">>
    BY <2>1, SubmitOrder DEF Settling, SubmitSteps
  <2>2. CASE s = <<"check", "claim", "record", "place">>
    BY <2>2, SubmitOrder DEF Settling, SubmitSteps
  <2>3. CASE s = <<"claim", "record", "place">>
    BY <2>3, SubmitOrder DEF Settling, SubmitSteps
  <2>4. CASE s = <<"record", "place">>
    BY <2>4, SubmitOrder DEF Settling, SubmitSteps
  <2>5. CASE s = <<"place">>
    BY <2>5, SubmitOrder DEF Settling, SubmitSteps
  <2> QED BY <1>1, <2>1, <2>2, <2>3, <2>4, <2>5 DEF SubmitSteps
<1>2. CASE s \in PollSteps
  <2>1. CASE s = <<"tryAcquire", "need", "ask">>
    BY <2>1, PollOrder DEF Settling, SubmitSteps
  <2>2. CASE s = <<"need", "ask">>
    BY <2>2, PollOrder DEF Settling, SubmitSteps
  <2>3. CASE s = <<"need", "ask", "unlease">>
    BY <2>3, PollOrder DEF Settling, SubmitSteps
  <2>4. CASE s = <<"ask">>
    BY <2>4, PollOrder DEF Settling, SubmitSteps
  <2>5. CASE s = <<"ask", "unlease">>
    BY <2>5, PollOrder DEF Settling, SubmitSteps
  <2> QED BY <1>2, <2>1, <2>2, <2>3, <2>4, <2>5 DEF PollSteps
<1>3. CASE s \in CancelSteps
  <2>1. CASE s = <<"acquire", "recordCancel", "askCancel", "unlease">>
    BY <2>1, CancelOrder DEF Settling, SubmitSteps
  <2>2. CASE s = <<"recordCancel", "askCancel", "unlease">>
    BY <2>2, CancelOrder DEF Settling, SubmitSteps
  <2>3. CASE s = <<"askCancel", "unlease">>
    BY <2>3, CancelOrder DEF Settling, SubmitSteps
  <2> QED BY <1>3, <2>1, <2>2, <2>3 DEF CancelSteps
<1> QED BY <1>1, <1>2, <1>3 DEF Steps

LEMMA SeqRest ==
  ASSUME NEW S, NEW s \in Seq(S), s # <<>>
  PROVE  Head(s) \in S /\ Tail(s) \in Seq(S)
  OBVIOUS

LEMMA SeqWider ==
  ASSUME NEW S, NEW T, S \subseteq T
  PROVE  Seq(S) \subseteq Seq(T)
  OBVIOUS

LEMMA SeqJoined ==
  ASSUME NEW S, NEW s \in Seq(S), NEW t \in Seq(S)
  PROVE  s \o t \in Seq(S) /\ (s # <<>> => s \o t # <<>>)
  OBVIOUS

\* Nothing that only settles an order is a step of a handler.
LEMMA SettlingOnly ==
  ASSUME NEW s \in Seq(Settling)
  PROVE  s \in Seq(Await) /\ s \notin Steps
<1>1. s \notin Steps
  BY FirstStep, SeqRest
<1> QED BY <1>1, Awaits, SeqWider

(***************************************************************************)
(* One step of a call                                                      *)
(***************************************************************************)

\* The call of w goes on with `todo`; the other calls stay.
LEMMA GoesOn ==
  ASSUME CallsTyped, NEW w \in Workers, NEW c \in Call, c.then \in Seq({"unlease", "finally"}),
         NEW todo \in {<<>>} \cup Steps \cup Seq(Settling), Goes(w, c, todo),
         todo \in PollSteps \cup CancelSteps => c.kind # "submit"
  PROVE  /\ CallsTyped'
         /\ \A v \in Workers : v # w => calls'[v] = calls[v]
         /\ todo = <<>> => ~Busy(w)'
         /\ todo # <<>> => /\ Busy(w)' /\ calls'[w].todo = todo
                           /\ OrderOf(w)' = c.order /\ calls'[w].reply = c.reply
<1> DEFINE d == [c EXCEPT !.todo = todo]
<1>1. todo \in Seq(Await)
  BY StepsAreAwaits, SettlingOnly, EmptySeq
<1>2. /\ d \in Call /\ d.todo = todo /\ d.order = c.order /\ d.reply = c.reply
      /\ d.then = c.then /\ d.kind = c.kind /\ d.kind # "none"
  <2>1. d \in Call
    BY <1>1 DEF Call
  <2>2. d.todo = todo /\ d.order = c.order /\ d.reply = c.reply /\ d.then = c.then
      /\ d.kind = c.kind
    BY <1>1 DEF Call
  <2>3. d.kind # "none"
    BY <2>1 DEF Call
  <2> QED BY <2>1, <2>2, <2>3
<1>3. NoCall.kind = "none"
  BY DEF NoCall
<1> HIDE DEF d
<1>4. calls' = [calls EXCEPT ![w] = IF todo = <<>> THEN NoCall ELSE d]
  BY DEF Goes, d
<1>5. calls \in [Workers -> {NoCall} \cup Call]
  BY DEF CallsTyped
<1>6. /\ calls' \in [Workers -> {NoCall} \cup Call]
      /\ \A v \in Workers : v # w => calls'[v] = calls[v]
      /\ todo = <<>> => calls'[w] = NoCall
      /\ todo # <<>> => calls'[w] = d
  BY <1>2, <1>4, <1>5
<1>7. ASSUME NEW v \in Workers, Busy(v)' PROVE InOrder(calls[v])'
  <2>1. CASE v = w
    <3>1. todo # <<>> /\ calls'[w] = d
      BY <1>3, <1>6, <1>7, <2>1 DEF Busy
    <3> QED BY <1>2, <2>1, <3>1 DEF InOrder
  <2>2. CASE v # w
    BY <1>6, <1>7, <2>2 DEF CallsTyped, Busy, InOrder
  <2> QED BY <2>1, <2>2
<1> QED BY <1>2, <1>3, <1>6, <1>7 DEF CallsTyped, Busy, OrderOf

LEMMA CallFacts ==
  ASSUME CallsTyped, NEW w \in Workers, Busy(w)
  PROVE  /\ calls[w] \in Call /\ OrderOf(w) \in Orders /\ Permit(w) \in Permits
         /\ calls[w].then \in Seq({"unlease", "finally"})
         /\ calls[w].todo # <<>> /\ calls[w].todo \in Steps \cup Seq(Settling)
         /\ Head(calls[w].todo) \in Settling => calls[w].todo \in Seq(Settling)
         /\ Head(calls[w].todo) \notin Settling => calls[w].todo \in Steps
         /\ calls[w].todo \in PollSteps \cup CancelSteps => calls[w].kind # "submit"
<1>1. calls[w] \in Call
  BY DEF CallsTyped, Busy, NoCall
<1>2. OrderOf(w) \in Orders /\ Permit(w) \in Permits
  BY <1>1, ExecutorAssumption DEF Call, OrderOf, Permit
<1>3. InOrder(calls[w])
  BY DEF CallsTyped
<1> QED BY <1>1, <1>2, <1>3, FirstStep, SeqRest DEF InOrder

\* A call with the order, the answer and the last wishes of the call of w.
Follows(c, w) ==
  /\ c \in Call /\ c.order = OrderOf(w) /\ c.kind = calls[w].kind
  /\ c.then \in Seq({"unlease", "finally"})

\* The step leaves the other calls, and w with its order.
Own(w) ==
  /\ CallsTyped'
  /\ \A v \in Workers : v # w => calls'[v] = calls[v]
  /\ Busy(w)' => Busy(w) /\ OrderOf(w)' = OrderOf(w)
\* ... and does not let it do to its order what it could not do before.
Moves(w) ==
  /\ Own(w)
  /\ MayPlace(w)' => MayPlace(w)
  /\ Placing(w)' => (Placing(w) \/ At(w, "claim")) /\ ~At(w, "place")
  /\ MayResolve(w)' => MayResolve(w) /\ calls'[w].reply = calls[w].reply
  /\ MayRelease(w)' => MayRelease(w)
\* ... and the call is done with the steps of its handler.
Settles(w) == Own(w) /\ ~MayPlace(w)' /\ ~Placing(w)'

LEMMA RestTyped ==
  ASSUME CallsTyped, NEW w \in Workers, Busy(w)
  PROVE  /\ Rest(w) \in {<<>>} \cup Steps \cup Seq(Settling)
         /\ Rest(w) \in SubmitSteps => calls[w].todo \in SubmitSteps
         /\ Rest(w) \in PollSteps \cup CancelSteps =>
              calls[w].todo \in PollSteps \cup CancelSteps
         /\ Rest(w) \in {<<"record", "place">>, <<"place">>} =>
              /\ calls[w].todo = <<"record", "place">> \/ Head(calls[w].todo) = "claim"
              /\ Head(calls[w].todo) # "place"
<1> DEFINE s == calls[w].todo
<1>1. CASE s \in Seq(Settling)
  BY <1>1, CallFacts, SeqRest, SettlingOnly, FirstStep DEF Rest, Steps, SubmitSteps
<1>2. CASE s \in SubmitSteps
  <2>1. CASE s = <<"acquire", "check", "claim", "record", "place">>
    BY <2>1, <1>2, SubmitOrder DEF Rest, Steps, SubmitSteps, PollSteps, CancelSteps, Settling
  <2>2. CASE s = <<"check", "claim", "record", "place">>
    BY <2>2, <1>2, SubmitOrder DEF Rest, Steps, SubmitSteps, PollSteps, CancelSteps, Settling
  <2>3. CASE s = <<"claim", "record", "place">>
    BY <2>3, <1>2, SubmitOrder DEF Rest, Steps, SubmitSteps, PollSteps, CancelSteps, Settling
  <2>4. CASE s = <<"record", "place">>
    BY <2>4, <1>2, SubmitOrder DEF Rest, Steps, SubmitSteps, PollSteps, CancelSteps, Settling
  <2>5. CASE s = <<"place">>
    BY <2>5, <1>2, SubmitOrder DEF Rest, Steps, SubmitSteps, PollSteps, CancelSteps, Settling
  <2> QED BY <1>2, <2>1, <2>2, <2>3, <2>4, <2>5 DEF SubmitSteps
<1>3. CASE s \in PollSteps
  <2>1. CASE s = <<"tryAcquire", "need", "ask">>
    BY <2>1, <1>3, PollOrder DEF Rest, Steps, SubmitSteps, PollSteps, CancelSteps, Settling
  <2>2. CASE s = <<"need", "ask">>
    BY <2>2, <1>3, PollOrder DEF Rest, Steps, SubmitSteps, PollSteps, CancelSteps, Settling
  <2>3. CASE s = <<"need", "ask", "unlease">>
    BY <2>3, <1>3, PollOrder DEF Rest, Steps, SubmitSteps, PollSteps, CancelSteps, Settling
  <2>4. CASE s = <<"ask">>
    BY <2>4, <1>3, PollOrder DEF Rest, Steps, SubmitSteps, PollSteps, CancelSteps, Settling
  <2>5. CASE s = <<"ask", "unlease">>
    BY <2>5, <1>3, PollOrder DEF Rest, Steps, SubmitSteps, PollSteps, CancelSteps, Settling
  <2> QED BY <1>3, <2>1, <2>2, <2>3, <2>4, <2>5 DEF PollSteps
<1>4. CASE s \in CancelSteps
  <2>1. CASE s = <<"acquire", "recordCancel", "askCancel", "unlease">>
    BY <2>1, <1>4, CancelOrder DEF Rest, Steps, SubmitSteps, PollSteps, CancelSteps, Settling
  <2>2. CASE s = <<"recordCancel", "askCancel", "unlease">>
    BY <2>2, <1>4, CancelOrder DEF Rest, Steps, SubmitSteps, PollSteps, CancelSteps, Settling
  <2>3. CASE s = <<"askCancel", "unlease">>
    BY <2>3, <1>4, CancelOrder DEF Rest, Steps, SubmitSteps, PollSteps, CancelSteps, Settling
  <2> QED BY <1>4, <2>1, <2>2, <2>3 DEF CancelSteps
<1> QED BY <1>1, <1>2, <1>3, <1>4, CallFacts DEF Steps

(***************************************************************************)
(* The two ways a call goes on                                             *)
(***************************************************************************)

LEMMA GoesOnWithRest ==
  ASSUME CallsTyped, NEW w \in Workers, Busy(w), NEW c, Follows(c, w),
         c.reply = calls[w].reply, Goes(w, c, Rest(w))
  PROVE  Moves(w)
<1>1. /\ CallsTyped'
      /\ \A v \in Workers : v # w => calls'[v] = calls[v]
      /\ Busy(w)' => Rest(w) # <<>> /\ calls'[w].todo = Rest(w) /\ OrderOf(w)' = OrderOf(w)
                     /\ calls'[w].reply = calls[w].reply
  BY GoesOn, RestTyped, CallFacts DEF Follows
<1>2. Own(w)
  BY <1>1 DEF Own
<1>3. MayPlace(w)' => MayPlace(w)
  BY <1>1, RestTyped DEF MayPlace
<1>4. Placing(w)' => (Placing(w) \/ At(w, "claim")) /\ ~At(w, "place")
  BY <1>1, RestTyped DEF Placing, At
<1>5. ASSUME NEW a \in Await, Rest(w) \notin Seq(Await \ {a})
      PROVE  calls[w].todo \notin Seq(Await \ {a})
  BY <1>5, CallFacts, SeqRest DEF Rest
<1>6. MayResolve(w)' => MayResolve(w) /\ calls'[w].reply = calls[w].reply
  BY <1>1, <1>5 DEF MayResolve, Await
<1>7. MayRelease(w)' => MayRelease(w)
  BY <1>1, <1>5 DEF MayRelease, Await
<1> QED BY <1>2, <1>3, <1>4, <1>6, <1>7 DEF Moves

LEMMA GoesOnSettling ==
  ASSUME CallsTyped, NEW w \in Workers, Busy(w), NEW c, Follows(c, w),
         NEW todo \in Seq(Settling), Goes(w, c, todo)
  PROVE  /\ Settles(w)
         /\ todo \in Seq(Await \ {"resolve"}) => ~MayResolve(w)'
         /\ todo \in Seq(Await \ {"release"}) => ~MayRelease(w)'
         /\ Busy(w)' => calls'[w].reply = c.reply
<1>1. /\ CallsTyped'
      /\ \A v \in Workers : v # w => calls'[v] = calls[v]
      /\ Busy(w)' => calls'[w].todo = todo /\ OrderOf(w)' = OrderOf(w)
                     /\ calls'[w].reply = c.reply
  BY GoesOn, SettlingOnly DEF Follows, Steps
<1>2. todo \notin SubmitSteps /\ todo \notin {<<"record", "place">>, <<"place">>}
  BY SettlingOnly DEF Steps, SubmitSteps
<1> QED BY <1>1, <1>2 DEF Settles, Own, MayPlace, Placing, MayResolve, MayRelease

(***************************************************************************)
(* What each step of a call lets it do to its order                        *)
(***************************************************************************)

\* The lists of awaits the handlers continue with.
LEMMA Lists ==
  /\ <<"unlease">> \in Seq({"unlease", "finally"})
  /\ <<"finally">> \in Seq({"unlease", "finally"})
  /\ <<"unlease", "finally">> \in Seq({"unlease", "finally"})
  /\ <<"release">> \in Seq({"release"})
  /\ \A w : GiveBack(w) \in Seq({"release"})
  /\ <<"state", "unlease", "finally">> \in Seq({"state", "unlease", "finally"})
  /\ <<"state", "unlease", "release", "finally">> \in Seq(Settling \ {"resolve"})
  /\ <<"state", "resolve", "release", "unlease", "finally">> \in Seq(Settling)
  /\ <<"acked", "unlease", "resolve">> \in Seq(Settling \ {"release"})
  /\ <<"consume", "baseline">> \in Seq(Settling \ {"release"})
  /\ <<"resolve", "release">> \in Seq(Settling)
  /\ <<"count", "resolve">> \in Seq(Settling \ {"release"})
  /\ <<"resolve">> \in Seq(Settling \ {"release"})
  /\ <<"consume">> \in Seq(Settling \ {"resolve", "release"})
<1>1. /\ <<"unlease">> \in Seq({"unlease", "finally"})
      /\ <<"finally">> \in Seq({"unlease", "finally"})
      /\ <<"unlease", "finally">> \in Seq({"unlease", "finally"})
      /\ <<"release">> \in Seq({"release"})
  OBVIOUS
<1>2. \A w : GiveBack(w) \in Seq({"release"})
  BY <1>1 DEF GiveBack
<1>3. <<"state", "unlease", "finally">> \in Seq({"state", "unlease", "finally"})
  OBVIOUS
<1>4. <<"state", "unlease", "release", "finally">> \in Seq(Settling \ {"resolve"})
  BY DEF Settling
<1>5. <<"state", "resolve", "release", "unlease", "finally">> \in Seq(Settling)
  BY DEF Settling
<1>6. <<"acked", "unlease", "resolve">> \in Seq(Settling \ {"release"})
  BY DEF Settling
<1>7. <<"consume", "baseline">> \in Seq(Settling \ {"release"})
  BY DEF Settling
<1>8. <<"resolve", "release">> \in Seq(Settling)
  BY DEF Settling
<1>9. <<"count", "resolve">> \in Seq(Settling \ {"release"})
  BY DEF Settling
<1>10. <<"resolve">> \in Seq(Settling \ {"release"})
  BY DEF Settling
<1>11. <<"consume">> \in Seq(Settling \ {"resolve", "release"})
  BY DEF Settling
<1> QED BY <1>1, <1>2, <1>3, <1>4, <1>5, <1>6, <1>7, <1>8, <1>9, <1>10, <1>11

LEMMA Unchanged ==
  ASSUME CallsTyped, NEW w \in Workers, Busy(w)
  PROVE  Follows(calls[w], w) /\ calls[w].reply = calls[w].reply
  BY CallFacts DEF Follows, OrderOf

\* A call that takes its next step without a result.
LEMMA ContinuesWithRest ==
  ASSUME CallsTyped, NEW w \in Workers, Busy(w), Continues(w, Rest(w))
  PROVE  Moves(w)
  BY Unchanged, GoesOnWithRest DEF Continues

LEMMA ContinuesSettling ==
  ASSUME CallsTyped, NEW w \in Workers, Busy(w), NEW todo \in Seq(Settling), Continues(w, todo)
  PROVE  /\ Settles(w)
         /\ todo \in Seq(Await \ {"resolve"}) => ~MayResolve(w)'
         /\ todo \in Seq(Await \ {"release"}) => ~MayRelease(w)'
  BY Unchanged, GoesOnSettling DEF Continues

\* A call that goes on with nothing but the lease to give back.
LEMMA EndsQuietly ==
  ASSUME CallsTyped, NEW w \in Workers, Busy(w), NEW c, Follows(c, w),
         NEW todo \in Seq({"unlease", "finally"}), Goes(w, c, todo)
  PROVE  Moves(w) /\ Settles(w)
<1>1. todo \in Seq(Settling)
  BY SeqWider, Awaits
<1>2. todo \in Seq(Await \ {"resolve"}) /\ todo \in Seq(Await \ {"release"})
  <2>1. {"unlease", "finally"} \subseteq Await \ {"resolve"}
    BY DEF Await
  <2>2. {"unlease", "finally"} \subseteq Await \ {"release"}
    BY DEF Await
  <2> QED BY <2>1, <2>2, SeqWider
<1> QED BY <1>1, <1>2, GoesOnSettling DEF Moves, Settles

LEMMA SettlingIsFirst ==
  ASSUME CallsTyped, NEW w \in Workers, Busy(w), Head(calls[w].todo) \in Settling
  PROVE  Rest(w) \in Seq(Settling) /\ calls[w].todo \in Seq(Settling)
  BY CallFacts, SeqRest DEF Rest

LEMMA TryAcquireMoves == ASSUME CallsTyped, NEW w \in Workers, TryAcquire(w) PROVE Moves(w)
<1> Busy(w)
  BY DEF TryAcquire, At
<1>1. CASE Continues(w, Rest(w))
  BY <1>1, ContinuesWithRest
<1>2. CASE Continues(w, Rest(w) \o <<"unlease">>)
  <2>1. Rest(w) = <<"need", "ask">> /\ calls[w].kind # "submit"
    BY FirstStep, CallFacts, SubmitOrder DEF TryAcquire, At, Rest, Settling, Steps, SubmitSteps
  <2> DEFINE todo == <<"need", "ask", "unlease">>
  <2>2. Goes(w, calls[w], todo)
    BY <1>2, <2>1, PollOrder DEF Continues
  <2>3. todo \in PollSteps /\ todo \notin SubmitSteps
    BY PollOrder, SubmitOrder DEF PollSteps, SubmitSteps
  <2>4. todo \in Seq(Await \ {"resolve"}) /\ todo \in Seq(Await \ {"release"})
    <3>1. todo \in Seq(Await \ {"resolve"})
      BY DEF Await
    <3>2. todo \in Seq(Await \ {"release"})
      BY DEF Await
    <3> QED BY <3>1, <3>2
  <2> HIDE DEF todo
  <2>5. /\ CallsTyped'
        /\ \A v \in Workers : v # w => calls'[v] = calls[v]
        /\ Busy(w)' => calls'[w].todo = todo /\ OrderOf(w)' = OrderOf(w)
    BY <2>1, <2>2, <2>3, GoesOn, Unchanged DEF Follows, Steps
  <2>6. todo \notin {<<"record", "place">>, <<"place">>}
    BY <2>3 DEF SubmitSteps
  <2> QED BY <2>3, <2>4, <2>5, <2>6 DEF Moves, Own, MayPlace, Placing, MayResolve, MayRelease
<1> QED BY <1>1, <1>2 DEF TryAcquire

LEMMA UnleaseMoves == ASSUME CallsTyped, NEW w \in Workers, Unlease(w) PROVE Moves(w)
  BY ContinuesWithRest DEF Unlease, At
LEMMA RecordMoves == ASSUME CallsTyped, NEW w \in Workers, RecordSubmission(w) PROVE Moves(w)
  BY ContinuesWithRest DEF RecordSubmission, At
LEMMA UpdateMoves == ASSUME CallsTyped, NEW w \in Workers, UpdateState(w) PROVE Moves(w)
  BY ContinuesWithRest DEF UpdateState, At
LEMMA ResolveMoves == ASSUME CallsTyped, NEW w \in Workers, ResolveOrder(w) PROVE Moves(w)
  BY ContinuesWithRest DEF ResolveOrder, At
LEMMA ReleaseMoves == ASSUME CallsTyped, NEW w \in Workers, ReleaseReservation(w) PROVE Moves(w)
  BY ContinuesWithRest DEF ReleaseReservation, At
LEMMA ConsumeMoves == ASSUME CallsTyped, NEW w \in Workers, ConsumeReservation(w) PROVE Moves(w)
  BY ContinuesWithRest DEF ConsumeReservation, At
LEMMA BaselineMoves == ASSUME CallsTyped, NEW w \in Workers, RecordBaseline(w) PROVE Moves(w)
  BY ContinuesWithRest DEF RecordBaseline, At

\* The end of what is left after the question to the venue was skipped.
LEMMA SkippedQuestion ==
  ASSUME CallsTyped, NEW w \in Workers, At(w, "need")
  PROVE  Tail(Rest(w)) \in Seq({"unlease", "finally"})
<1>1. Rest(w) \in {<<"ask">>, <<"ask", "unlease">>}
  BY FirstStep, CallFacts DEF At, Rest, Settling
<1> QED BY <1>1, PollOrder, Lists, EmptySeq

LEMMA NeedsItMoves == ASSUME CallsTyped, NEW w \in Workers, NeedsIt(w) PROVE Moves(w)
<1> Busy(w) /\ Tail(Rest(w)) \in Seq({"unlease", "finally"})
  BY SkippedQuestion DEF NeedsIt, At
<1>1. CASE Continues(w, Tail(Rest(w)))
  BY <1>1, EndsQuietly, Unchanged DEF Continues
<1>2. CASE Goes(w, [calls[w] EXCEPT !.then = Tail(Rest(w))], Rest(w))
  <2> DEFINE c == [calls[w] EXCEPT !.then = Tail(Rest(w))]
  <2>1. Tail(Rest(w)) \in Seq(Await)
    BY SeqWider, Awaits
  <2>2. c \in Call /\ c.then = Tail(Rest(w))
    BY <2>1, CallFacts DEF Call
  <2>3. c.order = OrderOf(w) /\ c.kind = calls[w].kind /\ c.reply = calls[w].reply
    BY CallFacts DEF Call, OrderOf
  <2> HIDE DEF c
  <2> QED BY <1>2, <2>2, <2>3, GoesOnWithRest DEF Follows, c
<1> QED BY <1>1, <1>2 DEF NeedsIt

LEMMA CountFillMoves == ASSUME TypeOK, CallsTyped, NEW w \in Workers, CountFill(w) PROVE Moves(w)
<1> DEFINE delta == FillDelta(ledger[OrderOf(w)], calls[w].reply.filled)
           c == [calls[w] EXCEPT !.cash = delta]
<1> Busy(w) /\ Rest(w) \in Seq(Settling) /\ calls[w].todo \in Seq(Settling)
  BY SettlingIsFirst DEF CountFill, At, Settling
<1>1. CASE Continues(w, Rest(w))
  BY <1>1, ContinuesWithRest
<1>2. CASE Goes(w, c, <<"consume">> \o Rest(w))
  <2>1. calls[w].reply.filled \in 0 .. Size /\ ledger[OrderOf(w)].counted \in 0 .. Size
    BY CallFacts DEF Call, TypeOK
  <2>2. delta \in 0 .. Size
    BY <2>1, ExecutorAssumption DEF FillDelta
  <2> HIDE DEF delta
  <2>3. c \in Call /\ c.then = calls[w].then /\ c.reply = calls[w].reply
    BY <2>2, CallFacts DEF Call
  <2>4. c.order = OrderOf(w) /\ c.kind = calls[w].kind
    BY CallFacts DEF Call, OrderOf
  <2> HIDE DEF c
  <2>5. Follows(c, w)
    BY <2>3, <2>4, CallFacts DEF Follows
  <2>6. <<"consume">> \o Rest(w) \in Seq(Settling)
    BY Lists, SeqWider, SeqJoined
  <2>7. ASSUME NEW a \in {"resolve", "release"}, calls[w].todo \in Seq(Await \ {a})
        PROVE  <<"consume">> \o Rest(w) \in Seq(Await \ {a})
    <3>1. Rest(w) \in Seq(Await \ {a})
      BY <2>7, CallFacts, SeqRest DEF Rest
    <3>2. <<"consume">> \in Seq(Await \ {a})
      BY <2>7, Lists, SeqWider, Awaits
    <3> QED BY <3>1, <3>2, SeqJoined
  <2> QED BY <1>2, <2>3, <2>5, <2>6, <2>7, GoesOnSettling DEF Moves, Settles, MayResolve, MayRelease
<1> QED BY <1>1, <1>2 DEF CountFill

LEMMA RecordCancelMoves == ASSUME CallsTyped, NEW w \in Workers, RecordCancel(w) PROVE Moves(w)
<1> Busy(w)
  BY DEF RecordCancel, At
<1>1. CASE Continues(w, Rest(w))
  BY <1>1, ContinuesWithRest
<1>2. CASE Continues(w, <<>>)
  BY <1>2, EndsQuietly, Unchanged, EmptySeq DEF Continues
<1> QED BY <1>1, <1>2 DEF RecordCancel

LEMMA FaultMoves ==
  ASSUME CallsTyped, NEW w \in Workers, Fault(w)
  PROVE  Moves(w) /\ (At(w, "claim") => ~Placing(w)')
<1> Busy(w)
  BY DEF Fault
<1>1. CASE Head(calls[w].todo) \in BestEffort /\ Continues(w, Rest(w))
  BY <1>1, ContinuesWithRest DEF At, BestEffort
<1>2. CASE At(w, "need") /\ Continues(w, Tail(Rest(w)))
  BY <1>2, SkippedQuestion, EndsQuietly, Unchanged DEF Continues, Settles
<1>3. CASE Goes(w, [calls[w] EXCEPT !.then = <<>>], calls[w].then)
  <2> DEFINE c == [calls[w] EXCEPT !.then = <<>>]
  <2>1. c \in Call /\ c.then = <<>>
    BY CallFacts, EmptySeq DEF Call
  <2>2. c.order = OrderOf(w) /\ c.kind = calls[w].kind
    BY CallFacts DEF Call, OrderOf
  <2> HIDE DEF c
  <2> QED BY <1>3, <2>1, <2>2, CallFacts, EndsQuietly, EmptySeq DEF Follows, c, Settles
<1> QED BY <1>1, <1>2, <1>3 DEF Fault

\* A submission that is refused settles, with nothing to resolve.
Refuses(w) == MayPlace(w) /\ Settles(w) /\ ~MayResolve(w)'

LEMMA SubmitStep ==
  ASSUME CallsTyped, NEW w \in Workers, Busy(w)
  PROVE  /\ Head(calls[w].todo) \in {"check", "claim", "record", "place"} => MayPlace(w)
         /\ Head(calls[w].todo) \in {"record", "place"} => Placing(w)
         /\ Head(calls[w].todo) = "claim" => ~Placing(w)
         /\ Head(calls[w].todo) = "acquire" /\ calls[w].kind = "submit" => MayPlace(w)
<1>1. Head(calls[w].todo) \in {"acquire", "check", "claim", "record", "place"} =>
        calls[w].todo \in Steps
  BY CallFacts DEF Settling
<1>2. CASE Head(calls[w].todo) = "acquire"
  BY <1>1, <1>2, CallFacts DEF MayPlace, Steps
<1>3. CASE Head(calls[w].todo) # "acquire"
  BY <1>1, <1>3, FirstStep, SubmitOrder DEF MayPlace, Placing, SubmitSteps
<1> QED BY <1>2, <1>3

LEMMA Refusing ==
  ASSUME CallsTyped, NEW w \in Workers, Busy(w), MayPlace(w),
         \/ Continues(w, GiveBack(w)) \/ Refused(w, <<>>) \/ Refused(w, <<"unlease">>)
  PROVE  Refuses(w)
<1> DEFINE Calm == {"unlease", "finally", "release"}
<1>1. Calm \subseteq Settling /\ Calm \subseteq Await \ {"resolve"}
  BY DEF Settling, Await
<1>2. PICK todo : Continues(w, todo) /\ todo \in Seq(Calm)
  <2>1. <<"finally">> \in Seq(Calm) /\ <<"unlease">> \in Seq(Calm) /\ <<>> \in Seq(Calm)
    OBVIOUS
  <2>2. GiveBack(w) \in Seq(Calm)
    BY Lists, SeqWider
  <2> HIDE DEF Calm
  <2>3. \A t \in {<<>>, <<"unlease">>} : t \o <<"finally">> \o GiveBack(w) \in Seq(Calm)
    BY <2>1, <2>2, SeqJoined
  <2> QED BY <2>2, <2>3 DEF Refused
<1>3. todo \in Seq(Settling) /\ todo \in Seq(Await \ {"resolve"})
  BY <1>1, <1>2, SeqWider
<1> QED BY <1>2, <1>3, ContinuesSettling DEF Refuses

LEMMA AcquireMoves == ASSUME CallsTyped, NEW w \in Workers, Acquire(w) PROVE Moves(w) \/ Refuses(w)
<1> Busy(w) /\ Head(calls[w].todo) = "acquire"
  BY DEF Acquire, At
<1>1. CASE Continues(w, GiveBack(w))
  <2>1. CASE calls[w].kind = "submit"
    BY <1>1, <2>1, Refusing, SubmitStep
  <2>2. CASE calls[w].kind # "submit"
    BY <1>1, <2>2, EndsQuietly, Unchanged, EmptySeq DEF GiveBack, Continues
  <2> QED BY <2>1, <2>2
<1>2. CASE Continues(w, Rest(w))
  BY <1>2, ContinuesWithRest
<1>3. CASE Continues(w, <<"unlease">>)
  BY <1>3, EndsQuietly, Unchanged, Lists DEF Continues
<1>4. CASE Goes(w, [calls[w] EXCEPT !.then = <<"finally">>], Rest(w))
  <2> DEFINE c == [calls[w] EXCEPT !.then = <<"finally">>]
  <2>1. <<"finally">> \in Seq(Await)
    BY DEF Await
  <2>2. c \in Call /\ c.then = <<"finally">>
    BY <2>1, CallFacts DEF Call
  <2>3. c.order = OrderOf(w) /\ c.kind = calls[w].kind /\ c.reply = calls[w].reply
    BY CallFacts DEF Call, OrderOf
  <2> HIDE DEF c
  <2> QED BY <1>4, <2>2, <2>3, Lists, GoesOnWithRest DEF Follows, c
<1> QED BY <1>1, <1>2, <1>3, <1>4 DEF Acquire

LEMMA CheckMoves ==
  ASSUME CallsTyped, NEW w \in Workers, CheckSubmit(w) PROVE Moves(w) \/ Refuses(w)
<1> Busy(w) /\ MayPlace(w)
  BY SubmitStep DEF CheckSubmit, At
<1> QED BY Refusing, ContinuesWithRest DEF CheckSubmit

LEMMA ClaimMoves ==
  ASSUME CallsTyped, NEW w \in Workers, ClaimPermit(w)
  PROVE  /\ MayPlace(w) /\ ~Placing(w)
         /\ \/ Claimable(Permit(w)) /\ claimed' = [claimed EXCEPT ![Permit(w)] = OrderOf(w)]
               /\ ledger' = [ledger EXCEPT ![OrderOf(w)] = Upserted(ledger[OrderOf(w)])]
               /\ Moves(w)
            \/ UNCHANGED <<claimed, ledger>> /\ Refuses(w)
<1> Busy(w) /\ MayPlace(w) /\ ~Placing(w)
  BY SubmitStep DEF ClaimPermit, At
<1> QED BY Refusing, ContinuesWithRest DEF ClaimPermit

\* A call that got an answer.
LEMMA AnswerFollows ==
  ASSUME CallsTyped, NEW w \in Workers, Busy(w), NEW state \in LedgerState,
         NEW ack \in BOOLEAN, NEW filled \in 0 .. Size,
         NEW status \in {"NONE", "LIVE", "MATCHED", "CANCELED", "REJECTED"},
         NEW todo \in Seq(Settling), Answered(w, state, Reply(ack, status, filled), todo)
  PROVE  /\ Settles(w)
         /\ todo \in Seq(Await \ {"resolve"}) => ~MayResolve(w)'
         /\ todo \in Seq(Await \ {"release"}) => ~MayRelease(w)'
         /\ Busy(w)' => calls'[w].reply = Reply(ack, status, filled)
<1> DEFINE r == Reply(ack, status, filled)
           c == [calls[w] EXCEPT !.state = state, !.reply = r, !.cash = r.filled]
<1>1. /\ r \in [ack : BOOLEAN, status : {"NONE", "LIVE", "MATCHED", "CANCELED", "REJECTED"},
                filled : 0 .. Size]
  BY DEF Reply
<1> HIDE DEF r
<1>2. c \in Call
  BY <1>1, CallFacts DEF Call
<1>3. c.order = OrderOf(w) /\ c.kind = calls[w].kind /\ c.then = calls[w].then /\ c.reply = r
  BY CallFacts DEF Call, OrderOf
<1>4. Goes(w, c, todo)
  BY DEF Answered, r
<1> HIDE DEF c
<1>5. Follows(c, w)
  BY <1>2, <1>3, CallFacts DEF Follows
<1> QED BY <1>3, <1>4, <1>5, GoesOnSettling DEF r

\* What placing an order tells the call and the venue.
LEMMA AcceptedMoves ==
  ASSUME CallsTyped, NEW w \in Workers, Busy(w), PlaceAccepted(w)
  PROVE  /\ Settles(w) /\ ~MayRelease(w)'
         /\ \E status \in {"LIVE", "MATCHED", "CANCELED"}, filled \in 0 .. Size :
              /\ Sent(OrderOf(w), status, filled)
              /\ Busy(w)' => calls'[w].reply = IF AdapterReports THEN Reply(TRUE, status, filled)
                                                                 ELSE NoReply
<1> DEFINE R(status, filled) == IF AdapterReports THEN Reply(TRUE, status, filled) ELSE NoReply
           Todo(reply) == <<"acked", "unlease", "resolve">>
                          \o (IF reply.filled > 0 THEN <<"consume", "baseline">> ELSE <<>>)
                          \o <<"finally">>
<1>1. PICK status \in {"LIVE", "MATCHED", "CANCELED"}, filled \in 0 .. Size :
        /\ Sent(OrderOf(w), status, filled)
        /\ Answered(w, IF AdapterReports THEN "ACKNOWLEDGED" ELSE "SUBMITTING",
                    R(status, filled), Todo(R(status, filled)))
  BY DEF PlaceAccepted
<1>2. \A reply : Todo(reply) \in Seq(Settling \ {"release"})
  <2>1. <<"finally">> \in Seq(Settling \ {"release"}) /\ <<>> \in Seq(Settling \ {"release"})
    BY EmptySeq DEF Settling
  <2> QED BY <2>1, Lists, SeqJoined
<1>3. Settling \ {"release"} \subseteq Settling /\ Settling \ {"release"} \subseteq Await \ {"release"}
  BY Awaits
<1>4. \A reply : Todo(reply) \in Seq(Settling) /\ Todo(reply) \in Seq(Await \ {"release"})
  BY <1>2, <1>3, SeqWider
<1> HIDE DEF Todo
<1>5. CASE AdapterReports
  <2>1. R(status, filled) = Reply(TRUE, status, filled)
    BY <1>5
  <2>2. Answered(w, "ACKNOWLEDGED", Reply(TRUE, status, filled), Todo(Reply(TRUE, status, filled)))
    BY <1>1, <1>5, <2>1
  <2>3. "ACKNOWLEDGED" \in LedgerState
    BY DEF LedgerState
  <2> QED BY <1>1, <1>4, <1>5, <2>2, <2>3, AnswerFollows
<1>6. CASE ~AdapterReports
  <2>1. R(status, filled) = NoReply
    BY <1>6
  <2>2. Answered(w, "SUBMITTING", Reply(FALSE, "NONE", 0), Todo(NoReply))
    BY <1>1, <1>6, <2>1 DEF NoReply
  <2>3. "SUBMITTING" \in LedgerState /\ 0 \in 0 .. Size
    BY ExecutorAssumption DEF LedgerState
  <2> QED BY <1>1, <1>4, <1>6, <2>2, <2>3, AnswerFollows DEF NoReply
<1> QED BY <1>5, <1>6

LEMMA RejectedMoves ==
  ASSUME CallsTyped, NEW w \in Workers, Busy(w), PlaceRejected(w)
  PROVE  Settles(w) /\ ~MayResolve(w)'
<1> DEFINE todo == <<"state", "unlease", "release", "finally">> \o GiveBack(w)
<1>1. {"release"} \subseteq Settling \ {"resolve"} /\ Settling \ {"resolve"} \subseteq Settling
      /\ Settling \ {"resolve"} \subseteq Await \ {"resolve"}
  BY Awaits DEF Settling
<1>2. GiveBack(w) \in Seq(Settling \ {"resolve"})
  BY <1>1, Lists, SeqWider
<1>3. todo \in Seq(Settling \ {"resolve"})
  BY <1>2, Lists, SeqJoined
<1> HIDE DEF todo
<1>4. todo \in Seq(Settling) /\ todo \in Seq(Await \ {"resolve"})
  BY <1>1, <1>3, SeqWider
<1>5. "DEFINITIVE_REJECT" \in LedgerState /\ 0 \in 0 .. Size
  BY ExecutorAssumption DEF LedgerState
<1>6. Answered(w, "DEFINITIVE_REJECT", Reply(FALSE, "NONE", 0), todo)
  BY DEF PlaceRejected, NoReply, todo
<1> QED BY <1>4, <1>5, <1>6, AnswerFollows

LEMMA NotSentMoves ==
  ASSUME CallsTyped, NEW w \in Workers, Busy(w), PlaceNotSent(w)
  PROVE  Settles(w) /\ (Busy(w)' => calls'[w].reply = Reply(FALSE, "REJECTED", 0))
<1> DEFINE todo == <<"state", "resolve", "release", "unlease", "finally">> \o GiveBack(w)
<1>1. GiveBack(w) \in Seq(Settling)
  <2>1. {"release"} \subseteq Settling
    BY DEF Settling
  <2> QED BY <2>1, Lists, SeqWider
<1>2. todo \in Seq(Settling)
  BY <1>1, Lists, SeqJoined
<1> HIDE DEF todo
<1>3. "DEFINITIVE_REJECT" \in LedgerState /\ 0 \in 0 .. Size
  BY ExecutorAssumption DEF LedgerState
<1>4. Answered(w, "DEFINITIVE_REJECT", Reply(FALSE, "REJECTED", 0), todo)
  BY DEF PlaceNotSent, todo
<1> QED BY <1>2, <1>3, <1>4, AnswerFollows

LEMMA UnansweredMoves ==
  ASSUME CallsTyped, NEW w \in Workers, Busy(w), PlaceTimedOut(w) \/ PlaceUnknown(w)
  PROVE  Settles(w) /\ ~MayResolve(w)' /\ ~MayRelease(w)'
<1>1. CASE PlaceTimedOut(w)
  <2> DEFINE todo == <<"unlease", "finally">>
  <2>1. /\ {"unlease", "finally"} \subseteq Settling
        /\ {"unlease", "finally"} \subseteq Await \ {"resolve"}
        /\ {"unlease", "finally"} \subseteq Await \ {"release"}
    BY DEF Settling, Await
  <2>2. /\ todo \in Seq(Settling) /\ todo \in Seq(Await \ {"resolve"})
        /\ todo \in Seq(Await \ {"release"})
    <3>1. todo \in Seq({"unlease", "finally"})
      BY Lists
    <3> HIDE DEF todo
    <3> QED BY <2>1, <3>1, SeqWider
  <2>3. Continues(w, todo)
    BY <1>1 DEF PlaceTimedOut
  <2> HIDE DEF todo
  <2> QED BY <2>2, <2>3, ContinuesSettling
<1>2. CASE PlaceUnknown(w)
  <2> DEFINE todo == <<"state", "unlease", "finally">>
  <2>1. /\ {"state", "unlease", "finally"} \subseteq Settling
        /\ {"state", "unlease", "finally"} \subseteq Await \ {"resolve"}
        /\ {"state", "unlease", "finally"} \subseteq Await \ {"release"}
    BY DEF Settling, Await
  <2>2. /\ todo \in Seq(Settling) /\ todo \in Seq(Await \ {"resolve"})
        /\ todo \in Seq(Await \ {"release"})
    <3>1. todo \in Seq({"state", "unlease", "finally"})
      BY Lists
    <3> HIDE DEF todo
    <3> QED BY <2>1, <3>1, SeqWider
  <2>3. "SUBMISSION_UNKNOWN" \in LedgerState /\ 0 \in 0 .. Size
    BY ExecutorAssumption DEF LedgerState
  <2>4. Answered(w, "SUBMISSION_UNKNOWN", Reply(FALSE, "NONE", 0), todo)
    BY <1>2 DEF PlaceUnknown, NoReply
  <2> HIDE DEF todo
  <2> QED BY <2>2, <2>3, <2>4, AnswerFollows
<1> QED BY <1>1, <1>2

LEMMA PlaceOrderMoves ==
  ASSUME CallsTyped, NEW w \in Workers, PlaceOrder(w)
  PROVE  Placing(w) /\ MayPlace(w) /\ Settles(w)
<1> Busy(w)
  BY DEF PlaceOrder, At
<1> QED BY SubmitStep, AcceptedMoves, RejectedMoves, NotSentMoves, UnansweredMoves
        DEF PlaceOrder, At

\* What the venue says of the order decides what may follow.
LEMMA AskVenueMoves ==
  ASSUME TypeOK, CallsTyped, NEW w \in Workers, AskVenue(w)
  PROVE  /\ UNCHANGED venue
         /\ \/ Moves(w)
            \/ /\ Settles(w)
               /\ venue[OrderOf(w)].status \in {"LIVE", "MATCHED", "CANCELED"}
               /\ Busy(w)' => calls'[w].reply = Reply(AdapterReports, venue[OrderOf(w)].status,
                                                      venue[OrderOf(w)].filled)
               /\ venue[OrderOf(w)].status \in {"LIVE", "MATCHED"} =>
                    AdapterReports /\ ~MayRelease(w)'
<1> DEFINE o == OrderOf(w)
           reply == Reply(AdapterReports, venue[o].status, venue[o].filled)
<1>1. Busy(w) /\ Rest(w) \in {<<>>, <<"unlease">>} /\ o \in Orders
  BY FirstStep, CallFacts DEF AskVenue, At, Rest, Settling
<1>2. /\ venue[o].status \in {"NONE", "SENT", "LIVE", "MATCHED", "CANCELED"}
      /\ venue[o].filled \in 0 .. Size
  BY <1>1 DEF TypeOK
<1>3. CASE Continues(w, Rest(w))
  BY <1>1, <1>3, ContinuesWithRest DEF AskVenue
<1>4. /\ Rest(w) \in Seq(Settling) /\ Rest(w) \in Seq(Settling \ {"release"})
      /\ \A s \in Seq(Settling \ {"release"}) : s \in Seq(Settling) /\ s \in Seq(Await \ {"release"})
  <2>1. <<>> \in Seq(Settling) /\ <<"unlease">> \in Seq(Settling)
    BY EmptySeq DEF Settling
  <2>2. <<>> \in Seq(Settling \ {"release"}) /\ <<"unlease">> \in Seq(Settling \ {"release"})
    BY EmptySeq DEF Settling
  <2>3. Settling \ {"release"} \subseteq Settling /\ Settling \ {"release"} \subseteq Await \ {"release"}
    BY Awaits
  <2> QED BY <1>1, <2>1, <2>2, <2>3, SeqWider
<1>5. CASE /\ venue[o].status \in Dead
           /\ Answered(w, "DEFINITIVE_REJECT", reply, <<"resolve", "release">> \o Rest(w))
  <2>1. <<"resolve", "release">> \o Rest(w) \in Seq(Settling)
    BY <1>4, Lists, SeqJoined
  <2>2. venue[o].status = "CANCELED" /\ "DEFINITIVE_REJECT" \in LedgerState
    BY <1>2, <1>5 DEF Dead, LedgerState
  <2>3. AdapterReports \in BOOLEAN
    BY ExecutorAssumption
  <2>4. Settles(w) /\ (Busy(w)' => calls'[w].reply = reply)
    BY <1>1, <1>2, <1>5, <2>1, <2>2, <2>3, AnswerFollows
  <2> QED BY <2>2, <2>4 DEF AskVenue
<1>6. CASE /\ venue[o].status \in {"LIVE", "MATCHED"} /\ reply.ack
           /\ \/ Answered(w, "ACKNOWLEDGED", reply, <<"count", "resolve">> \o Rest(w))
              \/ Answered(w, "ACKNOWLEDGED", reply, <<"resolve">> \o Rest(w))
  <2>1. PICK todo \in Seq(Settling \ {"release"}) : Answered(w, "ACKNOWLEDGED", reply, todo)
    BY <1>4, <1>6, Lists, SeqJoined
  <2>2. "ACKNOWLEDGED" \in LedgerState /\ AdapterReports
    BY <1>6, ExecutorAssumption DEF LedgerState, Reply
  <2>3. todo \in Seq(Settling) /\ todo \in Seq(Await \ {"release"})
    BY <1>4, <2>1
  <2>4. AdapterReports \in BOOLEAN
    BY ExecutorAssumption
  <2>5. PICK status \in {"LIVE", "MATCHED"}, filled \in 0 .. Size :
          reply = Reply(AdapterReports, status, filled)
    BY <1>2, <1>6
  <2> HIDE DEF reply
  <2>6. Answered(w, "ACKNOWLEDGED", Reply(AdapterReports, status, filled), todo)
    BY <2>1, <2>5
  <2>7. Settles(w) /\ ~MayRelease(w)' /\ (Busy(w)' => calls'[w].reply = reply)
    BY <1>1, <2>2, <2>3, <2>4, <2>5, <2>6, AnswerFollows
  <2> QED BY <1>6, <2>2, <2>7 DEF AskVenue, reply
<1> QED BY <1>2, <1>3, <1>5, <1>6 DEF AskVenue, Dead

LEMMA AskCancelMoves ==
  ASSUME CallsTyped, NEW w \in Workers, AskCancel(w)
  PROVE  \/ /\ Moves(w)
            /\ \/ UNCHANGED venue
               \/ /\ venue[OrderOf(w)].status = "LIVE"
                  /\ venue' = [venue EXCEPT ![OrderOf(w)].status = "CANCELED"]
         \/ /\ Settles(w)
            /\ venue[OrderOf(w)].status = "LIVE"
            /\ venue' = [venue EXCEPT ![OrderOf(w)].status = "CANCELED"]
            /\ Busy(w)' => calls'[w].reply = Reply(FALSE, "CANCELED", 0)
<1> DEFINE c == [calls[w] EXCEPT !.reply = Reply(FALSE, "CANCELED", 0), !.then = Rest(w)]
<1>1. Busy(w) /\ Rest(w) = <<"unlease">>
  BY FirstStep, CallFacts DEF AskCancel, At, Rest, Settling
<1>2. CASE Continues(w, Rest(w))
  BY <1>1, <1>2, ContinuesWithRest DEF AskCancel
<1>3. CASE Goes(w, c, <<"resolve", "release">> \o Rest(w))
  <2>1. Rest(w) \in Seq(Await) /\ Rest(w) \in Seq(Settling)
    BY <1>1, Lists, Awaits, SeqWider
  <2>2. /\ Reply(FALSE, "CANCELED", 0) \in
             [ack : BOOLEAN, status : {"NONE", "LIVE", "MATCHED", "CANCELED", "REJECTED"},
              filled : 0 .. Size]
    BY ExecutorAssumption DEF Reply
  <2>3. c \in Call /\ c.then = Rest(w)
    BY <1>1, <2>1, <2>2, CallFacts DEF Call
  <2>4. c.order = OrderOf(w) /\ c.kind = calls[w].kind /\ c.reply = Reply(FALSE, "CANCELED", 0)
    BY <1>1, CallFacts DEF Call, OrderOf
  <2> HIDE DEF c
  <2>5. Follows(c, w)
    BY <1>1, <2>3, <2>4, Lists DEF Follows
  <2>6. <<"resolve", "release">> \o Rest(w) \in Seq(Settling)
    BY <2>1, Lists, SeqJoined
  <2>7. Settles(w) /\ (Busy(w)' => calls'[w].reply = c.reply)
    BY <1>1, <1>3, <2>5, <2>6, GoesOnSettling
  <2>8. ~Continues(w, Rest(w)) => /\ venue[OrderOf(w)].status = "LIVE"
                                  /\ venue' = [venue EXCEPT ![OrderOf(w)].status = "CANCELED"]
    BY DEF AskCancel
  <2> QED BY <1>2, <2>4, <2>7, <2>8
<1> QED BY <1>2, <1>3 DEF AskCancel

(***************************************************************************)
(* Calls that begin, and calls that a crash ends                           *)
(***************************************************************************)

LEMMA BeginsFresh ==
  ASSUME CallsTyped, NEW w \in Workers, NEW o \in Orders,
         NEW kind \in {"submit", "resubmit", "reconcile", "cancel"},
         NEW todo \in Steps, todo \in PollSteps \cup CancelSteps => kind # "submit",
         Begins(w, kind, o, todo)
  PROVE  /\ CallsTyped'
         /\ \A v \in Workers : v # w => calls'[v] = calls[v]
         /\ Busy(w)' /\ OrderOf(w)' = o /\ calls'[w].todo = todo
<1> DEFINE c == [kind |-> kind, order |-> o, todo |-> todo, then |-> <<>>,
                 state |-> "NOT_SEEN", reply |-> NoReply, cash |-> 0]
<1>1. /\ NoReply \in [ack : BOOLEAN, status : {"NONE", "LIVE", "MATCHED", "CANCELED", "REJECTED"},
                      filled : 0 .. Size]
      /\ 0 \in 0 .. Size /\ "NOT_SEEN" \in LedgerState
      /\ todo \in Seq(Await) /\ <<>> \in Seq(Await)
  BY ExecutorAssumption, StepsAreAwaits, EmptySeq DEF NoReply, Reply, LedgerState
<1>2. c \in Call
  BY <1>1 DEF Call
<1>3. c.order = o /\ c.todo = todo /\ c.then = <<>> /\ c.kind = kind /\ c.kind # "none"
  OBVIOUS
<1>4. calls' = [calls EXCEPT ![w] = c]
  BY DEF Begins
<1> HIDE DEF c
<1>5. InOrder(c)
  BY <1>3, FirstStep, EmptySeq DEF InOrder
<1> QED BY <1>2, <1>3, <1>4, <1>5 DEF CallsTyped, Busy, OrderOf, InOrder

\* No call begins with an answer to settle.
LEMMA HandlersStart ==
  /\ <<"acquire", "check", "claim", "record", "place">> \in SubmitSteps
  /\ <<"tryAcquire", "need", "ask">> \in PollSteps
  /\ <<"acquire", "recordCancel", "askCancel", "unlease">> \in CancelSteps
  /\ <<"acquire", "check", "claim", "record", "place">> \notin
       PollSteps \cup CancelSteps \cup {<<"record", "place">>, <<"place">>}
  /\ <<"tryAcquire", "need", "ask">> \notin SubmitSteps
  /\ <<"acquire", "recordCancel", "askCancel", "unlease">> \notin SubmitSteps
  /\ \A a \in {"resolve", "release"} :
       /\ <<"acquire", "check", "claim", "record", "place">> \in Seq(Await \ {a})
       /\ <<"tryAcquire", "need", "ask">> \in Seq(Await \ {a})
       /\ <<"acquire", "recordCancel", "askCancel", "unlease">> \in Seq(Await \ {a})
<1>1. <<"acquire", "check", "claim", "record", "place">> \notin
        PollSteps \cup CancelSteps \cup {<<"record", "place">>, <<"place">>}
  BY SubmitOrder, PollOrder, CancelOrder DEF PollSteps, CancelSteps
<1>2. /\ <<"tryAcquire", "need", "ask">> \notin SubmitSteps
  BY SubmitOrder, PollOrder DEF SubmitSteps
<1>3. <<"acquire", "recordCancel", "askCancel", "unlease">> \notin SubmitSteps
  BY SubmitOrder, CancelOrder DEF SubmitSteps
<1>4. ASSUME NEW a \in {"resolve", "release"}
      PROVE  <<"acquire", "check", "claim", "record", "place">> \in Seq(Await \ {a})
  BY DEF Await
<1>5. ASSUME NEW a \in {"resolve", "release"}
      PROVE  <<"tryAcquire", "need", "ask">> \in Seq(Await \ {a})
  BY DEF Await
<1>6. ASSUME NEW a \in {"resolve", "release"}
      PROVE  <<"acquire", "recordCancel", "askCancel", "unlease">> \in Seq(Await \ {a})
  BY DEF Await
<1> QED BY <1>1, <1>2, <1>3, <1>4, <1>5, <1>6 DEF SubmitSteps, PollSteps, CancelSteps

\* A call that begins has an order, nothing to resolve and nothing to release.
Starts(w, o) ==
  /\ CallsTyped'
  /\ \A v \in Workers : v # w => calls'[v] = calls[v]
  /\ Busy(w)' /\ OrderOf(w)' = o
  /\ ~Placing(w)' /\ ~MayResolve(w)' /\ ~MayRelease(w)'

LEMMA SubmitStarts ==
  ASSUME CallsTyped, NEW w \in Workers, NEW o \in Orders, StartSubmit(w, o)
  PROVE  Starts(w, o)
<1> DEFINE todo == <<"acquire", "check", "claim", "record", "place">>
           kind == IF HandedOver(PermitOf[o]) THEN "resubmit" ELSE "submit"
<1>1. Begins(w, kind, o, todo) /\ kind \in {"submit", "resubmit", "reconcile", "cancel"}
  BY DEF StartSubmit
<1> HIDE DEF kind
<1>2. /\ todo \in Steps /\ todo \notin PollSteps \cup CancelSteps
      /\ todo \notin {<<"record", "place">>, <<"place">>}
      /\ todo \in Seq(Await \ {"resolve"}) /\ todo \in Seq(Await \ {"release"})
  BY HandlersStart DEF Steps
<1> HIDE DEF todo
<1> QED BY <1>1, <1>2, BeginsFresh DEF Starts, Placing, MayResolve, MayRelease

LEMMA PollStarts ==
  ASSUME CallsTyped, NEW w \in Workers, NEW o \in Orders,
         StartReconcile(w, o) \/ StartCancel(w, o)
  PROVE  Starts(w, o) /\ ~MayPlace(w)'
<1>1. PICK kind \in {"reconcile", "cancel"},
           todo \in {<<"tryAcquire", "need", "ask">>,
                     <<"acquire", "recordCancel", "askCancel", "unlease">>} :
        Begins(w, kind, o, todo)
  BY DEF StartReconcile, StartCancel
<1>2. /\ todo \in Steps /\ todo \notin SubmitSteps
      /\ todo \in Seq(Await \ {"resolve"}) /\ todo \in Seq(Await \ {"release"})
  BY HandlersStart DEF Steps
<1>3. todo \notin {<<"record", "place">>, <<"place">>}
  BY <1>2 DEF SubmitSteps
<1> QED BY <1>1, <1>2, <1>3, BeginsFresh DEF Starts, MayPlace, Placing, MayResolve, MayRelease

LEMMA CrashEnds ==
  ASSUME CallsTyped, NEW q \in Processes, Crash(q)
  PROVE  CallsTyped' /\ \A w \in Workers : calls'[w] = calls[w] \/ ~Busy(w)'
  BY DEF CallsTyped, Crash, Busy, NoCall, InOrder

(***************************************************************************)
(* Type correctness                                                        *)
(***************************************************************************)

\* The steps of calls, by what they do to the state the calls share.
LEMMA CallsStep == ASSUME TypeOK, CallsTyped, [Next]_vars PROVE CallsTyped'
<1>1. CASE UNCHANGED calls
  BY <1>1 DEF CallsTyped, Busy, InOrder
<1>2. ASSUME NEW w \in Workers, NEW o \in Orders,
             StartSubmit(w, o) \/ StartReconcile(w, o) \/ StartCancel(w, o)
      PROVE  CallsTyped'
  BY <1>2, SubmitStarts, PollStarts DEF Starts
<1>3. ASSUME NEW w \in Workers, Advance(w) PROVE CallsTyped'
  BY <1>3, AcquireMoves, TryAcquireMoves, UnleaseMoves, CheckMoves, ClaimMoves, RecordMoves,
     PlaceOrderMoves, UpdateMoves, NeedsItMoves, AskVenueMoves, CountFillMoves, ResolveMoves,
     ReleaseMoves, ConsumeMoves, BaselineMoves, RecordCancelMoves, AskCancelMoves
     DEF Advance, Moves, Refuses, Settles, Own
<1>4. ASSUME NEW w \in Workers, Fault(w) PROVE CallsTyped'
  BY <1>4, FaultMoves DEF Moves, Own
<1>5. ASSUME NEW q \in Processes, Crash(q) PROVE CallsTyped'
  BY <1>5, CrashEnds
<1> QED BY <1>1, <1>2, <1>3, <1>4, <1>5 DEF Next, vars, ExpireReservation, VenueReceives, VenueFills,
     VenueCancels, VenueChanges, Tick

LedgerRow == [exists : BOOLEAN, state : LedgerState, resolved : BOOLEAN,
              verdict : {"NONE", "ACKNOWLEDGED", "DEFINITIVE_REJECT"}, counted : 0 .. Size]

\* The statements of the recovery ledger keep a row well formed.
LEMMA LedgerRows ==
  ASSUME NEW row \in LedgerRow, NEW state \in LedgerState, NEW ack \in BOOLEAN,
         NEW filled \in 0 .. Size, NEW reply, reply.ack = ack, reply.filled = filled
  PROVE  /\ Upserted(row) \in LedgerRow /\ StateUpdated(row, state) \in LedgerRow
         /\ CancelRequested(row) \in LedgerRow /\ Resolved(row, reply) \in LedgerRow
         /\ FillCounted(row, filled) \in LedgerRow
<1>1. \A s \in LedgerState : InState(row, s) \in LedgerRow
  BY DEF InState, Entry, LedgerRow
<1>2. {"SUBMITTING", "CANCEL_UNKNOWN", "ACKNOWLEDGED"} \subseteq LedgerState
  BY DEF LedgerState
<1>3. Upserted(row) \in LedgerRow /\ StateUpdated(row, state) \in LedgerRow
      /\ CancelRequested(row) \in LedgerRow
  BY <1>1, <1>2 DEF Upserted, StateUpdated, CancelRequested
<1>4. Entry(Verdict(reply), TRUE, Verdict(reply), row.counted) \in LedgerRow
  <2>1. Verdict(reply) \in {"ACKNOWLEDGED", "DEFINITIVE_REJECT"}
    BY DEF Verdict
  <2>2. Verdict(reply) \in LedgerState
    BY <2>1 DEF LedgerState
  <2> QED BY <2>1, <2>2 DEF Entry, LedgerRow
<1>5. Resolved(row, reply) \in LedgerRow
  BY <1>1, <1>2, <1>4 DEF Resolved
<1>6. FillCounted(row, filled) \in LedgerRow
  <2>1. row.counted + FillDelta(row, filled) \in 0 .. Size
    BY ExecutorAssumption DEF FillDelta, LedgerRow
  <2> QED BY <2>1 DEF FillCounted, LedgerRow
<1> QED BY <1>3, <1>5, <1>6

LEMMA LedgerStep ==
  ASSUME TypeOK, CallsTyped, [Next]_vars PROVE ledger' \in [Orders -> LedgerRow]
<1> ledger \in [Orders -> LedgerRow]
  BY DEF TypeOK, LedgerRow
<1>1. CASE UNCHANGED ledger
  BY <1>1
<1>2. ASSUME NEW w \in Workers, Busy(w),
             \/ ledger' = [ledger EXCEPT ![OrderOf(w)] = Upserted(ledger[OrderOf(w)])]
             \/ ledger' = [ledger EXCEPT ![OrderOf(w)] =
                             StateUpdated(ledger[OrderOf(w)], calls[w].state)]
             \/ ledger' = [ledger EXCEPT ![OrderOf(w)] =
                             FillCounted(ledger[OrderOf(w)], calls[w].reply.filled)]
             \/ ledger' = [ledger EXCEPT ![OrderOf(w)] =
                             Resolved(ledger[OrderOf(w)], calls[w].reply)]
             \/ ledger' = [ledger EXCEPT ![OrderOf(w)] = CancelRequested(ledger[OrderOf(w)])]
      PROVE  ledger' \in [Orders -> LedgerRow]
  <2>1. /\ OrderOf(w) \in Orders /\ calls[w].state \in LedgerState
        /\ calls[w].reply.ack \in BOOLEAN /\ calls[w].reply.filled \in 0 .. Size
    BY <1>2, CallFacts DEF Call
  <2>2. \A row \in LedgerRow :
          /\ Upserted(row) \in LedgerRow /\ StateUpdated(row, calls[w].state) \in LedgerRow
          /\ CancelRequested(row) \in LedgerRow /\ Resolved(row, calls[w].reply) \in LedgerRow
          /\ FillCounted(row, calls[w].reply.filled) \in LedgerRow
    BY <2>1, LedgerRows
  <2> QED BY <1>2, <2>1, <2>2
<1>3. ASSUME NEW w \in Workers, Advance(w) PROVE ledger' \in [Orders -> LedgerRow]
  BY <1>1, <1>2, <1>3 DEF Advance, At, Acquire, TryAcquire, Unlease, CheckSubmit, ClaimPermit,
     RecordSubmission, PlaceOrder, UpdateState, NeedsIt, AskVenue, CountFill, ResolveOrder,
     ReleaseReservation, ConsumeReservation, RecordBaseline, RecordCancel, AskCancel
<1> QED BY <1>1, <1>3 DEF Next, vars, StartSubmit, StartReconcile, StartCancel, Fault, Crash,
     ExpireReservation, VenueReceives, VenueFills, VenueCancels, VenueChanges, Tick

LEMMA SeenStep ==
  ASSUME TypeOK, CallsTyped, [Next]_vars
  PROVE  /\ seen' \in [Processes -> [Orders -> LedgerState]]
         /\ seenLog' \in [Orders -> SUBSET LedgerState]
<1> DEFINE T == /\ seen \in [Processes -> [Orders -> LedgerState]]
                /\ seenLog \in [Orders -> SUBSET LedgerState]
<1> T /\ ledger \in [Orders -> LedgerRow]
  BY DEF TypeOK, LedgerRow
<1>1. CASE SeesNothing
  BY <1>1 DEF SeesNothing
<1>2. ASSUME NEW w \in Workers, Busy(w), NEW state \in LedgerState, Sees(w, OrderOf(w), state)
      PROVE  T'
  <2>1. OrderOf(w) \in Orders /\ ProcessOf[w] \in Processes
    BY <1>2, CallFacts, ExecutorAssumption
  <2> QED BY <1>2, <2>1 DEF Sees
<1>3. {"SUBMITTING", "SUBMISSION_UNKNOWN", "DEFINITIVE_REJECT", "ACKNOWLEDGED", "NOT_SEEN"}
        \subseteq LedgerState
  BY DEF LedgerState
<1>4. ASSUME NEW w \in Workers, ClaimPermit(w) \/ PlaceOrder(w) \/ UpdateState(w) \/ AskVenue(w)
      PROVE  T'
  <2>1. Busy(w) /\ calls[w].state \in LedgerState
    BY <1>4, CallFacts DEF ClaimPermit, PlaceOrder, UpdateState, AskVenue, At, Call
  <2>2. CASE ClaimPermit(w)
    BY <1>1, <1>2, <1>3, <2>1, <2>2 DEF ClaimPermit
  <2>3. CASE PlaceOrder(w)
    BY <1>1, <1>2, <1>3, <2>1, <2>3 DEF PlaceOrder, PlaceAccepted, PlaceRejected, PlaceNotSent,
       PlaceTimedOut, PlaceUnknown
  <2>4. CASE UpdateState(w)
    BY <1>1, <1>2, <1>3, <2>1, <2>4 DEF UpdateState
  <2>5. CASE AskVenue(w)
    <3>1. \/ SeesNothing
          \/ Sees(w, OrderOf(w), "DEFINITIVE_REJECT") \/ Sees(w, OrderOf(w), "ACKNOWLEDGED")
      <4>1. /\ OrderOf(w) \in Orders
            /\ venue[OrderOf(w)].status \in {"NONE", "SENT", "LIVE", "MATCHED", "CANCELED"}
        BY <2>1, CallFacts DEF TypeOK
      <4> QED BY <2>5, <4>1 DEF AskVenue, Dead
    <3> QED BY <1>1, <1>2, <1>3, <2>1, <3>1
  <2> QED BY <1>4, <2>2, <2>3, <2>4, <2>5
<1>5. ASSUME NEW w \in Workers, Advance(w) PROVE T'
  BY <1>1, <1>4, <1>5 DEF Advance, SeesNothing, Acquire, TryAcquire, Unlease, CheckSubmit,
     RecordSubmission, NeedsIt, CountFill, ResolveOrder, ReleaseReservation, ConsumeReservation,
     RecordBaseline, RecordCancel, AskCancel
<1>6. ASSUME NEW q \in Processes, Crash(q) PROVE T'
  <2>1. PICK flushed \in [Orders -> LedgerState] :
          seen' = [seen EXCEPT ![q] = [o \in Orders |->
            IF NeedsReconcile(ledger[o]) THEN ledger[o].state ELSE flushed[o]]]
    BY <1>6 DEF Crash
  <2>2. [o \in Orders |-> IF NeedsReconcile(ledger[o]) THEN ledger[o].state ELSE flushed[o]]
          \in [Orders -> LedgerState]
    BY DEF LedgerRow
  <2>3. UNCHANGED seenLog
    BY <1>6 DEF Crash
  <2> QED BY <2>1, <2>2, <2>3
<1> QED BY <1>1, <1>5, <1>6 DEF Next, vars, SeesNothing, StartSubmit, StartReconcile, StartCancel,
     Fault, ExpireReservation, VenueReceives, VenueFills, VenueCancels, VenueChanges, Tick

\* The row of a reservation, and what a fill, a release or the expiry job writes.
ReservationRows == [status : LiveStatus \cup TerminalStatus, intent : Permits, amount : Nat,
                    consumed : Nat, released : Nat, expires : Nat]

LEMMA ReservationRowStep ==
  ASSUME NEW row \in ReservationRows
  PROVE  /\ \A cash \in Nat : \A now : CanConsume(row, cash, now) => AfterConsume(row, cash) \in ReservationRows
         /\ \A reason : CanRelease(row) => AfterRelease(row, reason) \in ReservationRows
<1>1. \A status \in LiveStatus \cup TerminalStatus, consumed \in Nat, released \in Nat :
        Rewritten(row, status, consumed, released) \in ReservationRows
  BY DEF Rewritten, ReservationRows
<1>2. ASSUME NEW cash \in Nat PROVE AfterConsume(row, cash) \in ReservationRows
  <2>1. row.consumed + cash \in Nat /\ row.released \in Nat
    BY DEF ReservationRows
  <2>2. {"CONSUMED", "PARTIALLY_CONSUMED"} \subseteq LiveStatus \cup TerminalStatus
    BY DEF LiveStatus, TerminalStatus
  <2> QED BY <1>1, <2>1, <2>2 DEF AfterConsume
<1>3. ASSUME NEW reason, CanRelease(row) PROVE AfterRelease(row, reason) \in ReservationRows
  <2>1. row.consumed \in Nat /\ row.released + Remaining(row) \in Nat
    BY <1>3 DEF CanRelease, Remaining, ReservationRows
  <2>2. StatusFor(reason) \in LiveStatus \cup TerminalStatus
    BY DEF StatusFor, LiveStatus, TerminalStatus
  <2> QED BY <1>1, <2>1, <2>2 DEF AfterRelease
<1> QED BY <1>2, <1>3

LEMMA ReservationStep ==
  ASSUME TypeOK, CallsTyped, [Next]_vars PROVE reservation' \in [Permits -> ReservationRows]
<1> reservation \in [Permits -> ReservationRows]
  BY DEF TypeOK, ReservationRows
<1>1. CASE UNCHANGED reservation
  BY <1>1
<1>2. ASSUME NEW w \in Workers, ReleaseReservation(w) PROVE reservation' \in [Permits -> ReservationRows]
  <2>1. Permit(w) \in Permits
    BY <1>2, CallFacts DEF ReleaseReservation, At
  <2> QED BY <1>2, <2>1, ReservationRowStep DEF ReleaseReservation
<1>3. ASSUME NEW w \in Workers, ConsumeReservation(w) PROVE reservation' \in [Permits -> ReservationRows]
  <2>1. Permit(w) \in Permits /\ calls[w].cash \in Nat
    BY <1>3, CallFacts, ExecutorAssumption DEF ConsumeReservation, At, Call
  <2> QED BY <1>3, <2>1, ReservationRowStep DEF ConsumeReservation
<1>4. ASSUME NEW p \in Permits, ExpireReservation(p) PROVE reservation' \in [Permits -> ReservationRows]
  BY <1>4, ReservationRowStep DEF ExpireReservation
<1> QED BY <1>1, <1>2, <1>3, <1>4 DEF Next, vars, Advance, StartSubmit, StartReconcile, StartCancel,
     Fault, Crash, VenueReceives, VenueFills, VenueCancels, VenueChanges, Tick,
     Acquire, TryAcquire, Unlease, CheckSubmit, ClaimPermit, RecordSubmission, PlaceOrder,
     UpdateState, NeedsIt, AskVenue, CountFill, ResolveOrder, RecordBaseline, RecordCancel, AskCancel

VenueRow == [status : {"NONE", "SENT", "LIVE", "MATCHED", "CANCELED"}, filled : 0 .. Size,
             sends : Nat]

\* What a step can do to the venue's record of an order.
LEMMA VenueMoves ==
  ASSUME TypeOK, CallsTyped, Next
  PROVE  \/ UNCHANGED venue
         \/ \E w \in Workers : /\ PlaceOrder(w)
                               /\ \E status \in {"NONE", "SENT", "LIVE", "MATCHED", "CANCELED"},
                                     filled \in 0 .. Size : Sent(OrderOf(w), status, filled)
         \/ \E o \in Orders : /\ venue[o].status = "LIVE"
                              /\ venue' = [venue EXCEPT ![o].status = "CANCELED"]
         \/ \E o \in Orders, status \in {"NONE", "LIVE", "MATCHED", "CANCELED"}, filled \in 0 .. Size :
              /\ venue[o].status \in {"SENT", "LIVE"}
              /\ status = "NONE" => venue[o].status = "SENT"
              /\ venue' = [venue EXCEPT ![o].status = status, ![o].filled = filled]
<1> venue \in [Orders -> VenueRow]
  BY DEF TypeOK, VenueRow
<1>1. ASSUME NEW w \in Workers, PlaceOrder(w), ~UNCHANGED venue
      PROVE  \E status \in {"NONE", "SENT", "LIVE", "MATCHED", "CANCELED"},
                filled \in 0 .. Size : Sent(OrderOf(w), status, filled)
  <2> 0 \in 0 .. Size
    BY ExecutorAssumption
  <2> QED BY <1>1 DEF PlaceOrder, PlaceAccepted, PlaceRejected, PlaceNotSent, PlaceTimedOut,
          PlaceUnknown, SentOrLost
<1>2. ASSUME NEW w \in Workers, AskCancel(w), ~UNCHANGED venue
      PROVE  \E o \in Orders : /\ venue[o].status = "LIVE"
                               /\ venue' = [venue EXCEPT ![o].status = "CANCELED"]
  BY <1>2, CallFacts DEF AskCancel, At
<1>3. ASSUME NEW o \in Orders, VenueReceives(o) \/ VenueFills(o) \/ VenueCancels(o)
      PROVE  \E status \in {"NONE", "LIVE", "MATCHED", "CANCELED"}, filled \in 0 .. Size :
               /\ venue[o].status \in {"SENT", "LIVE"}
               /\ status = "NONE" => venue[o].status = "SENT"
               /\ venue' = [venue EXCEPT ![o].status = status, ![o].filled = filled]
  <2> venue[o].filled \in 0 .. Size /\ 0 \in 0 .. Size
    BY ExecutorAssumption DEF VenueRow
  <2>1. CASE VenueReceives(o)
    BY <2>1 DEF VenueReceives, VenueChanges
  <2>2. CASE VenueFills(o)
    <3>1. PICK filled \in venue[o].filled + 1 .. Size :
            VenueChanges(o, IF filled = Size THEN "MATCHED" ELSE "LIVE", filled)
      BY <2>2 DEF VenueFills
    <3>2. filled \in 0 .. Size
      BY ExecutorAssumption
    <3>3. CASE filled = Size
      <4>1. venue' = [venue EXCEPT ![o].status = "MATCHED", ![o].filled = filled]
        BY <3>1, <3>3 DEF VenueChanges
      <4> QED BY <2>2, <3>2, <4>1 DEF VenueFills
    <3>4. CASE filled # Size
      <4>1. venue' = [venue EXCEPT ![o].status = "LIVE", ![o].filled = filled]
        BY <3>1, <3>4 DEF VenueChanges
      <4> QED BY <2>2, <3>2, <4>1 DEF VenueFills
    <3> QED BY <3>3, <3>4
  <2>3. CASE VenueCancels(o)
    BY <2>3 DEF VenueCancels, VenueChanges
  <2> QED BY <1>3, <2>1, <2>2, <2>3
<1> QED BY <1>1, <1>2, <1>3 DEF Next, Advance, StartSubmit, StartReconcile, StartCancel,
     Fault, Crash, ExpireReservation, Tick, Acquire, TryAcquire, Unlease, CheckSubmit, ClaimPermit,
     RecordSubmission, UpdateState, NeedsIt, AskVenue, CountFill, ResolveOrder, ReleaseReservation,
     ConsumeReservation, RecordBaseline, RecordCancel

LEMMA VenueStep == ASSUME TypeOK, CallsTyped, [Next]_vars PROVE venue' \in [Orders -> VenueRow]
<1> venue \in [Orders -> VenueRow]
  BY DEF TypeOK, VenueRow
<1>1. CASE UNCHANGED venue
  BY <1>1
<1>2. ASSUME NEW w \in Workers, PlaceOrder(w),
             NEW status \in {"NONE", "SENT", "LIVE", "MATCHED", "CANCELED"},
             NEW filled \in 0 .. Size, Sent(OrderOf(w), status, filled)
      PROVE  venue' \in [Orders -> VenueRow]
  <2>1. OrderOf(w) \in Orders
    BY <1>2, CallFacts DEF PlaceOrder, At
  <2> QED BY <1>2, <2>1 DEF Sent, VenueRow
<1>3. ASSUME NEW o \in Orders, venue' = [venue EXCEPT ![o].status = "CANCELED"]
      PROVE  venue' \in [Orders -> VenueRow]
  BY <1>3 DEF VenueRow
<1>4. ASSUME NEW o \in Orders, NEW status \in {"NONE", "LIVE", "MATCHED", "CANCELED"},
             NEW filled \in 0 .. Size,
             venue' = [venue EXCEPT ![o].status = status, ![o].filled = filled]
      PROVE  venue' \in [Orders -> VenueRow]
  BY <1>4 DEF VenueRow
<1>5. CASE Next
  BY <1>1, <1>2, <1>3, <1>4, <1>5, VenueMoves
<1> QED BY <1>1, <1>5 DEF vars

LEMMA ClaimedStep ==
  ASSUME TypeOK, CallsTyped, [Next]_vars
  PROVE  /\ claimed' \in [Permits -> Orders \cup {Unclaimed}]
         /\ lease' \in {NoLease} \cup Nat
         /\ submits' \in [Orders -> 0 .. MaxSubmits]
         /\ clock' \in 0 .. MaxTime /\ failures' \in 0 .. MaxFailures
<1>1. claimed' \in [Permits -> Orders \cup {Unclaimed}]
  <2>1. ASSUME NEW w \in Workers, ClaimPermit(w) PROVE claimed' \in [Permits -> Orders \cup {Unclaimed}]
    <3>1. OrderOf(w) \in Orders
      BY <2>1, CallFacts DEF ClaimPermit, At
    <3>2. claimed \in [Permits -> Orders \cup {Unclaimed}]
      BY DEF TypeOK
    <3>3. UNCHANGED claimed \/ claimed' = [claimed EXCEPT ![Permit(w)] = OrderOf(w)]
      BY <2>1 DEF ClaimPermit
    <3> QED BY <3>1, <3>2, <3>3
  <2>2. CASE UNCHANGED claimed
    BY <2>2 DEF TypeOK
  <2> QED BY <2>1, <2>2 DEF Next, vars, Advance, StartSubmit, StartReconcile, StartCancel, Fault, Crash,
       ExpireReservation, VenueReceives, VenueFills, VenueCancels, VenueChanges, Tick, Acquire,
       TryAcquire, Unlease, CheckSubmit, RecordSubmission, PlaceOrder, UpdateState, NeedsIt,
       AskVenue, CountFill, ResolveOrder, ReleaseReservation, ConsumeReservation, RecordBaseline,
       RecordCancel, AskCancel
<1>2. lease' \in {NoLease} \cup Nat
  <2>1. ASSUME NEW w \in Workers, Advance(w) PROVE UNCHANGED lease \/ TakesLease \/ lease' = NoLease
    BY <2>1 DEF Advance, Acquire, TryAcquire, Unlease, CheckSubmit, ClaimPermit, RecordSubmission,
       PlaceOrder, UpdateState, NeedsIt, AskVenue, CountFill, ResolveOrder, ReleaseReservation,
       ConsumeReservation, RecordBaseline, RecordCancel, AskCancel
  <2>2. UNCHANGED lease \/ TakesLease \/ lease' = NoLease
    BY <2>1 DEF Next, vars, StartSubmit, StartReconcile, StartCancel, Fault, Crash,
       ExpireReservation, VenueReceives, VenueFills, VenueCancels, VenueChanges, Tick
  <2> QED BY <2>2, ExecutorAssumption DEF TakesLease, TypeOK
<1>3. submits' \in [Orders -> 0 .. MaxSubmits]
  <2>1. ASSUME NEW w \in Workers, NEW o \in Orders, StartSubmit(w, o)
        PROVE  submits' \in [Orders -> 0 .. MaxSubmits]
    BY <2>1, ExecutorAssumption DEF StartSubmit, TypeOK
  <2>2. CASE UNCHANGED submits
    BY <2>2 DEF TypeOK
  <2> QED BY <2>1, <2>2 DEF Next, vars, Advance, StartReconcile, StartCancel, Fault, Crash,
       ExpireReservation, VenueReceives, VenueFills, VenueCancels, VenueChanges, Tick, Acquire,
       TryAcquire, Unlease, CheckSubmit, ClaimPermit, RecordSubmission, PlaceOrder, UpdateState,
       NeedsIt, AskVenue, CountFill, ResolveOrder, ReleaseReservation, ConsumeReservation,
       RecordBaseline, RecordCancel, AskCancel
<1>4. clock' \in 0 .. MaxTime
  <2>1. UNCHANGED clock \/ Tick
    BY DEF Next, vars, Advance, StartSubmit, StartReconcile, StartCancel, Fault, Crash,
       ExpireReservation, VenueReceives, VenueFills, VenueCancels, VenueChanges, Acquire,
       TryAcquire, Unlease, CheckSubmit, ClaimPermit, RecordSubmission, PlaceOrder, UpdateState,
       NeedsIt, AskVenue, CountFill, ResolveOrder, ReleaseReservation, ConsumeReservation,
       RecordBaseline, RecordCancel, AskCancel
  <2> QED BY <2>1, ExecutorAssumption DEF Tick, TypeOK
<1>5. failures' \in 0 .. MaxFailures
  <2>1. UNCHANGED failures \/ (failures < MaxFailures /\ failures' = failures + 1)
    BY DEF Next, vars, Advance, StartSubmit, StartReconcile, StartCancel, Fault, Crash,
       ExpireReservation, VenueReceives, VenueFills, VenueCancels, VenueChanges, Tick, Acquire,
       TryAcquire, Unlease, CheckSubmit, ClaimPermit, RecordSubmission, PlaceOrder, UpdateState,
       NeedsIt, AskVenue, CountFill, ResolveOrder, ReleaseReservation, ConsumeReservation,
       RecordBaseline, RecordCancel, AskCancel
  <2> QED BY <2>1, ExecutorAssumption DEF TypeOK
<1> QED BY <1>1, <1>2, <1>3, <1>4, <1>5

Typed == TypeOK /\ CallsTyped

LEMMA TypedInit == Init => Typed
<1> SUFFICES ASSUME Init PROVE Typed
  OBVIOUS
<1>1. CallsTyped
  BY DEF Init, CallsTyped, Busy, NoCall
<1>2. 0 \in 0 .. Size /\ 0 \in 0 .. MaxSubmits /\ 0 \in 0 .. MaxTime /\ 0 \in 0 .. MaxFailures
      /\ Size \in Nat /\ PermitTTL \in Nat
  BY ExecutorAssumption
<1>3. ledger \in [Orders -> LedgerRow]
  BY <1>2 DEF Init, NoRow, LedgerRow, LedgerState
<1>4. reservation \in [Permits -> ReservationRows]
  BY <1>2 DEF Init, ReservationRows, LiveStatus
<1>5. venue \in [Orders -> VenueRow]
  BY <1>2 DEF Init, VenueRow
<1>6. /\ claimed \in [Permits -> Orders \cup {Unclaimed}] /\ lease \in {NoLease} \cup Nat
      /\ seen \in [Processes -> [Orders -> LedgerState]] /\ seenLog \in [Orders -> SUBSET LedgerState]
      /\ submits \in [Orders -> 0 .. MaxSubmits] /\ clock \in 0 .. MaxTime /\ failures \in 0 .. MaxFailures
  BY <1>2 DEF Init, LedgerState
<1> QED BY <1>1, <1>3, <1>4, <1>5, <1>6 DEF Typed, TypeOK, CallsTyped, LedgerRow, ReservationRows,
     VenueRow

LEMMA TypedStep == Typed /\ [Next]_vars => Typed'
<1> SUFFICES ASSUME TypeOK, CallsTyped, [Next]_vars PROVE Typed'
  BY DEF Typed
<1>1. CallsTyped'
  BY CallsStep
<1>2. ledger' \in [Orders -> LedgerRow]
  BY LedgerStep
<1>3. reservation' \in [Permits -> ReservationRows]
  BY ReservationStep
<1>4. venue' \in [Orders -> VenueRow]
  BY VenueStep
<1> QED BY <1>1, <1>2, <1>3, <1>4, SeenStep, ClaimedStep DEF Typed, TypeOK, CallsTyped, LedgerRow,
     ReservationRows, VenueRow

(***************************************************************************)
(* Type correctness: every call, ledger row, reservation and venue record  *)
(* keeps its shape, whatever the three handlers, the faults and the        *)
(* crashes do in whatever order.                                           *)
(***************************************************************************)
THEOREM ExecutorTyped == Spec => []TypeOK
<1>1. Typed => TypeOK
  BY DEF Typed
<1> QED BY <1>1, TypedInit, TypedStep, PTL DEF Spec

(***************************************************************************)
(* Submit exactly once                                                     *)
(***************************************************************************)

\* A worker's call changes by its own steps, or a crash ends it.
LEMMA OneCall ==
  ASSUME TypeOK, CallsTyped, Next, NEW w \in Workers
  PROVE  \/ calls'[w] = calls[w] \/ ~Busy(w)'
         \/ \E o \in Orders : StartSubmit(w, o) \/ StartReconcile(w, o) \/ StartCancel(w, o)
         \/ Advance(w) \/ Fault(w)
<1>1. ASSUME NEW v \in Workers, NEW o \in Orders, v # w,
             StartSubmit(v, o) \/ StartReconcile(v, o) \/ StartCancel(v, o)
      PROVE  calls'[w] = calls[w]
  BY <1>1, SubmitStarts, PollStarts DEF Starts
<1>2. ASSUME NEW v \in Workers, v # w, Advance(v) PROVE calls'[w] = calls[w]
  BY <1>2, AcquireMoves, TryAcquireMoves, UnleaseMoves, CheckMoves, ClaimMoves, RecordMoves,
     PlaceOrderMoves, UpdateMoves, NeedsItMoves, AskVenueMoves, CountFillMoves, ResolveMoves,
     ReleaseMoves, ConsumeMoves, BaselineMoves, RecordCancelMoves, AskCancelMoves
     DEF Advance, Moves, Refuses, Settles, Own
<1>3. ASSUME NEW v \in Workers, v # w, Fault(v) PROVE calls'[w] = calls[w]
  BY <1>3, FaultMoves DEF Moves, Own
<1>4. ASSUME NEW q \in Processes, Crash(q) PROVE calls'[w] = calls[w] \/ ~Busy(w)'
  BY <1>4, CrashEnds
<1> QED BY <1>1, <1>2, <1>3, <1>4 DEF Next, ExpireReservation, VenueReceives, VenueFills,
     VenueCancels, VenueChanges, Tick

\* The claim of a permit nobody holds yet.
Claims(w) ==
  /\ ClaimPermit(w) /\ Claimable(Permit(w))
  /\ claimed' = [claimed EXCEPT ![Permit(w)] = OrderOf(w)]
  /\ UNCHANGED venue

LEMMA ClaimedMoves ==
  ASSUME TypeOK, CallsTyped, Next
  PROVE  UNCHANGED claimed \/ \E w \in Workers : Claims(w)
<1>1. ASSUME NEW w \in Workers, ClaimPermit(w) PROVE UNCHANGED claimed \/ Claims(w)
  BY <1>1 DEF ClaimPermit, Claims
<1> QED BY <1>1 DEF Next, Advance, StartSubmit, StartReconcile, StartCancel, Fault, Crash,
     ExpireReservation, VenueReceives, VenueFills, VenueCancels, VenueChanges, Tick, Acquire,
     TryAcquire, Unlease, CheckSubmit, RecordSubmission, PlaceOrder, UpdateState, NeedsIt,
     AskVenue, CountFill, ResolveOrder, ReleaseReservation, ConsumeReservation, RecordBaseline,
     RecordCancel, AskCancel

\* A call about to place its order was so before, or has just claimed.
LEMMA PlacingMoves ==
  ASSUME TypeOK, CallsTyped, Next, NEW w \in Workers, Placing(w)'
  PROVE  /\ Busy(w) /\ OrderOf(w)' = OrderOf(w) /\ ~PlaceOrder(w)
         /\ Placing(w) \/ (Claims(w) /\ ~Placing(w))
<1>1. ~PlaceOrder(w)
  BY PlaceOrderMoves DEF Settles
<1>2. CASE calls'[w] = calls[w]
  BY <1>1, <1>2 DEF Placing, Busy, OrderOf
<1>3. CASE ~Busy(w)'
  BY <1>3 DEF Placing
<1>4. CASE \E o \in Orders : StartSubmit(w, o) \/ StartReconcile(w, o) \/ StartCancel(w, o)
  BY <1>4, SubmitStarts, PollStarts DEF Starts
<1>5. ASSUME Moves(w), ~At(w, "claim")
      PROVE  Busy(w) /\ OrderOf(w)' = OrderOf(w) /\ Placing(w)
  BY <1>5 DEF Moves, Own, Placing
<1>6. CASE Fault(w)
  BY <1>1, <1>6, FaultMoves DEF Moves, Own, Placing
<1>7. CASE ClaimPermit(w)
  <2>1. ~Refuses(w)
    BY DEF Refuses, Settles
  <2>2. Moves(w) /\ ~Placing(w) /\ Claimable(Permit(w))
        /\ claimed' = [claimed EXCEPT ![Permit(w)] = OrderOf(w)]
    BY <1>7, <2>1, ClaimMoves
  <2>3. UNCHANGED venue
    BY <1>7 DEF ClaimPermit
  <2> QED BY <1>1, <1>7, <2>2, <2>3 DEF Claims, Moves, Own, Placing
<1>8. CASE Advance(w) /\ ~ClaimPermit(w) /\ ~PlaceOrder(w)
  <2>1. Moves(w)
    BY <1>8, AcquireMoves, TryAcquireMoves, UnleaseMoves, CheckMoves, RecordMoves,
       UpdateMoves, NeedsItMoves, AskVenueMoves, CountFillMoves, ResolveMoves,
       ReleaseMoves, ConsumeMoves, BaselineMoves, RecordCancelMoves, AskCancelMoves
       DEF Advance, Refuses, Settles
  <2>2. ~At(w, "claim")
    BY <1>8 DEF Advance, At, Acquire, TryAcquire, Unlease, CheckSubmit, RecordSubmission,
       UpdateState, NeedsIt, AskVenue, CountFill, ResolveOrder, ReleaseReservation,
       ConsumeReservation, RecordBaseline, RecordCancel, AskCancel
  <2> QED BY <1>1, <1>5, <2>1, <2>2
<1> QED BY <1>1, <1>2, <1>3, <1>4, <1>6, <1>7, <1>8, OneCall

LEMMA ClaimantInit == Init => PlacedByClaimant
  BY DEF Init, PlacedByClaimant, Placing, Busy, NoCall

LEMMA ClaimantStep == ASSUME Typed, PlacedByClaimant, [Next]_vars PROVE PlacedByClaimant'
<1> TypeOK /\ CallsTyped
  BY DEF Typed
<1>1. CASE UNCHANGED vars
  BY <1>1 DEF vars, PlacedByClaimant, Placing, Busy, Permit, OrderOf
<1>2. CASE Next
  <2>1. /\ venue \in [Orders -> VenueRow] /\ claimed \in [Permits -> Orders \cup {Unclaimed}]
        /\ PermitOf \in [Orders -> Permits] /\ Unclaimed \notin Orders
    BY ExecutorAssumption DEF TypeOK, VenueRow
  <2>2. \A o \in Orders : claimed[PermitOf[o]] # Unclaimed =>
          claimed'[PermitOf[o]] = claimed[PermitOf[o]]
    <3>1. ASSUME NEW w \in Workers, Claims(w), NEW o \in Orders, claimed[PermitOf[o]] # Unclaimed
          PROVE  claimed'[PermitOf[o]] = claimed[PermitOf[o]]
      BY <2>1, <3>1 DEF Claims, Claimable
    <3> QED BY <1>2, <3>1, ClaimedMoves
  <2>3. ASSUME NEW o \in Orders
        PROVE  \/ venue'[o].sends = venue[o].sends
               \/ \E w \in Workers : /\ PlaceOrder(w) /\ OrderOf(w) = o
                                     /\ venue'[o].sends = venue[o].sends + 1
    <3>1. ASSUME NEW w \in Workers, PlaceOrder(w), NEW status, NEW filled,
                 Sent(OrderOf(w), status, filled)
          PROVE  \/ venue'[o].sends = venue[o].sends
                 \/ OrderOf(w) = o /\ venue'[o].sends = venue[o].sends + 1
      BY <2>1, <3>1 DEF Sent, VenueRow
    <3>2. ASSUME NEW x \in Orders, NEW status, NEW filled,
                 \/ venue' = [venue EXCEPT ![x].status = status]
                 \/ venue' = [venue EXCEPT ![x].status = status, ![x].filled = filled]
          PROVE  venue'[o].sends = venue[o].sends
      BY <2>1, <3>2 DEF VenueRow
    <3> QED BY <1>2, <3>1, <3>2, VenueMoves
  <2>4. ASSUME NEW w \in Workers, Placing(w)'
        PROVE  (claimed[Permit(w)] = OrderOf(w) /\ venue[OrderOf(w)].sends = 0)'
    <3>1. /\ Busy(w) /\ OrderOf(w)' = OrderOf(w) /\ ~PlaceOrder(w) /\ Permit(w)' = Permit(w)
          /\ OrderOf(w) \in Orders
      BY <1>2, <2>4, PlacingMoves, CallFacts DEF Permit
    <3>2. CASE Placing(w)
      <4>1. claimed[Permit(w)] = OrderOf(w) /\ venue[OrderOf(w)].sends = 0
        BY <3>2 DEF PlacedByClaimant
      <4>2. claimed'[Permit(w)] = OrderOf(w)
        BY <2>1, <2>2, <3>1, <4>1 DEF Permit
      <4>3. \A v \in Workers : PlaceOrder(v) => OrderOf(v) # OrderOf(w)
        BY <3>1, <3>2, PlaceOrderMoves DEF PlacedByClaimant
      <4> QED BY <2>3, <3>1, <4>1, <4>2, <4>3
    <3>3. CASE Claims(w)
      <4>1. claimed'[Permit(w)] = OrderOf(w) /\ venue' = venue
        BY <2>1, <3>1, <3>3, CallFacts DEF Claims
      <4>2. claimed[PermitOf[OrderOf(w)]] = Unclaimed
        BY <3>3 DEF Claims, Claimable, Permit
      <4>3. venue[OrderOf(w)].sends \in Nat /\ ~(venue[OrderOf(w)].sends > 0)
        BY <2>1, <3>1, <4>2 DEF PlacedByClaimant, VenueRow
      <4> QED BY <3>1, <4>1, <4>3
    <3> QED BY <1>2, <2>4, <3>2, <3>3, PlacingMoves
  <2>5. ASSUME NEW v \in Workers, NEW w \in Workers, Placing(v)', Placing(w)',
               OrderOf(v)' = OrderOf(w)'
        PROVE  v = w
    <3>1. /\ Busy(v) /\ Busy(w) /\ OrderOf(v) = OrderOf(w) /\ OrderOf(v) \in Orders
          /\ Permit(v) = Permit(w)
      BY <1>2, <2>5, PlacingMoves, CallFacts DEF Permit
    <3>2. ASSUME NEW x \in Workers, NEW y \in Workers, Claims(x), Placing(y), OrderOf(x) = OrderOf(y),
                 OrderOf(y) \in Orders
          PROVE  FALSE
      BY <2>1, <3>2 DEF Claims, Claimable, PlacedByClaimant, Permit
    <3>3. CASE Placing(v) /\ Placing(w)
      BY <3>1, <3>3 DEF PlacedByClaimant
    <3>4. CASE Claims(v) /\ ~Placing(v) /\ Claims(w) /\ ~Placing(w) /\ v # w
      <4>1. calls'[w] = calls[w]
        BY <3>4, ClaimMoves DEF Claims, Moves, Refuses, Settles, Own
      <4> QED BY <2>5, <3>4, <4>1 DEF Placing, Busy
    <3> QED BY <1>2, <2>5, <3>1, <3>2, <3>3, <3>4, PlacingMoves
  <2>6. ASSUME NEW o \in Orders, venue'[o].sends > 0
        PROVE  claimed'[PermitOf[o]] = o /\ venue'[o].sends = 1
    <3>1. CASE venue'[o].sends = venue[o].sends
      BY <2>1, <2>2, <2>6, <3>1 DEF PlacedByClaimant
    <3>2. ASSUME NEW w \in Workers, PlaceOrder(w), OrderOf(w) = o,
                 venue'[o].sends = venue[o].sends + 1
          PROVE  claimed'[PermitOf[o]] = o /\ venue'[o].sends = 1
      <4>1. claimed[PermitOf[o]] = o /\ venue[o].sends = 0
        BY <3>2, PlaceOrderMoves DEF PlacedByClaimant, Permit
      <4> QED BY <2>1, <2>2, <3>2, <4>1
    <3> QED BY <2>3, <3>1, <3>2
  <2>7. ASSUME NEW o \in Orders, venue'[o].sends = 0 PROVE venue'[o].status = "NONE"
    <3>1. venue[o].sends \in Nat /\ venue[o] \in VenueRow
      BY <2>1 DEF VenueRow
    <3>2. venue[o].sends = 0 /\ venue[o].status = "NONE"
      BY <2>3, <2>7, <3>1 DEF PlacedByClaimant
    <3>3. ASSUME NEW w \in Workers, NEW status, NEW filled, Sent(OrderOf(w), status, filled)
          PROVE  venue'[o] = venue[o]
      BY <2>1, <2>7, <3>1, <3>2, <3>3 DEF Sent
    <3> QED BY <1>2, <2>1, <3>2, <3>3, VenueMoves
  <2> QED BY <2>4, <2>5, <2>6, <2>7 DEF PlacedByClaimant
<1> QED BY <1>1, <1>2

(***************************************************************************)
(* Submit exactly once, for any number of orders on a permit, of workers   *)
(* and of processes: the claim and the record of the claimant decide, the  *)
(* lease plays no part.                                                    *)
(***************************************************************************)
THEOREM PermitsSpentOnce == Spec => []PermitSpentOnce
<1>1. PlacedByClaimant => PermitSpentOnce
  BY DEF PlacedByClaimant, PermitSpentOnce
<1>2. Spec => [](Typed /\ PlacedByClaimant)
  <2>1. Init => Typed /\ PlacedByClaimant
    BY TypedInit, ClaimantInit
  <2>2. Typed /\ PlacedByClaimant /\ [Next]_vars => (Typed /\ PlacedByClaimant)'
    BY TypedStep, ClaimantStep
  <2> QED BY <2>1, <2>2, PTL DEF Spec
<1> QED BY <1>1, <1>2, PTL

(***************************************************************************)
(* The verdict of the ledger is what became of the order                   *)
(***************************************************************************)

\* A call that may resolve its order could do so before, or has just learnt
\* what became of it.
Learns(w) ==
  LET o == OrderOf(w)  reply == calls'[w].reply IN
  \/ /\ PlaceOrder(w)
     /\ \E status \in {"LIVE", "MATCHED", "CANCELED"}, filled \in 0 .. Size :
          Sent(o, status, filled) /\ reply = Reply(TRUE, status, filled)
  \/ PlaceOrder(w) /\ UNCHANGED venue /\ reply = Reply(FALSE, "REJECTED", 0)
  \/ /\ UNCHANGED venue /\ venue[o].status \in {"LIVE", "MATCHED", "CANCELED"}
     /\ reply = Reply(TRUE, venue[o].status, venue[o].filled)
  \/ /\ venue' = [venue EXCEPT ![o].status = "CANCELED"]
     /\ reply = Reply(FALSE, "CANCELED", 0)

LEMMA ResolvingMoves ==
  ASSUME TypeOK, CallsTyped, AdapterReports, Next, NEW w \in Workers, MayResolve(w)'
  PROVE  /\ Busy(w) /\ OrderOf(w)' = OrderOf(w)
         /\ (MayResolve(w) /\ calls'[w].reply = calls[w].reply) \/ Learns(w)
<1>1. Busy(w)'
  BY DEF MayResolve
<1>2. CASE calls'[w] = calls[w]
  BY <1>2 DEF MayResolve, Busy, OrderOf
<1>3. CASE \E o \in Orders : StartSubmit(w, o) \/ StartReconcile(w, o) \/ StartCancel(w, o)
  BY <1>3, SubmitStarts, PollStarts DEF Starts
<1>4. CASE Moves(w)
  BY <1>1, <1>4 DEF Moves, Own
<1>5. CASE Fault(w)
  BY <1>4, <1>5, FaultMoves
<1>6. CASE PlaceOrder(w)
  <2>1. Busy(w) /\ Settles(w)
    BY <1>6, PlaceOrderMoves DEF PlaceOrder, At
  <2>2. OrderOf(w)' = OrderOf(w)
    BY <1>1, <2>1 DEF Settles, Own
  <2>3. CASE PlaceAccepted(w)
    BY <1>1, <1>6, <2>1, <2>2, <2>3, AcceptedMoves DEF Learns
  <2>4. CASE PlaceNotSent(w)
    BY <1>1, <1>6, <2>1, <2>2, <2>4, NotSentMoves DEF Learns, PlaceNotSent
  <2>5. CASE PlaceRejected(w) \/ PlaceTimedOut(w) \/ PlaceUnknown(w)
    BY <2>1, <2>5, RejectedMoves, UnansweredMoves
  <2> QED BY <1>6, <2>3, <2>4, <2>5 DEF PlaceOrder
<1>7. CASE AskVenue(w)
  <2>1. Busy(w)
    BY <1>7 DEF AskVenue, At
  <2>2. CASE Settles(w) /\ venue[OrderOf(w)].status \in {"LIVE", "MATCHED", "CANCELED"}
             /\ calls'[w].reply = Reply(AdapterReports, venue[OrderOf(w)].status,
                                        venue[OrderOf(w)].filled)
    <3>1. AdapterReports = TRUE
      BY ExecutorAssumption
    <3> QED BY <1>1, <1>7, <2>1, <2>2, <3>1, AskVenueMoves DEF Learns, Settles, Own
  <2> QED BY <1>1, <1>4, <1>7, <2>2, AskVenueMoves
<1>8. CASE AskCancel(w)
  <2>1. Busy(w)
    BY <1>8 DEF AskCancel, At
  <2> QED BY <1>1, <1>4, <1>8, <2>1, AskCancelMoves DEF Learns, Settles, Own
<1>9. CASE Advance(w) /\ ~PlaceOrder(w) /\ ~AskVenue(w) /\ ~AskCancel(w)
  <2>1. Moves(w)
    BY <1>9, AcquireMoves, TryAcquireMoves, UnleaseMoves, CheckMoves, ClaimMoves, RecordMoves,
       UpdateMoves, NeedsItMoves, CountFillMoves, ResolveMoves, ReleaseMoves, ConsumeMoves,
       BaselineMoves, RecordCancelMoves DEF Advance, Refuses
  <2> QED BY <1>4, <2>1
<1> QED BY <1>1, <1>2, <1>3, <1>5, <1>6, <1>7, <1>8, <1>9, OneCall

\* The venue's status of an order changes by the call that places it, or
\* while the order is open.
LEMMA StatusMoves ==
  ASSUME Typed, PlacedByClaimant, Next, NEW o \in Orders
  PROVE  \/ venue'[o].status = venue[o].status
         \/ /\ venue[o].status = "NONE"
            /\ \E w \in Workers : Placing(w) /\ OrderOf(w) = o /\ PlaceOrder(w)
         \/ venue[o].status \in {"SENT", "LIVE"}
<1> TypeOK /\ CallsTyped /\ venue \in [Orders -> VenueRow]
  BY DEF Typed, TypeOK, VenueRow
<1>1. ASSUME NEW w \in Workers, PlaceOrder(w), NEW status, NEW filled, Sent(OrderOf(w), status, filled)
      PROVE  \/ venue'[o].status = venue[o].status
             \/ Placing(w) /\ OrderOf(w) = o /\ venue[o].status = "NONE"
  BY <1>1, PlaceOrderMoves DEF PlacedByClaimant, Sent
<1>2. ASSUME NEW x \in Orders, NEW status, NEW filled, venue[x].status \in {"SENT", "LIVE"},
             \/ venue' = [venue EXCEPT ![x].status = status]
             \/ venue' = [venue EXCEPT ![x].status = status, ![x].filled = filled]
      PROVE  venue'[o].status = venue[o].status \/ venue[o].status \in {"SENT", "LIVE"}
  BY <1>2 DEF VenueRow
<1> QED BY <1>1, <1>2, VenueMoves

LEMMA ClaimStays ==
  ASSUME Typed, Next, NEW o \in Orders, claimed[PermitOf[o]] # Unclaimed
  PROVE  claimed'[PermitOf[o]] = claimed[PermitOf[o]]
<1>1. ASSUME NEW w \in Workers, Claims(w) PROVE claimed'[PermitOf[o]] = claimed[PermitOf[o]]
  BY <1>1 DEF Claims, Claimable, Typed, TypeOK
<1> QED BY <1>1, ClaimedMoves DEF Typed

LEMMA VerdictStays ==
  ASSUME Typed, PlacedByClaimant, Next, NEW o \in Orders, NEW verdict, VerdictHolds(o, verdict)
  PROVE  VerdictHolds(o, verdict)'
<1> TypeOK /\ CallsTyped
  BY DEF Typed
<1>1. CASE venue[o].status \in {"MATCHED", "CANCELED"}
  <2>1. venue'[o].status = venue[o].status
    BY <1>1, StatusMoves
  <2> QED BY <1>1, <2>1 DEF VerdictHolds, Over
<1>2. CASE /\ verdict # "ACKNOWLEDGED" /\ venue[o].status = "NONE"
           /\ claimed[PermitOf[o]] # Unclaimed
           /\ \A w \in Workers : ~(Placing(w) /\ OrderOf(w) = o)
  <2>1. venue'[o].status = "NONE"
    BY <1>2, StatusMoves
  <2>2. claimed'[PermitOf[o]] # Unclaimed
    BY <1>2, ClaimStays
  <2>3. ASSUME NEW w \in Workers, Placing(w)', OrderOf(w)' = o PROVE FALSE
    <3>1. OrderOf(w) = o /\ (Placing(w) \/ Claims(w))
      BY <2>3, PlacingMoves
    <3> QED BY <1>2, <3>1 DEF Claims, Claimable, Permit
  <2> QED BY <1>2, <2>1, <2>2, <2>3 DEF VerdictHolds, Over
<1> QED BY <1>1, <1>2 DEF VerdictHolds, Over

\* What a call has just learnt is true, and final unless the order rests.
LEMMA LearntIsTrue ==
  ASSUME Typed, PlacedByClaimant, Next, NEW w \in Workers, Learns(w),
         NEW o \in Orders, o = OrderOf(w), NEW reply, reply = calls'[w].reply
  PROVE  reply.status \in Resting \/ VerdictHolds(o, Verdict(reply))'
<1> TypeOK /\ CallsTyped /\ venue \in [Orders -> VenueRow]
  BY DEF Typed, TypeOK, VenueRow
<1>1. /\ \A filled : Verdict(Reply(TRUE, "MATCHED", filled)) = "ACKNOWLEDGED"
      /\ \A ack, filled : Verdict(Reply(ack, "CANCELED", filled)) = "DEFINITIVE_REJECT"
      /\ \A ack, filled : Verdict(Reply(ack, "REJECTED", filled)) = "DEFINITIVE_REJECT"
      /\ \A ack, filled : Reply(ack, "LIVE", filled).status \in Resting
  BY DEF Verdict, Reply, Dead, Resting
<1>2. ASSUME NEW status \in {"LIVE", "MATCHED", "CANCELED"}, NEW filled,
             venue'[o].status = status, reply = Reply(TRUE, status, filled)
      PROVE  reply.status \in Resting \/ VerdictHolds(o, Verdict(reply))'
  BY <1>1, <1>2 DEF VerdictHolds, Over
<1>3. CASE /\ PlaceOrder(w)
           /\ \E status \in {"LIVE", "MATCHED", "CANCELED"}, filled \in 0 .. Size :
                Sent(o, status, filled) /\ reply = Reply(TRUE, status, filled)
  <2>1. PICK status \in {"LIVE", "MATCHED", "CANCELED"}, filled \in 0 .. Size :
          Sent(o, status, filled) /\ reply = Reply(TRUE, status, filled)
    BY <1>3
  <2>2. venue'[o].status = status
    BY <2>1 DEF Sent
  <2> QED BY <1>2, <2>1, <2>2
<1>4. CASE PlaceOrder(w) /\ UNCHANGED venue /\ reply = Reply(FALSE, "REJECTED", 0)
  <2>1. Placing(w) /\ claimed[PermitOf[o]] = o /\ venue[o].sends = 0
    BY <1>4, PlaceOrderMoves DEF PlacedByClaimant, Permit
  <2>2. venue'[o].status = "NONE"
    BY <1>4, <2>1 DEF PlacedByClaimant
  <2>3. claimed'[PermitOf[o]] # Unclaimed
    BY <2>1, ClaimStays, ExecutorAssumption
  <2>4. ASSUME NEW v \in Workers, Placing(v)', OrderOf(v)' = o PROVE FALSE
    <3>1. OrderOf(v) = o /\ ~PlaceOrder(v) /\ (Placing(v) \/ Claims(v))
      BY <2>4, PlacingMoves
    <3>2. ~Claims(v)
      BY <2>1, <3>1, ExecutorAssumption DEF Claims, Claimable, Permit
    <3> QED BY <1>4, <2>1, <3>1, <3>2 DEF PlacedByClaimant
  <2> QED BY <1>1, <1>4, <2>2, <2>3, <2>4 DEF VerdictHolds, Over
<1>5. CASE /\ UNCHANGED venue /\ venue[o].status \in {"LIVE", "MATCHED", "CANCELED"}
           /\ reply = Reply(TRUE, venue[o].status, venue[o].filled)
  BY <1>2, <1>5
<1>6. CASE /\ venue' = [venue EXCEPT ![o].status = "CANCELED"]
           /\ reply = Reply(FALSE, "CANCELED", 0)
  <2>1. venue'[o].status = "CANCELED"
    BY <1>6 DEF VenueRow
  <2> QED BY <1>1, <1>6, <2>1 DEF VerdictHolds, Over
<1> QED BY <1>3, <1>4, <1>5, <1>6, Zenon DEF Learns

\* The ledger closes an order by the verdict of a call, and by nothing else.
LEMMA LedgerMoves ==
  ASSUME Typed, Next, NEW o \in Orders
  PROVE  \/ ledger'[o].resolved = ledger[o].resolved /\ ledger'[o].verdict = ledger[o].verdict
         \/ \E w \in Workers : /\ ResolveOrder(w) /\ OrderOf(w) = o
                               /\ ledger'[o].verdict = Verdict(calls[w].reply)
                               /\ calls[w].reply.status \notin Resting
<1> TypeOK /\ CallsTyped /\ ledger \in [Orders -> LedgerRow]
  BY DEF Typed, TypeOK, LedgerRow
<1> DEFINE Same(row, new) == new.resolved = row.resolved /\ new.verdict = row.verdict
<1>1. ASSUME NEW row \in LedgerRow, NEW s
      PROVE  Same(row, Upserted(row)) /\ Same(row, StateUpdated(row, s))
             /\ Same(row, CancelRequested(row)) /\ Same(row, FillCounted(row, s))
  BY DEF Upserted, StateUpdated, CancelRequested, FillCounted, InState, Entry, LedgerRow
<1>2. ASSUME NEW row \in LedgerRow, NEW reply
      PROVE  Same(row, Resolved(row, reply)) \/
             (Resolved(row, reply).verdict = Verdict(reply) /\ reply.status \notin Resting)
  BY DEF Resolved, InState, Entry, LedgerRow
<1> HIDE DEF Same
<1>3. ASSUME NEW x, NEW row, ledger' = [ledger EXCEPT ![x] = row], x = o => Same(ledger[o], row)
      PROVE  Same(ledger[o], ledger'[o])
  <2>1. CASE x = o
    BY <1>3, <2>1
  <2>2. CASE x # o
    BY <1>3, <2>2 DEF Same
  <2> QED BY <2>1, <2>2
<1>4. ASSUME NEW w \in Workers, ResolveOrder(w)
      PROVE  \/ Same(ledger[o], ledger'[o])
             \/ /\ OrderOf(w) = o /\ ledger'[o].verdict = Verdict(calls[w].reply)
                /\ calls[w].reply.status \notin Resting
  <2>1. ledger' = [ledger EXCEPT ![OrderOf(w)] = Resolved(ledger[OrderOf(w)], calls[w].reply)]
    BY <1>4 DEF ResolveOrder
  <2>2. CASE OrderOf(w) = o
    <3>1. ledger'[o] = Resolved(ledger[o], calls[w].reply)
      BY <2>1, <2>2
    <3> QED BY <1>2, <2>2, <3>1
  <2>3. CASE OrderOf(w) # o
    BY <1>3, <2>1, <2>3
  <2> QED BY <2>2, <2>3
<1>5. ASSUME NEW w \in Workers, Advance(w), ~ResolveOrder(w), ~UNCHANGED ledger
      PROVE  Same(ledger[o], ledger'[o])
  <2>1. \E s : \/ ledger' = [ledger EXCEPT ![OrderOf(w)] = Upserted(ledger[OrderOf(w)])]
               \/ ledger' = [ledger EXCEPT ![OrderOf(w)] = StateUpdated(ledger[OrderOf(w)], s)]
               \/ ledger' = [ledger EXCEPT ![OrderOf(w)] = CancelRequested(ledger[OrderOf(w)])]
               \/ ledger' = [ledger EXCEPT ![OrderOf(w)] = FillCounted(ledger[OrderOf(w)], s)]
    BY <1>5 DEF Advance, Acquire, TryAcquire, Unlease, CheckSubmit, ClaimPermit,
       RecordSubmission, PlaceOrder, UpdateState, NeedsIt, AskVenue, CountFill,
       ReleaseReservation, ConsumeReservation, RecordBaseline, RecordCancel, AskCancel
  <2> QED BY <1>1, <1>3, <2>1
<1>6. Same(ledger[o], ledger'[o]) \/ \E w \in Workers : ResolveOrder(w)
  <2>1. UNCHANGED ledger \/ \E w \in Workers : Advance(w)
    BY DEF Next, StartSubmit, StartReconcile, StartCancel, Fault, Crash,
       ExpireReservation, VenueReceives, VenueFills, VenueCancels, VenueChanges, Tick
  <2>2. CASE UNCHANGED ledger
    BY <2>2 DEF Same
  <2>3. ASSUME NEW w \in Workers, Advance(w), ~UNCHANGED ledger
        PROVE  Same(ledger[o], ledger'[o]) \/ ResolveOrder(w)
    BY <1>5, <2>3
  <2> QED BY <2>1, <2>2, <2>3
<1> QED BY <1>4, <1>6 DEF Same

LEMMA VerdictsInit == Init => VerdictsAreFinal
  BY DEF Init, VerdictsAreFinal, MayResolve, Busy, NoCall, NoRow

LEMMA VerdictsStep ==
  ASSUME AdapterReports, Typed, PlacedByClaimant, VerdictsAreFinal, [Next]_vars
  PROVE  VerdictsAreFinal'
<1> TypeOK /\ CallsTyped
  BY DEF Typed
<1>1. CASE UNCHANGED vars
  BY <1>1 DEF vars, VerdictsAreFinal, VerdictHolds, Over, MayResolve, Placing, Busy, OrderOf
<1>2. CASE Next
  <2>1. ASSUME NEW w \in Workers, MayResolve(w)'
        PROVE  (\/ calls[w].reply.status \in Resting
                \/ VerdictHolds(OrderOf(w), Verdict(calls[w].reply)))'
    <3>1. Busy(w) /\ OrderOf(w)' = OrderOf(w) /\ OrderOf(w) \in Orders
      BY <1>2, <2>1, ResolvingMoves, CallFacts
    <3>2. CASE MayResolve(w) /\ calls'[w].reply = calls[w].reply
      <4>1. CASE calls[w].reply.status \in Resting
        BY <3>2, <4>1
      <4>2. PICK o, verdict : o = OrderOf(w) /\ verdict = Verdict(calls[w].reply)
        OBVIOUS
      <4>3. CASE VerdictHolds(o, verdict)
        <5>1. VerdictHolds(o, verdict)'
          BY <1>2, <3>1, <4>2, <4>3, VerdictStays
        <5>2. o = OrderOf(w)' /\ verdict = Verdict(calls'[w].reply)
          BY <3>1, <3>2, <4>2
        <5> QED BY <5>1, <5>2
      <4> QED BY <3>2, <4>1, <4>2, <4>3 DEF VerdictsAreFinal
    <3>3. CASE Learns(w)
      <4>0. PICK o \in Orders : o = OrderOf(w)
        BY <3>1
      <4>1. PICK reply : o = OrderOf(w) /\ reply = calls'[w].reply
        BY <4>0
      <4>2. reply.status \in Resting \/ VerdictHolds(o, Verdict(reply))'
        BY <1>2, <3>3, <4>1, LearntIsTrue
      <4>3. o = OrderOf(w)'
        BY <3>1, <4>1
      <4> QED BY <4>1, <4>2, <4>3
    <3> QED BY <1>2, <2>1, <3>2, <3>3, ResolvingMoves
  <2>2. ASSUME NEW o \in Orders, ledger'[o].resolved
        PROVE  VerdictHolds(o, ledger[o].verdict)'
    <3>1. PICK verdict : verdict = ledger'[o].verdict
      OBVIOUS
    <3>2. VerdictHolds(o, verdict)
      <4>1. CASE ledger'[o].resolved = ledger[o].resolved /\ ledger'[o].verdict = ledger[o].verdict
        BY <2>2, <3>1, <4>1 DEF VerdictsAreFinal
      <4>2. ASSUME NEW w \in Workers, ResolveOrder(w), OrderOf(w) = o,
                   ledger'[o].verdict = Verdict(calls[w].reply), calls[w].reply.status \notin Resting
            PROVE  VerdictHolds(o, verdict)
        <5>1. Busy(w) /\ Head(calls[w].todo) = "resolve"
          BY <4>2 DEF ResolveOrder, At
        <5>2. MayResolve(w)
          BY <5>1, CallFacts, SeqRest DEF MayResolve
        <5> QED BY <3>1, <4>2, <5>2 DEF VerdictsAreFinal
      <4> QED BY <1>2, <4>1, <4>2, LedgerMoves
    <3>3. VerdictHolds(o, verdict)'
      BY <1>2, <3>2, VerdictStays
    <3> QED BY <3>1, <3>3
  <2> QED BY <2>1, <2>2 DEF VerdictsAreFinal
<1> QED BY <1>1, <1>2

(***************************************************************************)
(* Where the adapter reports what the VenueAdapter contract asks of it,    *)
(* the ledger closes an order only with what became of it.                 *)
(***************************************************************************)
THEOREM VerdictsMatchVenue == AdapterReports => (Spec => []VerdictMatchesVenue)
<1> SUFFICES ASSUME AdapterReports PROVE Spec => []VerdictMatchesVenue
  OBVIOUS
<1>1. VerdictsAreFinal => VerdictMatchesVenue
  BY DEF VerdictsAreFinal, VerdictHolds, Over, VerdictMatchesVenue
<1>2. Spec => [](Typed /\ PlacedByClaimant /\ VerdictsAreFinal)
  <2>1. Init => Typed /\ PlacedByClaimant /\ VerdictsAreFinal
    BY TypedInit, ClaimantInit, VerdictsInit
  <2>2. Typed /\ PlacedByClaimant /\ VerdictsAreFinal /\ [Next]_vars
          => (Typed /\ PlacedByClaimant /\ VerdictsAreFinal)'
    BY TypedStep, ClaimantStep, VerdictsStep
  <2> QED BY <2>1, <2>2, PTL DEF Spec
<1> QED BY <1>1, <1>2, PTL

(***************************************************************************)
(* The cash of an open order                                               *)
(***************************************************************************)

LEMMA PlacingCalls ==
  ASSUME TypeOK, CallsTyped, Next, NEW w \in Workers, MayPlace(w)'
  PROVE  \/ StartSubmit(w, OrderOf(w)')
         \/ Busy(w) /\ MayPlace(w) /\ OrderOf(w)' = OrderOf(w) /\ ~PlaceOrder(w)
<1>1. Busy(w)' /\ ~PlaceOrder(w)
  BY PlaceOrderMoves DEF MayPlace, Settles
<1>2. CASE calls'[w] = calls[w]
  BY <1>1, <1>2 DEF MayPlace, Busy, OrderOf
<1>3. ASSUME NEW o \in Orders, StartSubmit(w, o) PROVE StartSubmit(w, OrderOf(w)')
  BY <1>3, SubmitStarts DEF Starts
<1>4. ASSUME NEW o \in Orders, StartReconcile(w, o) \/ StartCancel(w, o) PROVE FALSE
  BY <1>4, PollStarts
<1>5. CASE Moves(w)
  BY <1>1, <1>5 DEF Moves, Own, MayPlace
<1>6. CASE Advance(w)
  BY <1>1, <1>5, <1>6, AcquireMoves, TryAcquireMoves, UnleaseMoves, CheckMoves, ClaimMoves,
     RecordMoves, UpdateMoves, NeedsItMoves, AskVenueMoves, CountFillMoves, ResolveMoves,
     ReleaseMoves, ConsumeMoves, BaselineMoves, RecordCancelMoves, AskCancelMoves
     DEF Advance, Refuses, Settles
<1> QED BY <1>1, <1>2, <1>3, <1>4, <1>5, <1>6, FaultMoves, OneCall

\* A call that may release its order's cash could do so before, or has just
\* failed to place the order or learnt that the venue dropped it.
GivesUp(w) ==
  \/ /\ MayPlace(w) /\ ~MayPlace(w)'
     /\ UNCHANGED venue \/ venue'[OrderOf(w)].status = "NONE"
  \/ venue'[OrderOf(w)].status = "CANCELED"

LEMMA ReleasingMoves ==
  ASSUME TypeOK, CallsTyped, Next, NEW w \in Workers, MayRelease(w)'
  PROVE  Busy(w) /\ OrderOf(w)' = OrderOf(w) /\ (MayRelease(w) \/ GivesUp(w))
<1> venue \in [Orders -> VenueRow]
  BY DEF TypeOK, VenueRow
<1>1. Busy(w)'
  BY DEF MayRelease
<1>2. CASE calls'[w] = calls[w]
  BY <1>2 DEF MayRelease, Busy, OrderOf
<1>3. CASE \E o \in Orders : StartSubmit(w, o) \/ StartReconcile(w, o) \/ StartCancel(w, o)
  BY <1>3, SubmitStarts, PollStarts DEF Starts
<1>4. CASE Moves(w)
  BY <1>1, <1>4 DEF Moves, Own
<1>5. CASE Fault(w)
  BY <1>4, <1>5, FaultMoves
<1>6. CASE Refuses(w) /\ UNCHANGED venue
  BY <1>1, <1>6 DEF Refuses, Settles, Own, GivesUp
<1>7. CASE PlaceOrder(w)
  <2>1. Busy(w) /\ Settles(w) /\ MayPlace(w) /\ OrderOf(w) \in Orders
    BY <1>7, PlaceOrderMoves, CallFacts DEF PlaceOrder, At
  <2>2. OrderOf(w)' = OrderOf(w) /\ ~MayPlace(w)'
    BY <1>1, <2>1 DEF Settles, Own
  <2>3. CASE PlaceAccepted(w) \/ PlaceTimedOut(w) \/ PlaceUnknown(w)
    BY <2>1, <2>3, AcceptedMoves, UnansweredMoves
  <2>4. CASE PlaceNotSent(w)
    BY <2>1, <2>2, <2>4 DEF GivesUp, PlaceNotSent
  <2>5. CASE PlaceRejected(w)
    <3>1. venue'[OrderOf(w)].status = "NONE"
      BY <2>1, <2>5 DEF PlaceRejected, Sent
    <3> QED BY <2>1, <2>2, <3>1 DEF GivesUp
  <2> QED BY <1>7, <2>3, <2>4, <2>5 DEF PlaceOrder
<1>8. CASE AskVenue(w)
  <2>1. Busy(w)
    BY <1>8 DEF AskVenue, At
  <2>2. CASE Settles(w) /\ venue'[OrderOf(w)].status = "CANCELED"
    BY <1>1, <2>1, <2>2 DEF Settles, Own, GivesUp
  <2> QED BY <1>4, <1>8, <2>2, AskVenueMoves
<1>9. CASE AskCancel(w)
  <2>1. Busy(w) /\ OrderOf(w) \in Orders
    BY <1>9, CallFacts DEF AskCancel, At
  <2>2. CASE Settles(w) /\ venue' = [venue EXCEPT ![OrderOf(w)].status = "CANCELED"]
    <3>1. venue'[OrderOf(w)].status = "CANCELED"
      BY <2>1, <2>2 DEF VenueRow
    <3> QED BY <1>1, <2>1, <2>2, <3>1 DEF Settles, Own, GivesUp
  <2> QED BY <1>4, <1>9, <2>2, AskCancelMoves
<1>10. CASE Acquire(w) \/ CheckSubmit(w) \/ ClaimPermit(w)
  <2>1. UNCHANGED venue
    BY <1>10 DEF Acquire, CheckSubmit, ClaimPermit
  <2> QED BY <1>4, <1>6, <1>10, <2>1, AcquireMoves, CheckMoves, ClaimMoves
<1>11. CASE Advance(w) /\ ~PlaceOrder(w) /\ ~AskVenue(w) /\ ~AskCancel(w)
            /\ ~(Acquire(w) \/ CheckSubmit(w) \/ ClaimPermit(w))
  BY <1>4, <1>11, TryAcquireMoves, UnleaseMoves, RecordMoves, UpdateMoves, NeedsItMoves,
     CountFillMoves, ResolveMoves, ReleaseMoves, ConsumeMoves, BaselineMoves, RecordCancelMoves
     DEF Advance
<1> QED BY <1>2, <1>1, <1>3, <1>5, <1>7, <1>8, <1>9, <1>10, <1>11, OneCall

\* Handing an order over is never undone.
LEMMA SubmitsGrow ==
  ASSUME TypeOK, Next
  PROVE  \/ UNCHANGED submits
         \/ \E w \in Workers, o \in Orders :
              StartSubmit(w, o) /\ submits' = [submits EXCEPT ![o] = submits[o] + 1]
  BY DEF Next, Advance, StartSubmit, StartReconcile, StartCancel, Fault, Crash, ExpireReservation,
     VenueReceives, VenueFills, VenueCancels, VenueChanges, Tick, Acquire, TryAcquire, Unlease,
     CheckSubmit, ClaimPermit, RecordSubmission, PlaceOrder, UpdateState, NeedsIt, AskVenue,
     CountFill, ResolveOrder, ReleaseReservation, ConsumeReservation, RecordBaseline,
     RecordCancel, AskCancel

LEMMA ReservationMoves ==
  ASSUME TypeOK, CallsTyped, Next, NEW p \in Permits, reservation'[p].status = "RELEASED"
  PROVE  \/ reservation[p].status = "RELEASED"
         \/ \E w \in Workers : ReleaseReservation(w) /\ Permit(w) = p
<1> reservation \in [Permits -> ReservationRows]
  BY DEF TypeOK, ReservationRows
<1>1. CASE UNCHANGED reservation
  BY <1>1
<1>2. ASSUME NEW w \in Workers, ReleaseReservation(w), Permit(w) # p
      PROVE  reservation'[p] = reservation[p]
  BY <1>2 DEF ReleaseReservation
<1>3. ASSUME NEW w \in Workers, ConsumeReservation(w)
      PROVE  reservation[p].status = "RELEASED"
  <2>1. CASE Permit(w) = p
    <3>1. /\ Permit(w) \in Permits
          /\ AfterConsume(reservation[p], calls[w].cash).status # "RELEASED"
      BY <2>1 DEF AfterConsume, Rewritten
    <3> QED BY <1>3, <2>1, <3>1 DEF ConsumeReservation
  <2>2. CASE Permit(w) # p
    BY <1>3, <2>2 DEF ConsumeReservation
  <2> QED BY <2>1, <2>2
<1>4. ASSUME NEW q \in Permits, ExpireReservation(q) PROVE reservation[p].status = "RELEASED"
  <2>1. AfterRelease(reservation[q], "EXPIRED").status # "RELEASED"
    BY DEF AfterRelease, Rewritten, StatusFor
  <2> QED BY <1>4, <2>1 DEF ExpireReservation
<1> QED BY <1>1, <1>2, <1>3, <1>4 DEF Next, Advance, StartSubmit, StartReconcile, StartCancel,
     Fault, Crash, VenueReceives, VenueFills, VenueCancels, VenueChanges, Tick, Acquire, TryAcquire,
     Unlease, CheckSubmit, ClaimPermit, RecordSubmission, PlaceOrder, UpdateState, NeedsIt,
     AskVenue, CountFill, ResolveOrder, RecordBaseline, RecordCancel, AskCancel

LEMMA SubmittedInit == Init => Submitted
  BY DEF Init, Submitted, Busy, NoCall, NoRow

LEMMA SubmittedStep == ASSUME Typed, Submitted, [Next]_vars PROVE Submitted'
<1> /\ TypeOK /\ CallsTyped /\ venue \in [Orders -> VenueRow]
    /\ submits \in [Orders -> 0 .. MaxSubmits] /\ MaxSubmits \in Nat
  BY ExecutorAssumption DEF Typed, TypeOK, VenueRow
<1>1. CASE UNCHANGED vars
  BY <1>1 DEF vars, Submitted, Busy, OrderOf, HandedOver
<1>2. CASE Next
  <2>1. \A o \in Orders : submits[o] > 0 => submits'[o] > 0
    BY <1>2, SubmitsGrow
  <2>2. ASSUME NEW w \in Workers, Busy(w)' PROVE submits'[OrderOf(w)'] > 0
    <3>1. CASE calls'[w] = calls[w]
      <4>1. Busy(w) /\ OrderOf(w)' = OrderOf(w) /\ OrderOf(w) \in Orders
        BY <2>2, <3>1, CallFacts DEF Busy, OrderOf
      <4> QED BY <2>1, <4>1 DEF Submitted
    <3>2. CASE Own(w)
      <4>1. Busy(w) /\ OrderOf(w)' = OrderOf(w) /\ OrderOf(w) \in Orders
        BY <2>2, <3>2, CallFacts DEF Own
      <4> QED BY <2>1, <4>1 DEF Submitted
    <3>3. ASSUME NEW o \in Orders, StartSubmit(w, o) PROVE submits'[OrderOf(w)'] > 0
      <4>1. OrderOf(w)' = o
        BY <3>3, SubmitStarts DEF Starts
      <4>2. submits'[o] > 0
        BY <3>3 DEF StartSubmit
      <4> QED BY <4>1, <4>2
    <3>4. ASSUME NEW o \in Orders, StartReconcile(w, o) \/ StartCancel(w, o)
          PROVE  submits'[OrderOf(w)'] > 0
      <4>1. OrderOf(w)' = o
        BY <3>4, PollStarts DEF Starts
      <4>2. ledger[o].exists
        BY <3>4 DEF StartReconcile, StartCancel, NeedsReconcile
      <4> QED BY <2>1, <4>1, <4>2 DEF Submitted
    <3>5. CASE Advance(w)
      BY <3>2, <3>5, AcquireMoves, TryAcquireMoves, UnleaseMoves, CheckMoves, ClaimMoves,
         RecordMoves, PlaceOrderMoves, UpdateMoves, NeedsItMoves, AskVenueMoves, CountFillMoves,
         ResolveMoves, ReleaseMoves, ConsumeMoves, BaselineMoves, RecordCancelMoves, AskCancelMoves
         DEF Advance, Moves, Refuses, Settles
    <3> QED BY <1>2, <2>2, <3>1, <3>2, <3>3, <3>4, <3>5, FaultMoves, OneCall DEF Moves
  <2>3. ASSUME NEW o \in Orders, ledger'[o].exists PROVE submits'[o] > 0
    <3>1. CASE ledger[o].exists
      BY <2>1, <3>1 DEF Submitted
    <3>2. CASE ledger'[o] # ledger[o]
      <4>1. PICK w \in Workers : Busy(w) /\ OrderOf(w) = o
        <5>1. ASSUME NEW w \in Workers, Advance(w), ~UNCHANGED ledger
              PROVE  Busy(w) /\ \E row : ledger' = [ledger EXCEPT ![OrderOf(w)] = row]
          BY <5>1 DEF Advance, At, Acquire, TryAcquire, Unlease, CheckSubmit, ClaimPermit,
             RecordSubmission, PlaceOrder, UpdateState, NeedsIt, AskVenue, CountFill, ResolveOrder,
             ReleaseReservation, ConsumeReservation, RecordBaseline, RecordCancel, AskCancel
        <5>2. \E w \in Workers : Advance(w)
          BY <1>2, <3>2 DEF Next, StartSubmit, StartReconcile, StartCancel, Fault, Crash,
             ExpireReservation, VenueReceives, VenueFills, VenueCancels, VenueChanges, Tick
        <5> QED BY <3>2, <5>1, <5>2 DEF TypeOK
      <4> QED BY <2>1, <4>1 DEF Submitted
    <3> QED BY <2>3, <3>1, <3>2
  <2>4. ASSUME NEW o \in Orders, venue'[o].sends > 0 PROVE submits'[o] > 0
    <3>1. CASE venue[o].sends > 0
      BY <2>1, <3>1 DEF Submitted
    <3>2. CASE venue'[o].sends # venue[o].sends
      <4>1. ASSUME NEW x \in Orders, NEW status, NEW filled,
                   \/ venue' = [venue EXCEPT ![x].status = status]
                   \/ venue' = [venue EXCEPT ![x].status = status, ![x].filled = filled]
            PROVE  venue'[o].sends = venue[o].sends
        BY <4>1 DEF VenueRow
      <4>2. PICK w \in Workers : PlaceOrder(w) /\ OrderOf(w) = o
        BY <1>2, <3>2, <4>1, VenueMoves DEF Sent
      <4>3. Busy(w)
        BY <4>2 DEF PlaceOrder, At
      <4> QED BY <2>1, <4>2, <4>3 DEF Submitted
    <3> QED BY <2>4, <3>1, <3>2
  <2>5. ASSUME NEW p \in Permits, reservation'[p].status = "RELEASED" PROVE HandedOver(p)'
    <3>1. HandedOver(p)
      <4>1. ASSUME NEW w \in Workers, ReleaseReservation(w), Permit(w) = p PROVE HandedOver(p)
        <5>1. Busy(w) /\ OrderOf(w) \in Orders
          BY <4>1, CallFacts DEF ReleaseReservation, At
        <5> QED BY <4>1, <5>1 DEF Submitted, HandedOver, Permit
      <4> QED BY <1>2, <2>5, <4>1, ReservationMoves DEF Submitted
    <3> QED BY <2>1, <3>1 DEF HandedOver
  <2> QED BY <2>2, <2>3, <2>4, <2>5 DEF Submitted
<1> QED BY <1>1, <1>2

\* An order that is gone does not come back while its permit is handed over
\* once: only the one call that may place it could send it.
LEMMA GoneStays ==
  ASSUME Typed, PlacedByClaimant, Next, NEW o \in Orders, Gone(o),
         \A w \in Workers : ~StartSubmit(w, o)
  PROVE  Gone(o)'
<1> TypeOK /\ CallsTyped
  BY DEF Typed
<1>1. CASE venue[o].status \in {"MATCHED", "CANCELED"}
  <2>1. venue'[o].status = venue[o].status
    BY <1>1, StatusMoves
  <2> QED BY <1>1, <2>1 DEF Gone
<1>2. CASE venue[o].status = "NONE" /\ \A w \in Workers : ~(MayPlace(w) /\ OrderOf(w) = o)
  <2>1. venue'[o].status = "NONE"
    <3>1. \A w \in Workers : PlaceOrder(w) => OrderOf(w) # o
      BY <1>2, PlaceOrderMoves
    <3> QED BY <1>2, <3>1, StatusMoves
  <2>2. ASSUME NEW w \in Workers, MayPlace(w)', OrderOf(w)' = o PROVE FALSE
    BY <1>2, <2>2, PlacingCalls
  <2> QED BY <2>1, <2>2 DEF Gone
<1> QED BY <1>1, <1>2 DEF Gone

CashSafe(o) ==
  /\ \A w \in Workers : MayPlace(w) /\ OrderOf(w) = o => venue[o].sends = 0
  /\ \A v, w \in Workers :
       MayPlace(v) /\ MayPlace(w) /\ OrderOf(v) = o /\ OrderOf(w) = o => v = w
  /\ \A w \in Workers : MayRelease(w) /\ OrderOf(w) = o => Gone(o)
  /\ reservation[PermitOf[o]].status = "RELEASED" => Gone(o)

\* The first time an order is handed over, nothing of it exists yet.
LEMMA FirstSubmission ==
  ASSUME Typed, PlacedByClaimant, Submitted, Next, NEW w \in Workers, NEW o \in Orders,
         StartSubmit(w, o), HandedOverOnce(PermitOf[o])'
  PROVE  CashSafe(o)'
<1> /\ TypeOK /\ CallsTyped /\ venue \in [Orders -> VenueRow]
    /\ submits \in [Orders -> 0 .. MaxSubmits] /\ MaxSubmits \in Nat
    /\ PermitOf \in [Orders -> Permits]
  BY ExecutorAssumption DEF Typed, TypeOK, VenueRow
<1>1. submits' = [submits EXCEPT ![o] = submits[o] + 1] /\ UNCHANGED <<venue, reservation>>
  BY DEF StartSubmit
<1>2. \A x \in Orders : PermitOf[x] = PermitOf[o] => submits[x] = 0
  <2> SUFFICES ASSUME NEW x \in Orders, PermitOf[x] = PermitOf[o], submits[x] > 0 PROVE FALSE
    OBVIOUS
  <2>1. x \in OrdersOf(PermitOf[o]) /\ o \in OrdersOf(PermitOf[o])
    BY DEF OrdersOf
  <2>2. submits'[x] > 0 /\ submits'[o] > 0
    BY <1>1
  <2>3. x = o /\ submits'[o] = 1
    BY <2>1, <2>2 DEF HandedOverOnce, OrdersOf
  <2> QED BY <1>1, <2>3
<1>3. ASSUME NEW v \in Workers, v # w, Busy(v)', OrderOf(v)' = o PROVE FALSE
  <2>1. calls'[v] = calls[v]
    BY <1>3, SubmitStarts DEF Starts
  <2>2. Busy(v) /\ OrderOf(v) = o
    BY <1>3, <2>1 DEF Busy, OrderOf
  <2> QED BY <1>2, <2>2 DEF Submitted
<1>4. venue'[o].sends = 0
  BY <1>1, <1>2 DEF Submitted, VenueRow
<1>5. reservation'[PermitOf[o]].status # "RELEASED"
  BY <1>1, <1>2 DEF Submitted, HandedOver
<1>6. ~MayRelease(w)'
  BY SubmitStarts DEF Starts
<1> QED BY <1>3, <1>4, <1>5, <1>6 DEF CashSafe, MayPlace, MayRelease

\* Afterwards only the call it was handed to can place it or give it up.
LEMMA LaterSteps ==
  ASSUME Typed, PlacedByClaimant, Submitted, Next, NEW o \in Orders, submits[o] > 0,
         HandedOverOnce(PermitOf[o]), CashSafe(o), \A w \in Workers : ~StartSubmit(w, o)
  PROVE  CashSafe(o)'
<1> /\ TypeOK /\ CallsTyped /\ venue \in [Orders -> VenueRow] /\ PermitOf[o] \in Permits
  BY ExecutorAssumption DEF Typed, TypeOK, VenueRow
<1>1. ASSUME NEW w \in Workers, MayPlace(w)', OrderOf(w)' = o
      PROVE  MayPlace(w) /\ OrderOf(w) = o /\ ~PlaceOrder(w)
  BY <1>1, PlacingCalls
<1>2. ASSUME NEW w \in Workers, MayPlace(w)', OrderOf(w)' = o PROVE venue'[o].sends = 0
  <2>1. venue[o].sends = 0 /\ \A v \in Workers : PlaceOrder(v) => OrderOf(v) # o
    BY <1>1, <1>2, PlaceOrderMoves DEF CashSafe
  <2>2. ASSUME NEW x \in Orders, NEW status, NEW filled,
               \/ venue' = [venue EXCEPT ![x].status = status]
               \/ venue' = [venue EXCEPT ![x].status = status, ![x].filled = filled]
        PROVE  venue'[o].sends = venue[o].sends
    BY <2>2 DEF VenueRow
  <2>3. ASSUME NEW v \in Workers, PlaceOrder(v), NEW status, NEW filled,
               Sent(OrderOf(v), status, filled)
        PROVE  venue'[o].sends = venue[o].sends
    BY <2>1, <2>3 DEF Sent
  <2>4. venue'[o].sends = venue[o].sends
    BY <2>2, <2>3, VenueMoves
  <2> QED BY <2>1, <2>4
<1>3. ASSUME NEW v \in Workers, NEW w \in Workers, MayPlace(v)', MayPlace(w)', OrderOf(v)' = o,
             OrderOf(w)' = o
      PROVE  v = w
  BY <1>1, <1>3 DEF CashSafe
<1>4. Gone(o) => Gone(o)'
  BY GoneStays
<1>5. ASSUME NEW w \in Workers, MayRelease(w)', OrderOf(w)' = o PROVE Gone(o)'
  <2>1. Busy(w) /\ OrderOf(w) = o /\ (MayRelease(w) \/ GivesUp(w))
    BY <1>5, ReleasingMoves
  <2>2. CASE MayRelease(w)
    BY <1>4, <2>1, <2>2 DEF CashSafe
  <2>3. CASE venue'[o].status = "CANCELED"
    BY <2>3 DEF Gone
  <2>4. CASE /\ MayPlace(w) /\ ~MayPlace(w)'
             /\ UNCHANGED venue \/ venue'[o].status = "NONE"
    <3>1. venue[o].sends = 0
      BY <2>1, <2>4 DEF CashSafe
    <3>2. venue'[o].status = "NONE"
      BY <2>4, <3>1 DEF PlacedByClaimant
    <3>3. ASSUME NEW v \in Workers, MayPlace(v)', OrderOf(v)' = o PROVE FALSE
      BY <1>1, <2>1, <2>4, <3>3 DEF CashSafe
    <3> QED BY <3>2, <3>3 DEF Gone
  <2> QED BY <2>1, <2>2, <2>3, <2>4 DEF GivesUp
<1>6. ASSUME reservation'[PermitOf[o]].status = "RELEASED" PROVE Gone(o)'
  <2>1. CASE reservation[PermitOf[o]].status = "RELEASED"
    BY <1>4, <2>1 DEF CashSafe
  <2>2. ASSUME NEW w \in Workers, ReleaseReservation(w), Permit(w) = PermitOf[o] PROVE Gone(o)
    <3>1. Busy(w) /\ Head(calls[w].todo) = "release" /\ OrderOf(w) \in Orders
      BY <2>2, CallFacts DEF ReleaseReservation, At
    <3>2. MayRelease(w)
      BY <3>1, CallFacts, SeqRest DEF MayRelease
    <3>3. submits[OrderOf(w)] > 0
      BY <3>1 DEF Submitted
    <3>4. OrderOf(w) = o
      BY <2>2, <3>1, <3>3 DEF HandedOverOnce, OrdersOf, Permit
    <3> QED BY <3>2, <3>4 DEF CashSafe
  <2> QED BY <1>4, <1>6, <2>1, <2>2, ReservationMoves
<1> QED BY <1>2, <1>3, <1>5, <1>6 DEF CashSafe

LEMMA CashInit == Init => ReleasedWhenGone
  BY DEF Init, ReleasedWhenGone

LEMMA CashStep ==
  ASSUME Typed, PlacedByClaimant, Submitted, ReleasedWhenGone, [Next]_vars
  PROVE  ReleasedWhenGone'
<1>1. CASE UNCHANGED vars
  BY <1>1 DEF vars, ReleasedWhenGone, HandedOverOnce, Gone, MayPlace, MayRelease, Busy, OrderOf
<1>2. CASE Next
  <2> SUFFICES ASSUME NEW o \in Orders, submits'[o] > 0, HandedOverOnce(PermitOf[o])'
               PROVE  CashSafe(o)'
    BY DEF ReleasedWhenGone, CashSafe
  <2> /\ TypeOK /\ submits \in [Orders -> 0 .. MaxSubmits] /\ MaxSubmits \in Nat
      /\ \A x \in Orders : submits[x] \in Nat /\ submits'[x] \in Nat
    BY <1>2, ExecutorAssumption, ClaimedStep DEF Typed, TypeOK
  <2>1. CASE \E w \in Workers : StartSubmit(w, o)
    BY <1>2, <2>1, FirstSubmission
  <2>2. CASE \A w \in Workers : ~StartSubmit(w, o)
    <3>1. submits'[o] = submits[o] /\ \A x \in Orders : submits[x] <= submits'[x]
      BY <1>2, <2>2, SubmitsGrow
    <3>2. HandedOverOnce(PermitOf[o])
      <4>1. OrdersOf(PermitOf[o]) \subseteq Orders
        BY DEF OrdersOf
      <4>2. ASSUME NEW x \in OrdersOf(PermitOf[o]), NEW y \in OrdersOf(PermitOf[o]),
                   submits[x] > 0, submits[y] > 0
            PROVE  x = y /\ submits[x] = 1
        <5>1. submits'[x] > 0 /\ submits'[y] > 0
          BY <3>1, <4>1, <4>2
        <5>2. x = y /\ submits'[x] = 1
          BY <5>1 DEF HandedOverOnce, OrdersOf
        <5> QED BY <3>1, <4>1, <4>2, <5>2
      <4> QED BY <4>2 DEF HandedOverOnce
    <3>3. CashSafe(o)
      BY <3>1, <3>2 DEF ReleasedWhenGone, CashSafe
    <3> QED BY <1>2, <2>2, <3>1, <3>2, <3>3, LaterSteps
  <2> QED BY <2>1, <2>2
<1> QED BY <1>1, <1>2

(***************************************************************************)
(* Nothing but the expiry job takes the cash from under an open order      *)
(* whose permit is handed over once, whatever fails on the way.            *)
(***************************************************************************)
THEOREM OpenOrdersKeepTheirCash == Spec => []OpenOrderKeepsItsCash
<1> DEFINE I == Typed /\ PlacedByClaimant /\ Submitted /\ ReleasedWhenGone
<1>1. I => OpenOrderKeepsItsCash
  <2> SUFFICES ASSUME I, NEW o \in Orders, OpenAtVenue(o), HandedOverOnce(PermitOf[o])
               PROVE  reservation[PermitOf[o]].status # "RELEASED"
    BY DEF OpenOrderKeepsItsCash
  <2>1. ~Gone(o)
    BY DEF Gone, OpenAtVenue
  <2>2. venue[o].sends > 0
    BY DEF OpenAtVenue, PlacedByClaimant, Typed, TypeOK
  <2> QED BY <2>1, <2>2 DEF Submitted, ReleasedWhenGone
<1>2. Spec => []I
  <2>1. Init => I
    BY TypedInit, ClaimantInit, SubmittedInit, CashInit
  <2>2. I /\ [Next]_vars => I'
    BY TypedStep, ClaimantStep, SubmittedStep, CashStep
  <2> QED BY <2>1, <2>2, PTL DEF Spec
<1> QED BY <1>1, <1>2, PTL

(***************************************************************************)
(* The life of an order                                                    *)
(***************************************************************************)

\* An order that is closed was closed with a verdict.
ClosedWithVerdict == \A o \in Orders : ledger[o].resolved => ledger[o].verdict # "NONE"

LEMMA ClosedStep == ASSUME Typed, ClosedWithVerdict, [Next]_vars PROVE ClosedWithVerdict'
<1>1. CASE UNCHANGED vars
  BY <1>1 DEF vars, ClosedWithVerdict
<1>2. CASE Next
  <2> SUFFICES ASSUME NEW o \in Orders, ledger'[o].resolved PROVE ledger'[o].verdict # "NONE"
    BY DEF ClosedWithVerdict
  <2>1. \A reply : Verdict(reply) # "NONE"
    BY DEF Verdict
  <2> QED BY <1>2, <2>1, LedgerMoves DEF ClosedWithVerdict
<1> QED BY <1>1, <1>2

\* What is asked for is at the venue, and the other way round.
LEMMA FateIs ==
  ASSUME Typed, PlacedByClaimant, NEW o \in Orders
  PROVE  /\ FateOf(o) \in {"UNASKED", "NONE", "SENT", "LIVE", "MATCHED", "CANCELED"}
         /\ FateOf(o) = "UNASKED" <=> venue[o].sends = 0
         /\ FateOf(o) # "UNASKED" => FateOf(o) = venue[o].status
         /\ FateOf(o) = "UNASKED" => venue[o].status = "NONE"
<1> venue[o].status \in {"NONE", "SENT", "LIVE", "MATCHED", "CANCELED"}
  BY DEF Typed, TypeOK
<1> QED BY DEF FateOf, PlacedByClaimant

\* A statement that closes a row gives it the verdict of the answer.
LEMMA ResolvedRow ==
  ASSUME NEW row \in LedgerRow, NEW reply
  PROVE  \/ Resolved(row, reply).resolved = row.resolved /\ Resolved(row, reply).verdict = row.verdict
         \/ Resolved(row, reply).resolved = TRUE /\ Resolved(row, reply).verdict = Verdict(reply)
BY DEF Resolved, InState, Entry, LedgerRow

LEMMA ClosingIsClose ==
  ASSUME AdapterReports, Typed, PlacedByClaimant, VerdictsAreFinal, VerdictsAreFinal', ClosedWithVerdict,
         Next, NEW w \in Workers, ResolveOrder(w)
  PROVE  UNCHANGED <<claimed, venue>> /\
         \/ \A o \in Orders : Written(o)' = Written(o)
         \/ \E o \in Orders : Life!Close(o)
<1> TypeOK /\ CallsTyped /\ ledger \in [Orders -> LedgerRow]
  BY DEF Typed, TypeOK, LedgerRow
<1>1. UNCHANGED <<claimed, venue>> /\ OrderOf(w) \in Orders
  BY CallFacts DEF ResolveOrder, At
<1>2. PICK o \in Orders : o = OrderOf(w)
  BY <1>1
<1>3. PICK reply : reply = calls[w].reply
  OBVIOUS
<1>4. ledger' = [ledger EXCEPT ![o] = Resolved(ledger[o], reply)]
  BY <1>2, <1>3 DEF ResolveOrder
<1>5. \A x \in Orders \ {o} : Written(x)' = Written(x)
  BY <1>4 DEF Written
<1>6. ledger'[o] = Resolved(ledger[o], reply)
  BY <1>4
<1>7. CASE ledger'[o].resolved = ledger[o].resolved /\ ledger'[o].verdict = ledger[o].verdict
  BY <1>1, <1>5, <1>7 DEF Written
<1>8. CASE ledger'[o].resolved = TRUE /\ ledger'[o].verdict = Verdict(reply)
  <2>1. Verdict(reply) \in {"ACKNOWLEDGED", "DEFINITIVE_REJECT"}
    BY DEF Verdict
  <2>2. PICK new : new = Verdict(reply)
    OBVIOUS
  <2>3. Written(o)' = new /\ new \in {"ACKNOWLEDGED", "DEFINITIVE_REJECT"}
    BY <1>8, <2>1, <2>2 DEF Written
  <2>4. (VerdictHolds(o, ledger[o].verdict))'
    BY <1>8 DEF VerdictsAreFinal
  <2>5. IF new = "ACKNOWLEDGED" THEN venue[o].status = "MATCHED"
        ELSE \/ venue[o].status = "CANCELED"
             \/ venue[o].status = "NONE" /\ claimed[PermitOf[o]] # Unclaimed
    BY <1>1, <1>8, <2>2, <2>4 DEF VerdictHolds, Over
  <2>6. CASE ledger[o].resolved
    <3>1. VerdictHolds(o, ledger[o].verdict) /\ ledger[o].verdict \in {"ACKNOWLEDGED", "DEFINITIVE_REJECT"}
      BY <2>6 DEF VerdictsAreFinal, ClosedWithVerdict, LedgerRow
    <3>2. ledger[o].verdict = new
      BY <2>3, <2>5, <3>1 DEF VerdictHolds, Over
    <3>3. Written(o)' = Written(o)
      BY <2>3, <2>6, <3>2 DEF Written
    <3> QED BY <1>1, <1>5, <3>3
  <2>7. CASE ~ledger[o].resolved
    <3>1. Written(o) = "NONE"
      BY <2>7 DEF Written
    <3>2. [x \in Orders |-> Written(x)]' = [[x \in Orders |-> Written(x)] EXCEPT ![o] = new]
      <4>1. \A x \in Orders : Written(x)' = IF x = o THEN new ELSE Written(x)
        BY <1>5, <2>3
      <4> QED BY <4>1, Zenon
    <3>3. [x \in Orders |-> FateOf(x)]' = [x \in Orders |-> FateOf(x)]
      BY <1>1 DEF FateOf
    <3>4. IF new = "ACKNOWLEDGED" THEN FateOf(o) = "MATCHED"
          ELSE FateOf(o) \in {"NONE", "CANCELED"} \/ (FateOf(o) = "UNASKED" /\ claimed[PermitOf[o]] # Unclaimed)
      BY <2>5, FateIs
    <3>5. Life!Close(o)
      BY <1>1, <2>3, <3>1, <3>2, <3>3, <3>4 DEF Life!Close
    <3> QED BY <1>1, <3>5
  <2> QED BY <2>6, <2>7
<1> QED BY <1>6, <1>7, <1>8, ResolvedRow

\* Only the one call that holds the permit asks, and only for an open order.
LEMMA AskingIsAsk ==
  ASSUME AdapterReports, Typed, PlacedByClaimant, VerdictsAreFinal, UNCHANGED claimed,
         \A o \in Orders : Written(o)' = Written(o),
         NEW w \in Workers, PlaceOrder(w), NEW status \in {"NONE", "SENT", "LIVE", "MATCHED", "CANCELED"},
         NEW filled, Sent(OrderOf(w), status, filled)
  PROVE  \E o \in Orders : Life!Ask(o)
<1> TypeOK /\ CallsTyped /\ venue \in [Orders -> VenueRow]
  BY DEF Typed, TypeOK, VenueRow
<1>1. Placing(w) /\ OrderOf(w) \in Orders
  BY PlaceOrderMoves, CallFacts DEF Placing
<1>2. PICK o \in Orders : o = OrderOf(w)
  BY <1>1
<1>3. claimed[PermitOf[o]] = o /\ venue[o].sends = 0 /\ venue[o].status = "NONE"
  BY <1>1, <1>2 DEF PlacedByClaimant, Permit
<1>4. Written(o) = "NONE"
  BY <1>1, <1>2, <1>3 DEF Written, VerdictsAreFinal, VerdictHolds, Over
<1>5. venue' = [venue EXCEPT ![o] = [status |-> status, filled |-> filled, sends |-> venue[o].sends + 1]]
  BY <1>2 DEF Sent
<1>6. venue'[o].sends = 1 /\ venue'[o].status = status
  BY <1>3, <1>5
<1>7. \A x \in Orders : FateOf(x)' = IF x = o THEN status ELSE FateOf(x)
  BY <1>5, <1>6 DEF FateOf
<1>8. [x \in Orders |-> FateOf(x)]' = [[x \in Orders |-> FateOf(x)] EXCEPT ![o] = status]
  BY <1>7, Zenon
<1>9. [x \in Orders |-> Written(x)]' = [x \in Orders |-> Written(x)]
  BY Zenon
<1>10. FateOf(o) = "UNASKED"
  BY <1>3 DEF FateOf
<1>11. status \in Life!Statuses
  BY DEF Life!Statuses
<1> QED BY <1>3, <1>4, <1>8, <1>9, <1>10, <1>11 DEF Life!Ask

\* What becomes of an order at the venue.
LEMMA HappeningIsHappens ==
  ASSUME Typed, PlacedByClaimant, UNCHANGED claimed, \A o \in Orders : Written(o)' = Written(o),
         NEW o \in Orders, NEW status \in {"NONE", "LIVE", "MATCHED", "CANCELED"},
         venue[o].status \in {"SENT", "LIVE"}, status = "NONE" => venue[o].status = "SENT",
         venue'[o].status = status, venue'[o].sends = venue[o].sends,
         \A x \in Orders \ {o} : venue'[x] = venue[x]
  PROVE  Life!Happens(o)
<1>1. FateOf(o) = venue[o].status
  BY FateIs
<1>2. \A x \in Orders : FateOf(x)' = IF x = o THEN status ELSE FateOf(x)
  BY <1>1, FateIs DEF FateOf
<1>3. [x \in Orders |-> FateOf(x)]' = [[x \in Orders |-> FateOf(x)] EXCEPT ![o] = status]
  BY <1>2, Zenon
<1>4. [x \in Orders |-> Written(x)]' = [x \in Orders |-> Written(x)]
  BY Zenon
<1>5. status \in Life!Statuses \ {"SENT"}
  BY DEF Life!Statuses
<1> QED BY <1>1, <1>3, <1>4, <1>5 DEF Life!Happens

LEMMA LifeStep ==
  ASSUME AdapterReports, Typed, PlacedByClaimant, VerdictsAreFinal, VerdictsAreFinal', ClosedWithVerdict,
         [Next]_vars
  PROVE  \/ Life!LifeNext
         \/ UNCHANGED <<claimed, [o \in Orders |-> FateOf(o)], [o \in Orders |-> Written(o)]>>
<1> TypeOK /\ CallsTyped /\ venue \in [Orders -> VenueRow]
  BY DEF Typed, TypeOK, VenueRow
<1> DEFINE Still == UNCHANGED <<claimed, [o \in Orders |-> FateOf(o)], [o \in Orders |-> Written(o)]>>
<1>1. ASSUME UNCHANGED <<claimed, venue>>, \A o \in Orders : Written(o)' = Written(o) PROVE Still
  <2>1. [o \in Orders |-> FateOf(o)]' = [o \in Orders |-> FateOf(o)]
    BY <1>1 DEF FateOf
  <2>2. [o \in Orders |-> Written(o)]' = [o \in Orders |-> Written(o)]
    BY <1>1, Zenon
  <2> QED BY <1>1, <2>1, <2>2
<1>2. CASE UNCHANGED vars
  BY <1>1, <1>2 DEF vars, Written
<1>3. ASSUME NEW w \in Workers, ResolveOrder(w), Next PROVE Life!LifeNext \/ Still
  <2>1. CASE \E o \in Orders : Life!Close(o)
    BY <2>1 DEF Life!LifeNext
  <2> QED BY <1>1, <1>3, <2>1, ClosingIsClose
<1>4. CASE Next /\ \A w \in Workers : ~ResolveOrder(w)
  <2>1. \A o \in Orders : Written(o)' = Written(o)
    BY <1>4, LedgerMoves DEF Written
  <2>2. ASSUME NEW w \in Workers, Claims(w) PROVE \E o \in Orders : Life!Claim(o)
    <3>1. OrderOf(w) \in Orders
      BY <2>2, CallFacts DEF Claims, ClaimPermit, At
    <3>2. PICK o \in Orders : o = OrderOf(w)
      BY <3>1
    <3>3. claimed[PermitOf[o]] = Unclaimed /\ claimed' = [claimed EXCEPT ![PermitOf[o]] = o] /\ UNCHANGED venue
      BY <2>2, <3>2 DEF Claims, Claimable, Permit
    <3>4. [x \in Orders |-> FateOf(x)]' = [x \in Orders |-> FateOf(x)]
      BY <3>3 DEF FateOf
    <3>5. [x \in Orders |-> Written(x)]' = [x \in Orders |-> Written(x)]
      BY <2>1, Zenon
    <3> QED BY <3>3, <3>4, <3>5 DEF Life!Claim
  <2>3. CASE UNCHANGED claimed
    <3>1. ASSUME NEW w \in Workers, PlaceOrder(w),
                 NEW status \in {"NONE", "SENT", "LIVE", "MATCHED", "CANCELED"},
                 NEW filled \in 0 .. Size, Sent(OrderOf(w), status, filled)
          PROVE  Life!LifeNext
      BY <2>1, <2>3, <3>1, AskingIsAsk DEF Life!LifeNext
    <3>2. ASSUME NEW o \in Orders, venue[o].status = "LIVE",
                 venue' = [venue EXCEPT ![o].status = "CANCELED"]
          PROVE  Life!LifeNext
      <4>1. /\ venue'[o].status = "CANCELED" /\ venue'[o].sends = venue[o].sends
            /\ \A x \in Orders \ {o} : venue'[x] = venue[x]
        BY <3>2 DEF VenueRow
      <4>2. Life!Happens(o)
        BY <2>1, <2>3, <3>2, <4>1, HappeningIsHappens
      <4> QED BY <4>2 DEF Life!LifeNext
    <3>3. ASSUME NEW o \in Orders, NEW status \in {"NONE", "LIVE", "MATCHED", "CANCELED"},
                 NEW filled \in 0 .. Size, venue[o].status \in {"SENT", "LIVE"},
                 status = "NONE" => venue[o].status = "SENT",
                 venue' = [venue EXCEPT ![o].status = status, ![o].filled = filled]
          PROVE  Life!LifeNext
      <4>1. /\ venue'[o].status = status /\ venue'[o].sends = venue[o].sends
            /\ \A x \in Orders \ {o} : venue'[x] = venue[x]
        BY <3>3 DEF VenueRow
      <4>2. Life!Happens(o)
        BY <2>1, <2>3, <3>3, <4>1, HappeningIsHappens
      <4> QED BY <4>2 DEF Life!LifeNext
    <3>4. CASE UNCHANGED venue
      BY <1>1, <2>1, <2>3, <3>4
    <3> QED BY <1>4, <3>1, <3>2, <3>3, <3>4, VenueMoves
  <2> QED BY <1>4, <2>2, <2>3, ClaimedMoves DEF Life!LifeNext
<1> QED BY <1>2, <1>3, <1>4

(***************************************************************************)
(* The executor implements the life of an order: whatever its calls, the   *)
(* polls, failures and restarts do, each of their steps is a step of       *)
(* OrderLife or none, so a verdict is written once and never taken back.   *)
(***************************************************************************)
THEOREM OrdersLiveOnce == AdapterReports => (Spec => ExecutorImplementsLife)
<1> SUFFICES ASSUME AdapterReports PROVE Spec => ExecutorImplementsLife
  OBVIOUS
<1> DEFINE I == Typed /\ PlacedByClaimant /\ VerdictsAreFinal /\ ClosedWithVerdict
<1>1. Init => I /\ Life!LifeInit
  <2>1. Init => ClosedWithVerdict /\ Life!LifeInit
    BY DEF Init, ClosedWithVerdict, NoRow, Life!LifeInit, FateOf, Written
  <2> QED BY <2>1, TypedInit, ClaimantInit, VerdictsInit
<1>2. I /\ [Next]_vars => I'
  BY TypedStep, ClaimantStep, VerdictsStep, ClosedStep
<1>3. I /\ I' /\ [Next]_vars
        => [Life!LifeNext]_<<claimed, [o \in Orders |-> FateOf(o)], [o \in Orders |-> Written(o)]>>
  BY LifeStep
<1> QED BY <1>1, <1>2, <1>3, PTL DEF Spec, ExecutorImplementsLife, Life!LifeSpec


(***************************************************************************)
(* Counted fills are spent.  Of the awaits that settle an order three move *)
(* cash, and they come in these orders only: submit spends the fill it was *)
(* answered and then counts it, a poll counts what is new and then spends. *)
(***************************************************************************)
Plain == Await \ {"count", "consume", "baseline"}
ToSpend == {<<"acked", "unlease", "resolve", "consume", "baseline", "finally">>,
            <<"unlease", "resolve", "consume", "baseline", "finally">>,
            <<"resolve", "consume", "baseline", "finally">>, <<"consume", "baseline", "finally">>}
ToBase == {<<"baseline", "finally">>}
ToCount == {<<"count", "resolve">>, <<"count", "resolve", "unlease">>}
ToPay == {<<"consume", "resolve">>, <<"consume", "resolve", "unlease">>}
Shapes == Seq(Plain) \cup ToSpend \cup ToBase \cup ToCount \cup ToPay

Spends(w) == Busy(w) /\ calls[w].todo \in ToSpend
Bases(w) == Busy(w) /\ calls[w].todo \in ToBase
Counts(w) == Busy(w) /\ calls[w].todo \in ToCount
Pays(w) == Busy(w) /\ calls[w].todo \in ToPay
\* What is spent and what is counted differ until the next step of w.
Owes(w) == Bases(w) \/ Pays(w)
\* The ledger has a row of the order.
OnRow(w) ==
  \/ Placing(w) \/ Spends(w) \/ Bases(w) \/ Counts(w) \/ Pays(w)
  \/ Busy(w) /\ calls[w].todo \in PollSteps \cup CancelSteps

RowOf(o) == reservation[PermitOf[o]]
ClaimedRows ==
  /\ \A o \in Orders : ledger[o].exists => claimed[PermitOf[o]] = o
  /\ \A o \in Orders : ~ledger[o].exists => ledger[o].counted = 0
  /\ \A p \in Permits :
       /\ reservation[p].amount = Size
       /\ claimed[p] = Unclaimed => reservation[p].consumed = 0
       /\ reservation[p].status = "CONSUMED" => reservation[p].consumed = Size
Account(w) ==
  /\ Busy(w) => calls[w].todo \in Shapes
  /\ OnRow(w) => ledger[OrderOf(w)].exists
  /\ Placing(w) \/ Spends(w) \/ Bases(w) => ledger[OrderOf(w)].counted = 0
  /\ Spends(w) => calls[w].cash = calls[w].reply.filled
  /\ Spends(w) \/ Pays(w) => calls[w].cash > 0
  /\ Bases(w) /\ ConsumeMayAccept(RowOf(OrderOf(w))) =>
       RowOf(OrderOf(w)).consumed = calls[w].reply.filled
  /\ Pays(w) /\ ConsumeMayAccept(RowOf(OrderOf(w))) =>
       RowOf(OrderOf(w)).consumed + calls[w].cash = ledger[OrderOf(w)].counted
Square(o) ==
  claimed[PermitOf[o]] = o /\ ConsumeMayAccept(RowOf(o))
  /\ (\A w \in Workers : Owes(w) => OrderOf(w) # o)
    => RowOf(o).consumed = ledger[o].counted
Squared == ClaimedRows /\ (\A w \in Workers : Account(w)) /\ \A o \in Orders : Square(o)

LEMMA FillLists ==
  ASSUME NEW s
  PROVE  /\ s \in ToSpend \cup ToBase \cup ToCount \cup ToPay => s \in Seq(Settling) /\ s \notin Seq(Plain)
         /\ s \in ToSpend => \/ Head(s) \in {"acked", "unlease", "resolve"} /\ Tail(s) \in ToSpend
                             \/ Head(s) = "consume" /\ Tail(s) \in ToBase
         /\ s \in ToBase => Head(s) = "baseline" /\ Tail(s) \in Seq(Plain)
         /\ s \in ToCount => Head(s) = "count" /\ Tail(s) \in Seq(Plain) /\ <<"consume">> \o Tail(s) \in ToPay
         /\ s \in ToPay => Head(s) = "consume" /\ Tail(s) \in Seq(Plain)
<1> DEFINE A == <<"acked", "unlease", "resolve", "consume", "baseline", "finally">>
           B == <<"unlease", "resolve", "consume", "baseline", "finally">>
           C == <<"resolve", "consume", "baseline", "finally">>
           D == <<"consume", "baseline", "finally">>
           E == <<"baseline", "finally">>
           F == <<"count", "resolve">>
           G == <<"count", "resolve", "unlease">>
           H == <<"consume", "resolve">>
           I == <<"consume", "resolve", "unlease">>
           J == <<"resolve">>
           K == <<"resolve", "unlease">>
           L == <<"finally">>
           M == <<"consume">>
<1>0. ASSUME NEW t \in Seq(Settling), NEW i \in 1 .. Len(t), t[i] \in {"count", "consume", "baseline"}
      PROVE  t \notin Seq(Plain)
  <2>1. t \in Seq(Plain) => t[i] \in Plain
    BY ElementOfSeq
  <2> QED BY <1>0, <2>1 DEF Plain
<1>1. /\ A \in Seq(Settling) /\ Len(A) = 6 /\ A[4] = "consume"
      /\ Head(A) = "acked" /\ Tail(A) = B
  BY DEF Settling
<1>2. /\ B \in Seq(Settling) /\ Len(B) = 5 /\ B[3] = "consume"
      /\ Head(B) = "unlease" /\ Tail(B) = C
  BY DEF Settling
<1>3. /\ C \in Seq(Settling) /\ Len(C) = 4 /\ C[2] = "consume"
      /\ Head(C) = "resolve" /\ Tail(C) = D
  BY DEF Settling
<1>4. /\ D \in Seq(Settling) /\ Len(D) = 3 /\ D[1] = "consume"
      /\ Head(D) = "consume" /\ Tail(D) = E
  BY DEF Settling
<1>5. /\ E \in Seq(Settling) /\ Len(E) = 2 /\ E[1] = "baseline"
      /\ Head(E) = "baseline" /\ Tail(E) = L
  BY DEF Settling
<1>6. /\ F \in Seq(Settling) /\ Len(F) = 2 /\ F[1] = "count" /\ Head(F) = "count" /\ Tail(F) = J
  BY DEF Settling
<1>7. /\ G \in Seq(Settling) /\ Len(G) = 3 /\ G[1] = "count" /\ Head(G) = "count" /\ Tail(G) = K
  BY DEF Settling
<1>8. /\ H \in Seq(Settling) /\ Len(H) = 2 /\ H[1] = "consume" /\ H[2] = "resolve"
      /\ Head(H) = "consume" /\ Tail(H) = J
  BY DEF Settling
<1>9. /\ I \in Seq(Settling) /\ Len(I) = 3 /\ I[1] = "consume" /\ I[2] = "resolve" /\ I[3] = "unlease"
      /\ Head(I) = "consume" /\ Tail(I) = K
  BY DEF Settling
<1>10. J \in Seq(Plain) /\ J \in Seq(Settling) /\ Len(J) = 1 /\ J[1] = "resolve"
  BY DEF Plain, Await, Settling
<1>11. K \in Seq(Plain) /\ K \in Seq(Settling) /\ Len(K) = 2 /\ K[1] = "resolve" /\ K[2] = "unlease"
  BY DEF Plain, Await, Settling
<1>12. L \in Seq(Plain)
  BY DEF Plain, Await
<1>13. M \in Seq(Settling) /\ Len(M) = 1 /\ M[1] = "consume"
  BY DEF Settling
<1> HIDE DEF A, B, C, D, E, F, G, H, I, J, K, L, M
<1>14. M \o J = H
  <2>1. M \o J \in Seq(Settling) /\ Len(M \o J) = 2
        /\ (M \o J)[1] = "consume" /\ (M \o J)[2] = "resolve"
    BY <1>10, <1>13, ConcatProperties
  <2>2. \A i \in 1 .. 2 : (M \o J)[i] = H[i]
    BY <1>8, <2>1
  <2> QED BY <1>8, <2>1, <2>2, SeqEqual
<1>15. M \o K = I
  <2> DEFINE t == M \o K
  <2>1. t \in Seq(Settling) /\ Len(t) = 1 + 2
    BY <1>11, <1>13, ConcatProperties
  <2>2. \A i \in 1 .. 1 + 2 : t[i] = IF i <= 1 THEN M[i] ELSE K[i - 1]
    BY <1>11, <1>13, ConcatProperties
  <2> HIDE DEF t
  <2>3. t[1] = I[1] /\ t[2] = I[2] /\ t[3] = I[3]
    BY <1>9, <1>11, <1>13, <2>2
  <2>4. \A i \in 1 .. 3 : t[i] = I[i]
    BY <2>3
  <2>5. t = I
    BY <1>9, <2>1, <2>4, SeqEqual
  <2> QED BY <2>5 DEF t
<1>16. ToSpend = {A, B, C, D} /\ ToBase = {E} /\ ToCount = {F, G} /\ ToPay = {H, I}
  BY DEF ToSpend, ToBase, ToCount, ToPay, A, B, C, D, E, F, G, H, I
<1>17. \A t \in {A, B, C, D, E, F, G, H, I} : t \in Seq(Settling) /\ t \notin Seq(Plain)
  <2>1. A \notin Seq(Plain)
    <3>1. 4 \in 1 .. Len(A) /\ A[4] \in {"count", "consume", "baseline"} /\ A \in Seq(Settling)
      BY <1>1
    <3> QED BY <1>0, <3>1
  <2>2. B \notin Seq(Plain)
    <3>1. 3 \in 1 .. Len(B) /\ B[3] \in {"count", "consume", "baseline"} /\ B \in Seq(Settling)
      BY <1>2
    <3> QED BY <1>0, <3>1
  <2>3. C \notin Seq(Plain)
    <3>1. 2 \in 1 .. Len(C) /\ C[2] \in {"count", "consume", "baseline"} /\ C \in Seq(Settling)
      BY <1>3
    <3> QED BY <1>0, <3>1
  <2>4. D \notin Seq(Plain)
    <3>1. 1 \in 1 .. Len(D) /\ D[1] \in {"count", "consume", "baseline"} /\ D \in Seq(Settling)
      BY <1>4
    <3> QED BY <1>0, <3>1
  <2>5. E \notin Seq(Plain)
    <3>1. 1 \in 1 .. Len(E) /\ E[1] \in {"count", "consume", "baseline"} /\ E \in Seq(Settling)
      BY <1>5
    <3> QED BY <1>0, <3>1
  <2>6. F \notin Seq(Plain)
    <3>1. 1 \in 1 .. Len(F) /\ F[1] \in {"count", "consume", "baseline"} /\ F \in Seq(Settling)
      BY <1>6
    <3> QED BY <1>0, <3>1
  <2>7. G \notin Seq(Plain)
    <3>1. 1 \in 1 .. Len(G) /\ G[1] \in {"count", "consume", "baseline"} /\ G \in Seq(Settling)
      BY <1>7
    <3> QED BY <1>0, <3>1
  <2>8. H \notin Seq(Plain)
    <3>1. 1 \in 1 .. Len(H) /\ H[1] \in {"count", "consume", "baseline"} /\ H \in Seq(Settling)
      BY <1>8
    <3> QED BY <1>0, <3>1
  <2>9. I \notin Seq(Plain)
    <3>1. 1 \in 1 .. Len(I) /\ I[1] \in {"count", "consume", "baseline"} /\ I \in Seq(Settling)
      BY <1>9
    <3> QED BY <1>0, <3>1
  <2>10. {A, B, C, D, E, F, G, H, I} \subseteq Seq(Settling)
    BY <1>1, <1>2, <1>3, <1>4, <1>5, <1>6, <1>7, <1>8, <1>9
  <2>11. \A t \in {A, B, C, D, E, F, G, H, I} : t \notin Seq(Plain)
    BY <2>1, <2>2, <2>3, <2>4, <2>5, <2>6, <2>7, <2>8, <2>9
  <2> QED BY <2>10, <2>11, Zenon
<1>18. \A t \in {A, B, C, D} : \/ Head(t) \in {"acked", "unlease", "resolve"} /\ Tail(t) \in {A, B, C, D}
                               \/ Head(t) = "consume" /\ Tail(t) = E
  BY <1>1, <1>2, <1>3, <1>4
<1>19. \A t \in {F, G} : Head(t) = "count" /\ Tail(t) \in {J, K}
  BY <1>6, <1>7
<1>20. \A t \in {H, I} : Head(t) = "consume" /\ Tail(t) \in {J, K}
  BY <1>8, <1>9
<1>21. s \in ToSpend \cup ToBase \cup ToCount \cup ToPay => s \in Seq(Settling) /\ s \notin Seq(Plain)
  BY <1>16, <1>17
<1>22. s \in ToSpend => \/ Head(s) \in {"acked", "unlease", "resolve"} /\ Tail(s) \in ToSpend
                        \/ Head(s) = "consume" /\ Tail(s) \in ToBase
  BY <1>16, <1>18
<1>23. s \in ToBase => Head(s) = "baseline" /\ Tail(s) \in Seq(Plain)
  BY <1>5, <1>12, <1>16
<1>24. s \in ToCount => Head(s) = "count" /\ Tail(s) \in Seq(Plain) /\ M \o Tail(s) \in ToPay
  BY <1>10, <1>11, <1>14, <1>15, <1>16, <1>19
<1>25. s \in ToPay => Head(s) = "consume" /\ Tail(s) \in Seq(Plain)
  BY <1>10, <1>11, <1>16, <1>20
<1> QED BY <1>21, <1>22, <1>23, <1>24, <1>25 DEF M

\* The first of the awaits says what is left of a call that moves cash.
LEMMA FirstFill ==
  ASSUME NEW s \in Shapes, s # <<>>
  PROVE  /\ Head(s) \notin {"count", "consume", "baseline"} =>
              (s \in Seq(Plain) /\ Tail(s) \in Seq(Plain)) \/ (s \in ToSpend /\ Tail(s) \in ToSpend)
         /\ Head(s) = "count" => s \in ToCount
         /\ Head(s) = "consume" => s \in ToPay \/ (s \in ToSpend /\ Tail(s) \in ToBase)
         /\ Head(s) = "baseline" => s \in ToBase
         /\ s \in Seq(Plain) => Head(s) \in Plain /\ Tail(s) \in Seq(Plain)
<1>1. s \in Seq(Plain) => Head(s) \in Plain /\ Tail(s) \in Seq(Plain)
  BY SeqRest
<1> QED BY <1>1, FillLists DEF Shapes, Plain

\* No two of the kinds of lists have a list in common.
LEMMA OneKind ==
  ASSUME NEW s
  PROVE  /\ s \in ToSpend => s \notin ToBase \cup ToCount \cup ToPay
         /\ s \in ToBase => s \notin ToSpend \cup ToCount \cup ToPay
         /\ s \in ToCount => s \notin ToSpend \cup ToBase \cup ToPay
         /\ s \in ToPay => s \notin ToSpend \cup ToBase \cup ToCount
         /\ s \in ToSpend \cup ToBase \cup ToCount \cup ToPay => s \notin Steps
<1>1. s \in ToSpend \cap ToPay => FALSE
  BY FillLists
<1> QED BY <1>1, FillLists, SettlingOnly

(***************************************************************************)
(* One step of a call, by what it leaves to spend and to count             *)
(***************************************************************************)

\* The awaits that settle an order and move no cash.
Closing == {"state", "acked", "unlease", "finally", "resolve", "release"}

\* The step leaves w no cash to move ...
Calmly(w) == Busy(w)' =>
  /\ calls'[w].todo \in Seq(Plain)
  /\ calls'[w].todo \in PollSteps \cup CancelSteps => calls[w].todo \in PollSteps \cup CancelSteps
\* ... or what it had to spend before, or what submit or a poll was just told.
StillSpends(w) ==
  /\ Spends(w) /\ Spends(w)'
  /\ calls'[w].reply = calls[w].reply /\ calls'[w].cash = calls[w].cash
IsFilled(w) ==
  /\ Placing(w) /\ Spends(w)'
  /\ calls'[w].cash = calls'[w].reply.filled /\ calls'[w].cash > 0
FindsFill(w) == calls[w].todo \in PollSteps /\ Counts(w)'

LEMMA NextCall ==
  ASSUME CallsTyped, NEW w \in Workers, NEW c \in Call, NEW todo \in Seq(Await), Goes(w, c, todo), Busy(w)'
  PROVE  /\ todo # <<>> /\ calls'[w].todo = todo
         /\ OrderOf(w)' = c.order /\ calls'[w].reply = c.reply /\ calls'[w].cash = c.cash
<1> DEFINE d == [c EXCEPT !.todo = todo]
<1>1. d.todo = todo /\ d.order = c.order /\ d.reply = c.reply /\ d.cash = c.cash
  BY DEF Call
<1>2. calls \in [Workers -> {NoCall} \cup Call]
  BY DEF CallsTyped
<1> HIDE DEF d
<1>3. calls'[w] = IF todo = <<>> THEN NoCall ELSE d
  BY <1>2 DEF Goes, d
<1>4. NoCall.kind = "none"
  BY DEF NoCall
<1> QED BY <1>1, <1>3, <1>4 DEF Busy, OrderOf

LEMMA ClosingOnly ==
  /\ Closing \subseteq Settling /\ Closing \subseteq Plain
  /\ \A s \in Seq(Closing) : s \in Seq(Plain) /\ s \in Seq(Await) /\ s \notin Steps
<1>1. Closing \subseteq Settling /\ Closing \subseteq Plain /\ Closing \subseteq Await
  BY DEF Closing, Settling, Plain, Await
<1>2. ASSUME NEW s \in Seq(Closing) PROVE s \in Seq(Plain) /\ s \in Seq(Await) /\ s \notin Steps
  <2>1. s \in Seq(Settling) /\ s \in Seq(Plain) /\ s \in Seq(Await)
    BY <1>1, SeqWider
  <2> QED BY <2>1, SettlingOnly
<1> QED BY <1>1, <1>2

LEMMA ClosesCalmly ==
  ASSUME CallsTyped, NEW w \in Workers, NEW c \in Call, NEW todo \in Seq(Closing), Goes(w, c, todo)
  PROVE  Calmly(w)
  BY ClosingOnly, NextCall DEF Calmly, Steps

LEMMA RestCalmly ==
  ASSUME CallsTyped, NEW w \in Workers, Busy(w), calls[w].todo \in Shapes,
         Head(calls[w].todo) \notin {"count", "consume", "baseline"},
         NEW c \in Call, c.reply = calls[w].reply, c.cash = calls[w].cash, Goes(w, c, Rest(w))
  PROVE  Calmly(w) \/ StillSpends(w)
<1> SUFFICES ASSUME Busy(w)' PROVE Calmly(w) \/ StillSpends(w)
  BY DEF Calmly
<1>1. Rest(w) \in Seq(Await)
  BY RestTyped, StepsAreAwaits, SettlingOnly, EmptySeq
<1>2. calls'[w].todo = Rest(w) /\ calls'[w].reply = calls[w].reply /\ calls'[w].cash = calls[w].cash
  BY <1>1, NextCall
<1>3. CASE calls[w].todo \in Seq(Plain) /\ Rest(w) \in Seq(Plain)
  BY <1>2, <1>3, RestTyped DEF Calmly
<1>4. CASE calls[w].todo \in ToSpend /\ Rest(w) \in ToSpend
  BY <1>2, <1>4 DEF StillSpends, Spends
<1> QED BY <1>3, <1>4, CallFacts, FirstFill DEF Rest

LEMMA SameCall ==
  ASSUME CallsTyped, NEW w \in Workers, Busy(w)
  PROVE  calls[w] \in Call /\ calls[w].reply = calls[w].reply /\ calls[w].cash = calls[w].cash
  BY CallFacts

\* The lists the handlers continue with, as awaits that move no cash.
LEMMA ClosingLists ==
  /\ <<>> \in Seq(Closing) /\ <<"unlease">> \in Seq(Closing) /\ <<"finally">> \in Seq(Closing)
  /\ <<"unlease", "finally">> \in Seq(Closing)
  /\ <<"state", "unlease", "finally">> \in Seq(Closing)
  /\ <<"state", "unlease", "release", "finally">> \in Seq(Closing)
  /\ <<"state", "resolve", "release", "unlease", "finally">> \in Seq(Closing)
  /\ <<"acked", "unlease", "resolve">> \in Seq(Closing)
  /\ <<"resolve", "release">> \in Seq(Closing) /\ <<"resolve">> \in Seq(Closing)
  /\ \A w : GiveBack(w) \in Seq(Closing)
<1>1. <<>> \in Seq(Closing) /\ <<"unlease">> \in Seq(Closing) /\ <<"finally">> \in Seq(Closing)
  BY EmptySeq DEF Closing
<1>2. <<"unlease", "finally">> \in Seq(Closing)
  BY DEF Closing
<1>3. <<"state", "unlease", "finally">> \in Seq(Closing)
  BY DEF Closing
<1>4. <<"state", "unlease", "release", "finally">> \in Seq(Closing)
  BY DEF Closing
<1>5. <<"state", "resolve", "release", "unlease", "finally">> \in Seq(Closing)
  BY DEF Closing
<1>6. <<"acked", "unlease", "resolve">> \in Seq(Closing)
  BY DEF Closing
<1>7. <<"resolve", "release">> \in Seq(Closing) /\ <<"resolve">> \in Seq(Closing)
  BY DEF Closing
<1>8. <<"release">> \in Seq(Closing)
  BY DEF Closing
<1>9. \A w : GiveBack(w) \in Seq(Closing)
  BY <1>1, <1>8 DEF GiveBack
<1> QED BY <1>1, <1>2, <1>3, <1>4, <1>5, <1>6, <1>7, <1>9

LEMMA RefusedCalmly ==
  ASSUME CallsTyped, NEW w \in Workers, Busy(w), Refused(w, <<>>) \/ Refused(w, <<"unlease">>)
  PROVE  Calmly(w)
<1>1. PICK todo \in Seq(Closing) : Goes(w, calls[w], todo)
  <2>1. \A t \in {<<>>, <<"unlease">>} : t \o <<"finally">> \o GiveBack(w) \in Seq(Closing)
    BY ClosingLists, SeqJoined
  <2> QED BY <2>1 DEF Refused, Continues
<1> QED BY <1>1, CallFacts, ClosesCalmly

LEMMA PollsOnly ==
  ASSUME NEW s \in Steps, Head(s) \in {"tryAcquire", "ask"} PROVE s \in PollSteps
<1>1. s \notin SubmitSteps
  BY SubmitOrder DEF SubmitSteps
<1>2. s \notin CancelSteps
  BY CancelOrder DEF CancelSteps
<1> QED BY <1>1, <1>2 DEF Steps

\* The ways of a submission, a poll and a cancellation that move no cash.
LEMMA SubmitCalmly ==
  ASSUME Typed, NEW w \in Workers, calls[w].todo \in Shapes,
         Acquire(w) \/ CheckSubmit(w) \/ ClaimPermit(w) \/ RecordSubmission(w)
  PROVE  Calmly(w) \/ StillSpends(w)
<1> Busy(w) /\ CallsTyped /\ Head(calls[w].todo) \in {"acquire", "check", "claim", "record"}
  BY DEF Acquire, CheckSubmit, ClaimPermit, RecordSubmission, At, Typed
<1>1. CASE Continues(w, Rest(w))
  BY <1>1, SameCall, RestCalmly DEF Continues
<1>2. CASE Refused(w, <<>>) \/ Refused(w, <<"unlease">>)
  BY <1>2, RefusedCalmly
<1>3. CASE Continues(w, GiveBack(w)) \/ Continues(w, <<"unlease">>)
  BY <1>3, ClosingLists, ClosesCalmly, SameCall DEF Continues
<1>4. CASE Goes(w, [calls[w] EXCEPT !.then = <<"finally">>], Rest(w))
  <2> DEFINE c == [calls[w] EXCEPT !.then = <<"finally">>]
  <2>1. <<"finally">> \in Seq(Await)
    BY DEF Await
  <2>2. c \in Call /\ c.reply = calls[w].reply /\ c.cash = calls[w].cash
    BY <2>1, CallFacts DEF Call
  <2> HIDE DEF c
  <2> QED BY <1>4, <2>2, RestCalmly DEF c
<1> QED BY <1>1, <1>2, <1>3, <1>4 DEF Acquire, CheckSubmit, ClaimPermit, RecordSubmission

LEMMA PollCalmly ==
  ASSUME Typed, NEW w \in Workers, calls[w].todo \in Shapes, TryAcquire(w) \/ NeedsIt(w)
  PROVE  Calmly(w) \/ StillSpends(w)
<1> Busy(w) /\ CallsTyped /\ Head(calls[w].todo) \in {"tryAcquire", "need"}
  BY DEF TryAcquire, NeedsIt, At, Typed
<1>1. CASE Continues(w, Rest(w))
  BY <1>1, SameCall, RestCalmly DEF Continues
<1>2. CASE TryAcquire(w) /\ Continues(w, Rest(w) \o <<"unlease">>)
  <2> DEFINE todo == <<"need", "ask", "unlease">>
  <2>1. calls[w].todo \in Steps /\ Head(calls[w].todo) = "tryAcquire"
    BY <1>2, CallFacts DEF Settling, TryAcquire, At
  <2>2. Goes(w, calls[w], todo)
    <3>1. Rest(w) = <<"need", "ask">>
      BY <2>1, FirstStep DEF Rest
    <3> QED BY <1>2, <3>1, PollOrder DEF Continues
  <2>3. todo \in Seq(Plain)
    BY DEF Plain, Await
  <2>4. todo \in Seq(Await)
    BY DEF Await
  <2> HIDE DEF todo
  <2> QED BY <2>1, <2>2, <2>3, <2>4, PollsOnly, NextCall, CallFacts DEF Calmly
<1>3. CASE NeedsIt(w) /\ Continues(w, Tail(Rest(w)))
  <2>1. Tail(Rest(w)) \in Seq({"unlease", "finally"})
    BY <1>3, SkippedQuestion DEF NeedsIt
  <2>2. {"unlease", "finally"} \subseteq Closing
    BY DEF Closing
  <2>3. Tail(Rest(w)) \in Seq(Closing)
    BY <2>1, <2>2, SeqWider
  <2> QED BY <1>3, <2>3, ClosesCalmly, CallFacts DEF Continues
<1>4. CASE NeedsIt(w) /\ Goes(w, [calls[w] EXCEPT !.then = Tail(Rest(w))], Rest(w))
  <2> DEFINE c == [calls[w] EXCEPT !.then = Tail(Rest(w))]
  <2>1. Tail(Rest(w)) \in Seq(Await)
    BY <1>4, SkippedQuestion, SeqWider, Awaits DEF NeedsIt
  <2>2. c \in Call /\ c.reply = calls[w].reply /\ c.cash = calls[w].cash
    BY <2>1, CallFacts DEF Call
  <2> HIDE DEF c
  <2> QED BY <1>4, <2>2, RestCalmly DEF c
<1> QED BY <1>1, <1>2, <1>3, <1>4 DEF TryAcquire, NeedsIt

LEMMA SettleCalmly ==
  ASSUME Typed, NEW w \in Workers, calls[w].todo \in Shapes,
         Unlease(w) \/ UpdateState(w) \/ ResolveOrder(w) \/ ReleaseReservation(w) \/ RecordCancel(w)
  PROVE  Calmly(w) \/ StillSpends(w)
<1> Busy(w) /\ CallsTyped
    /\ Head(calls[w].todo) \in {"unlease", "finally", "state", "acked", "resolve", "release", "recordCancel"}
  BY DEF Unlease, UpdateState, ResolveOrder, ReleaseReservation, RecordCancel, At, Typed
<1>1. CASE Continues(w, Rest(w))
  BY <1>1, SameCall, RestCalmly DEF Continues
<1>2. CASE Continues(w, <<>>)
  BY <1>2, ClosingLists, ClosesCalmly, SameCall DEF Continues
<1> QED BY <1>1, <1>2 DEF Unlease, UpdateState, ResolveOrder, ReleaseReservation, RecordCancel

LEMMA CancelCalmly ==
  ASSUME Typed, NEW w \in Workers, calls[w].todo \in Shapes, AskCancel(w)
  PROVE  Calmly(w) \/ StillSpends(w)
<1> Busy(w) /\ CallsTyped /\ Head(calls[w].todo) = "askCancel"
  BY DEF AskCancel, At, Typed
<1> DEFINE c == [calls[w] EXCEPT !.reply = Reply(FALSE, "CANCELED", 0), !.then = Rest(w)]
<1>1. Rest(w) = <<"unlease">>
  BY FirstStep, CallFacts DEF Rest, Settling
<1>2. CASE Continues(w, Rest(w))
  BY <1>2, SameCall, RestCalmly DEF Continues
<1>3. CASE Goes(w, c, <<"resolve", "release">> \o Rest(w))
  <2>1. Rest(w) \in Seq(Await) /\ Rest(w) \in Seq(Closing)
    BY <1>1, ClosingLists, ClosingOnly
  <2>2. Reply(FALSE, "CANCELED", 0) \in
           [ack : BOOLEAN, status : {"NONE", "LIVE", "MATCHED", "CANCELED", "REJECTED"}, filled : 0 .. Size]
    BY ExecutorAssumption DEF Reply
  <2>3. c \in Call
    <3>1. ASSUME NEW d \in Call, NEW then \in Seq(Await),
                 NEW r \in [ack : BOOLEAN, status : {"NONE", "LIVE", "MATCHED", "CANCELED", "REJECTED"},
                            filled : 0 .. Size]
          PROVE  [d EXCEPT !.reply = r, !.then = then] \in Call
      BY DEF Call
    <3>2. calls[w] \in Call
      BY CallFacts
    <3> QED BY <2>1, <2>2, <3>1, <3>2, Zenon
  <2>4. <<"resolve", "release">> \o Rest(w) \in Seq(Closing)
    BY <2>1, ClosingLists, SeqJoined
  <2> HIDE DEF c
  <2> QED BY <1>3, <2>3, <2>4, ClosesCalmly
<1> QED BY <1>2, <1>3 DEF AskCancel

\* What a call knows of an answer, and what it has to spend of it.
LEMMA AnsweredCall ==
  ASSUME CallsTyped, NEW w \in Workers, Busy(w), NEW state \in LedgerState,
         NEW ack \in BOOLEAN, NEW filled \in 0 .. Size,
         NEW status \in {"NONE", "LIVE", "MATCHED", "CANCELED", "REJECTED"},
         NEW todo \in Seq(Await), Answered(w, state, Reply(ack, status, filled), todo), Busy(w)'
  PROVE  calls'[w].todo = todo /\ calls'[w].reply.filled = filled /\ calls'[w].cash = filled
<1> DEFINE r == Reply(ack, status, filled)
           c == [calls[w] EXCEPT !.state = state, !.reply = r, !.cash = r.filled]
<1>1. /\ r \in [ack : BOOLEAN, status : {"NONE", "LIVE", "MATCHED", "CANCELED", "REJECTED"},
                filled : 0 .. Size]
      /\ r.filled = filled
  BY DEF Reply
<1> HIDE DEF r
<1>2. c \in Call /\ c.reply = r /\ c.cash = filled
  BY <1>1, CallFacts DEF Call
<1>3. Goes(w, c, todo)
  BY DEF Answered, r
<1> HIDE DEF c
<1> QED BY <1>1, <1>2, <1>3, NextCall

\* What submit does after an order was accepted.
LEMMA AcceptedLists ==
  /\ <<"acked", "unlease", "resolve">> \o <<>> \o <<"finally">> \in Seq(Closing)
  /\ <<"acked", "unlease", "resolve">> \o <<"consume", "baseline">> \o <<"finally">> \in ToSpend
<1> DEFINE a == <<"acked", "unlease", "resolve">>
           b == <<"consume", "baseline">>
           c == <<"finally">>
           d == <<"acked", "unlease", "resolve", "consume", "baseline", "finally">>
<1>1. a \in Seq(Settling) /\ Len(a) = 3 /\ a[1] = "acked" /\ a[2] = "unlease" /\ a[3] = "resolve"
  BY DEF Settling
<1>2. b \in Seq(Settling) /\ Len(b) = 2 /\ b[1] = "consume" /\ b[2] = "baseline"
  BY DEF Settling
<1>3. c \in Seq(Settling) /\ Len(c) = 1 /\ c[1] = "finally"
  BY DEF Settling
<1>4. /\ d \in Seq(Settling) /\ Len(d) = 6 /\ d[1] = "acked" /\ d[2] = "unlease" /\ d[3] = "resolve"
      /\ d[4] = "consume" /\ d[5] = "baseline" /\ d[6] = "finally"
  BY DEF Settling
<1>5. a \o <<>> \o c \in Seq(Closing)
  BY ClosingLists, SeqJoined
<1> HIDE DEF a, b, c, d
<1> DEFINE s == a \o b
<1>6. /\ s \in Seq(Settling) /\ Len(s) = Len(a) + Len(b)
      /\ \A i \in 1 .. Len(a) + Len(b) : s[i] = IF i <= Len(a) THEN a[i] ELSE b[i - Len(a)]
  BY <1>1, <1>2, ConcatProperties, Zenon
<1> HIDE DEF s
<1>7. /\ s \in Seq(Settling) /\ Len(s) = 5
      /\ s[1] = d[1] /\ s[2] = d[2] /\ s[3] = d[3] /\ s[4] = d[4] /\ s[5] = d[5]
  BY <1>1, <1>2, <1>4, <1>6
<1>8. s \in Seq(Settling)
  BY <1>7
<1> DEFINE t == s \o c
<1>9. /\ t \in Seq(Settling) /\ Len(t) = Len(s) + Len(c)
      /\ \A i \in 1 .. Len(s) + Len(c) : t[i] = IF i <= Len(s) THEN s[i] ELSE c[i - Len(s)]
  BY <1>3, <1>8, ConcatProperties, Zenon
<1> HIDE DEF t
<1>10. Len(t) = 6 /\ t[6] = d[6] /\ \A i \in 1 .. 5 : t[i] = s[i]
  BY <1>3, <1>4, <1>7, <1>9
<1>11. \A i \in 1 .. 6 : t[i] = d[i]
  BY <1>7, <1>10
<1>12. t = d
  BY <1>4, <1>9, <1>10, <1>11, SeqEqual
<1>13. d \in ToSpend
  BY DEF ToSpend, d
<1>14. a \o b \o c \in ToSpend
  BY <1>12, <1>13 DEF t, s
<1> QED BY <1>5, <1>14 DEF a, b, c

LEMMA AcceptedCalmly ==
  ASSUME Typed, NEW w \in Workers, PlaceOrder(w), PlaceAccepted(w)
  PROVE  Calmly(w) \/ IsFilled(w)
<1> Busy(w) /\ CallsTyped /\ Placing(w)
  BY PlaceOrderMoves DEF PlaceOrder, At, Typed
<1> SUFFICES ASSUME Busy(w)' PROVE Calmly(w) \/ IsFilled(w)
  BY DEF Calmly
<1> DEFINE Todo(filled) == <<"acked", "unlease", "resolve">>
                           \o (IF filled > 0 THEN <<"consume", "baseline">> ELSE <<>>)
                           \o <<"finally">>
<1>1. PICK state \in LedgerState, ack \in BOOLEAN, filled \in 0 .. Size,
           status \in {"NONE", "LIVE", "MATCHED", "CANCELED", "REJECTED"} :
        Answered(w, state, Reply(ack, status, filled), Todo(filled))
  <2>1. PICK st \in {"LIVE", "MATCHED", "CANCELED"}, n \in 0 .. Size :
          LET reply == IF AdapterReports THEN Reply(TRUE, st, n) ELSE NoReply IN
          Answered(w, IF AdapterReports THEN "ACKNOWLEDGED" ELSE "SUBMITTING", reply, Todo(reply.filled))
    BY DEF PlaceAccepted
  <2>2. \A ack, status, filled : Reply(ack, status, filled).filled = filled
    BY DEF Reply
  <2>3. {"ACKNOWLEDGED", "SUBMITTING"} \subseteq LedgerState /\ 0 \in 0 .. Size /\ 0 \in Nat
    BY ExecutorAssumption DEF LedgerState
  <2> HIDE DEF Todo
  <2>4. CASE AdapterReports
    <3>1. Answered(w, "ACKNOWLEDGED", Reply(TRUE, st, n), Todo(n))
      BY <2>1, <2>2, <2>4
    <3> QED BY <2>3, <3>1
  <2>5. CASE ~AdapterReports
    <3>1. Answered(w, "SUBMITTING", Reply(FALSE, "NONE", 0), Todo(0))
      BY <2>1, <2>2, <2>5 DEF NoReply
    <3> QED BY <2>3, <3>1
  <2> QED BY <2>4, <2>5
<1>2. filled > 0 => Todo(filled) \in ToSpend
  BY AcceptedLists
<1>3. ~(filled > 0) => Todo(filled) \in Seq(Closing)
  BY AcceptedLists
<1> HIDE DEF Todo
<1>4. Todo(filled) \in Seq(Await)
  BY <1>2, <1>3, FillLists, ClosingOnly, SettlingOnly
<1>5. calls'[w].todo = Todo(filled) /\ calls'[w].reply.filled = filled /\ calls'[w].cash = filled
  BY <1>1, <1>4, AnsweredCall
<1>6. CASE filled > 0
  BY <1>2, <1>5, <1>6 DEF IsFilled, Spends
<1>7. CASE ~(filled > 0)
  BY <1>3, <1>5, <1>7, ClosingOnly DEF Calmly, Steps
<1> QED BY <1>6, <1>7

LEMMA PlaceCalmly ==
  ASSUME Typed, NEW w \in Workers, PlaceOrder(w)
  PROVE  Calmly(w) \/ IsFilled(w)
<1> Busy(w) /\ CallsTyped
  BY DEF PlaceOrder, At, Typed
<1>1. CASE PlaceAccepted(w)
  BY <1>1, AcceptedCalmly
<1>2. CASE PlaceTimedOut(w)
  BY <1>2, ClosingLists, ClosesCalmly, CallFacts DEF PlaceTimedOut, Continues
<1>3. ASSUME NEW state \in LedgerState, NEW status \in {"NONE", "REJECTED"}, NEW todo \in Seq(Closing),
             Answered(w, state, Reply(FALSE, status, 0), todo)
      PROVE  Calmly(w)
  <2>1. 0 \in 0 .. Size /\ todo \in Seq(Await)
    BY ExecutorAssumption, ClosingOnly
  <2>2. Busy(w)' => calls'[w].todo = todo
    BY <1>3, <2>1, AnsweredCall
  <2> QED BY <2>2, ClosingOnly DEF Calmly, Steps
<1>4. {"DEFINITIVE_REJECT", "SUBMISSION_UNKNOWN"} \subseteq LedgerState
  BY DEF LedgerState
<1>5. CASE PlaceRejected(w)
  <2> DEFINE todo == <<"state", "unlease", "release", "finally">> \o GiveBack(w)
  <2>1. todo \in Seq(Closing)
    BY ClosingLists, SeqJoined
  <2>2. Answered(w, "DEFINITIVE_REJECT", Reply(FALSE, "NONE", 0), todo)
    BY <1>5 DEF PlaceRejected, NoReply
  <2> HIDE DEF todo
  <2> QED BY <1>3, <1>4, <2>1, <2>2
<1>6. CASE PlaceNotSent(w)
  <2> DEFINE todo == <<"state", "resolve", "release", "unlease", "finally">> \o GiveBack(w)
  <2>1. todo \in Seq(Closing)
    BY ClosingLists, SeqJoined
  <2>2. Answered(w, "DEFINITIVE_REJECT", Reply(FALSE, "REJECTED", 0), todo)
    BY <1>6 DEF PlaceNotSent
  <2> HIDE DEF todo
  <2> QED BY <1>3, <1>4, <2>1, <2>2
<1>7. CASE PlaceUnknown(w)
  <2> DEFINE todo == <<"state", "unlease", "finally">>
  <2>1. todo \in Seq(Closing)
    BY ClosingLists
  <2>2. Answered(w, "SUBMISSION_UNKNOWN", Reply(FALSE, "NONE", 0), todo)
    BY <1>7 DEF PlaceUnknown, NoReply
  <2> HIDE DEF todo
  <2> QED BY <1>3, <1>4, <2>1, <2>2
<1> QED BY <1>1, <1>2, <1>5, <1>6, <1>7 DEF PlaceOrder

LEMMA CountLists ==
  /\ <<"count", "resolve">> \o <<>> \in ToCount
  /\ <<"count", "resolve">> \o <<"unlease">> \in ToCount
<1> DEFINE a == <<"count", "resolve">>
           b == <<"unlease">>
           d == <<"count", "resolve", "unlease">>
<1>1. a \in Seq(Settling) /\ Len(a) = 2 /\ a[1] = "count" /\ a[2] = "resolve"
  BY DEF Settling
<1>2. b \in Seq(Settling) /\ Len(b) = 1 /\ b[1] = "unlease"
  BY DEF Settling
<1>3. d \in Seq(Settling) /\ Len(d) = 3 /\ d[1] = "count" /\ d[2] = "resolve" /\ d[3] = "unlease"
  BY DEF Settling
<1>4. a \in ToCount /\ d \in ToCount
  BY DEF ToCount
<1> HIDE DEF a, b, d
<1>5. a \o <<>> = a
  BY <1>1, ConcatEmptySeq
<1> DEFINE s == a \o b
<1>6. /\ s \in Seq(Settling) /\ Len(s) = Len(a) + Len(b)
      /\ \A i \in 1 .. Len(a) + Len(b) : s[i] = IF i <= Len(a) THEN a[i] ELSE b[i - Len(a)]
  BY <1>1, <1>2, ConcatProperties, Zenon
<1> HIDE DEF s
<1>7. Len(s) = 3 /\ s[1] = d[1] /\ s[2] = d[2] /\ s[3] = d[3]
  BY <1>1, <1>2, <1>3, <1>6
<1>8. \A i \in 1 .. 3 : s[i] = d[i]
  BY <1>7
<1>9. s = d
  BY <1>3, <1>6, <1>7, <1>8, SeqEqual
<1>10. a \o <<>> \in ToCount /\ a \o b \in ToCount
  BY <1>4, <1>5, <1>9 DEF s
<1> QED BY <1>10 DEF a, b

LEMMA AskCalmly ==
  ASSUME Typed, NEW w \in Workers, calls[w].todo \in Shapes, AskVenue(w)
  PROVE  Calmly(w) \/ StillSpends(w) \/ FindsFill(w)
<1> Busy(w) /\ CallsTyped /\ Head(calls[w].todo) = "ask" /\ OrderOf(w) \in Orders
  BY CallFacts DEF AskVenue, At, Typed
<1> SUFFICES ASSUME Busy(w)' PROVE Calmly(w) \/ StillSpends(w) \/ FindsFill(w)
  BY DEF Calmly
<1>1. Rest(w) \in {<<>>, <<"unlease">>} /\ calls[w].todo \in PollSteps
  BY FirstStep, CallFacts, PollsOnly DEF Rest, Settling
<1>2. CASE Continues(w, Rest(w))
  BY <1>2, SameCall, RestCalmly DEF Continues
<1>3. PICK status \in {"NONE", "SENT", "LIVE", "MATCHED", "CANCELED"}, filled \in 0 .. Size :
        status = venue[OrderOf(w)].status /\ filled = venue[OrderOf(w)].filled
  BY DEF Typed, TypeOK
<1>4. ASSUME status \notin {"NONE", "SENT"}, NEW state \in LedgerState,
             NEW todo \in Seq(Closing) \cup ToCount,
             Answered(w, state, Reply(AdapterReports, status, filled), todo)
      PROVE  Calmly(w) \/ FindsFill(w)
  <2>1. todo \in Seq(Await) /\ AdapterReports \in BOOLEAN
    BY ClosingOnly, FillLists, SettlingOnly, ExecutorAssumption
  <2>2. calls'[w].todo = todo
    BY <1>4, <2>1, AnsweredCall
  <2>3. CASE todo \in Seq(Closing)
    BY <2>2, <2>3, ClosingOnly DEF Calmly, Steps
  <2>4. CASE todo \in ToCount
    BY <1>1, <2>2, <2>4 DEF FindsFill, Counts
  <2> QED BY <2>3, <2>4
<1>5. {"DEFINITIVE_REJECT", "ACKNOWLEDGED"} \subseteq LedgerState
  BY DEF LedgerState
<1>6. /\ <<"resolve", "release">> \o Rest(w) \in Seq(Closing) /\ <<"resolve">> \o Rest(w) \in Seq(Closing)
      /\ <<"count", "resolve">> \o Rest(w) \in ToCount
  BY <1>1, ClosingLists, SeqJoined, CountLists
<1>7. \/ Continues(w, Rest(w))
      \/ /\ status \notin {"NONE", "SENT"}
         /\ \E state \in {"DEFINITIVE_REJECT", "ACKNOWLEDGED"},
               todo \in {<<"resolve", "release">> \o Rest(w), <<"resolve">> \o Rest(w),
                         <<"count", "resolve">> \o Rest(w)} :
              Answered(w, state, Reply(AdapterReports, status, filled), todo)
  BY <1>3 DEF AskVenue, Dead
<1> QED BY <1>2, <1>4, <1>5, <1>6, <1>7

\* What the call of w may be after a step of it that moves no cash.
LEMMA CallTurns ==
  ASSUME Typed, NEW w \in Workers, calls[w].todo \in Shapes, Advance(w),
         ~CountFill(w), ~ConsumeReservation(w), ~RecordBaseline(w)
  PROVE  /\ Calmly(w) \/ StillSpends(w) \/ IsFilled(w) \/ FindsFill(w)
         /\ Own(w) /\ ~Owes(w)
<1> TypeOK /\ CallsTyped
  BY DEF Typed
<1>1. Calmly(w) \/ StillSpends(w) \/ IsFilled(w) \/ FindsFill(w)
  BY SubmitCalmly, PollCalmly, SettleCalmly, CancelCalmly, PlaceCalmly, AskCalmly DEF Advance
<1>2. Own(w)
  BY AcquireMoves, TryAcquireMoves, UnleaseMoves, CheckMoves, ClaimMoves, RecordMoves,
     PlaceOrderMoves, UpdateMoves, NeedsItMoves, AskVenueMoves, ResolveMoves, ReleaseMoves,
     RecordCancelMoves, AskCancelMoves DEF Advance, Moves, Refuses, Settles
<1>3. ~At(w, "consume") /\ ~At(w, "baseline")
  BY DEF At, Advance, Acquire, TryAcquire, Unlease, CheckSubmit, ClaimPermit, RecordSubmission,
     PlaceOrder, UpdateState, NeedsIt, AskVenue, ResolveOrder, ReleaseReservation, RecordCancel, AskCancel
<1>4. ~Owes(w)
  BY <1>3, FillLists DEF Owes, Bases, Pays, At
<1> QED BY <1>1, <1>2, <1>4

\* As long as nothing fails a step is one of a call, or one of nobody's.
LEMMA WhoseStep ==
  ASSUME Next, UNCHANGED failures, Typed
  PROVE  \/ UNCHANGED calls
         \/ \E w \in Workers : \/ Advance(w)
                               \/ \E o \in Orders : StartSubmit(w, o) \/ StartReconcile(w, o) \/ StartCancel(w, o)
<1>1. failures \in Nat
  BY DEF Typed, TypeOK
<1>2. (\A w \in Workers : ~Fault(w)) /\ (\A q \in Processes : ~Crash(q))
  BY <1>1 DEF Fault, Crash
<1> QED BY <1>2 DEF Next, ExpireReservation, VenueReceives, VenueFills, VenueCancels,
        VenueChanges, Tick

LEMMA LedgerCounts ==
  ASSUME Typed, Next, \A w \in Workers : ~CountFill(w) /\ ~RecordBaseline(w), NEW o \in Orders
  PROVE  /\ ledger'[o].counted = ledger[o].counted
         /\ ledger[o].exists => ledger'[o].exists
         /\ ledger'[o].exists /\ ~ledger[o].exists =>
              \E w \in Workers : OrderOf(w) = o /\ (Claims(w) \/ RecordSubmission(w))
<1> TypeOK /\ CallsTyped /\ ledger \in [Orders -> LedgerRow]
  BY DEF Typed, TypeOK, LedgerRow
<1> DEFINE Same(row, new) == new.counted = row.counted /\ new.exists = row.exists
           More(row, new) == new.counted = row.counted /\ new.exists
<1>1. ASSUME NEW row \in LedgerRow, NEW s
      PROVE  Same(row, StateUpdated(row, s)) /\ Same(row, CancelRequested(row)) /\ Same(row, Resolved(row, s))
  BY DEF StateUpdated, CancelRequested, NeedsReconcile, Resolved, InState, Entry, LedgerRow
<1>2. ASSUME NEW row \in LedgerRow PROVE More(row, Upserted(row))
  BY DEF Upserted, InState, Entry, LedgerRow
<1>3. ASSUME NEW x, NEW row, ledger' = [ledger EXCEPT ![x] = row], x = o => Same(ledger[o], row)
      PROVE  Same(ledger[o], ledger'[o])
  <2>1. CASE x = o
    BY <1>3, <2>1
  <2>2. CASE x # o
    BY <1>3, <2>2
  <2> QED BY <2>1, <2>2
<1>4. ASSUME NEW x, NEW row, ledger' = [ledger EXCEPT ![x] = row], x = o => More(ledger[o], row)
      PROVE  Same(ledger[o], ledger'[o]) \/ (x = o /\ More(ledger[o], ledger'[o]))
  <2>1. CASE x = o
    BY <1>4, <2>1
  <2>2. CASE x # o
    BY <1>4, <2>2
  <2> QED BY <2>1, <2>2
<1> SUFFICES Same(ledger[o], ledger'[o]) \/
             \E w \in Workers : /\ OrderOf(w) = o /\ (Claims(w) \/ RecordSubmission(w))
                                /\ More(ledger[o], ledger'[o])
  OBVIOUS
<1> HIDE DEF Same, More
<1>5. CASE UNCHANGED ledger
  BY <1>5 DEF Same
<1>6. ASSUME NEW w \in Workers, UpdateState(w) \/ ResolveOrder(w) PROVE Same(ledger[o], ledger'[o])
  <2>1. OrderOf(w) \in Orders
    BY <1>6, CallFacts DEF UpdateState, ResolveOrder, At
  <2> QED BY <1>1, <1>3, <1>6, <2>1 DEF UpdateState, ResolveOrder
<1>7. ASSUME NEW w \in Workers, RecordCancel(w), ~UNCHANGED ledger PROVE Same(ledger[o], ledger'[o])
  BY <1>1, <1>3, <1>7 DEF RecordCancel
<1>8. ASSUME NEW w \in Workers, RecordSubmission(w)
      PROVE  Same(ledger[o], ledger'[o]) \/ (OrderOf(w) = o /\ More(ledger[o], ledger'[o]))
  BY <1>2, <1>4, <1>8 DEF RecordSubmission
<1>9. ASSUME NEW w \in Workers, ClaimPermit(w), ~UNCHANGED ledger
      PROVE  \/ Same(ledger[o], ledger'[o])
             \/ OrderOf(w) = o /\ Claims(w) /\ More(ledger[o], ledger'[o])
  <2>1. ledger' = [ledger EXCEPT ![OrderOf(w)] = Upserted(ledger[OrderOf(w)])] /\ Claims(w)
    BY <1>9 DEF ClaimPermit, Claims
  <2> QED BY <1>2, <1>4, <2>1
<1>10. CASE \E w \in Workers : \/ UpdateState(w) \/ ResolveOrder(w) \/ RecordCancel(w)
                               \/ RecordSubmission(w) \/ ClaimPermit(w)
  BY <1>5, <1>6, <1>7, <1>8, <1>9, <1>10
<1> QED BY <1>5, <1>10 DEF Next, Advance, StartSubmit, StartReconcile, StartCancel, Fault, Crash,
     ExpireReservation, VenueReceives, VenueFills, VenueCancels, VenueChanges, Tick, Acquire,
     TryAcquire, Unlease, CheckSubmit, PlaceOrder, NeedsIt, AskVenue, ReleaseReservation,
     ConsumeReservation, AskCancel

LEMMA RowSpends ==
  ASSUME Typed, Next, \A w \in Workers : ~ConsumeReservation(w), NEW p \in Permits
  PROVE  /\ reservation'[p].consumed = reservation[p].consumed
         /\ reservation'[p].amount = reservation[p].amount
         /\ reservation'[p].status = "CONSUMED" => reservation[p].status = "CONSUMED"
         /\ ConsumeMayAccept(reservation[p])' => ConsumeMayAccept(reservation[p])
<1> TypeOK /\ CallsTyped /\ reservation \in [Permits -> ReservationRows]
  BY DEF Typed, TypeOK, ReservationRows
<1> DEFINE Same(row, new) ==
      /\ new.consumed = row.consumed /\ new.amount = row.amount /\ new.expires = row.expires
      /\ new.status \in LiveStatus \cup {"CONSUMED"} => new.status = row.status
<1>1. ASSUME NEW row \in ReservationRows, NEW reason PROVE Same(row, AfterRelease(row, reason))
  BY DEF AfterRelease, Rewritten, StatusFor, LiveStatus
<1>2. ASSUME NEW q \in Permits, NEW row, Same(reservation[q], row),
             reservation' = [reservation EXCEPT ![q] = row]
      PROVE  Same(reservation[p], reservation'[p])
  <2>1. CASE q = p
    BY <1>2, <2>1
  <2>2. CASE q # p
    BY <1>2, <2>2
  <2> QED BY <2>1, <2>2
<1>3. Same(reservation[p], reservation[p])
  OBVIOUS
<1>4. \A q \in Permits : Same(reservation[q], reservation[q])
  OBVIOUS
<1> HIDE DEF Same
<1>5. ASSUME NEW w \in Workers, ReleaseReservation(w) PROVE Same(reservation[p], reservation'[p])
  <2>1. Permit(w) \in Permits
    BY <1>5, CallFacts DEF ReleaseReservation, At
  <2>2. PICK q \in Permits : q = Permit(w)
    BY <2>1
  <2>3. PICK row : row = IF CanRelease(reservation[q]) THEN AfterRelease(reservation[q], "CANCELLED")
                                                        ELSE reservation[q]
    OBVIOUS
  <2>4. reservation' = [reservation EXCEPT ![q] = row]
    BY <1>5, <2>2, <2>3 DEF ReleaseReservation
  <2>5. Same(reservation[q], row)
    BY <1>1, <1>4, <2>3
  <2> QED BY <1>2, <2>4, <2>5
<1>6. ASSUME NEW q \in Permits, ExpireReservation(q) PROVE Same(reservation[p], reservation'[p])
  BY <1>1, <1>2, <1>6 DEF ExpireReservation
<1>7. Same(reservation[p], reservation'[p])
  BY <1>3, <1>5, <1>6 DEF Next, Advance, StartSubmit, StartReconcile, StartCancel, Fault, Crash,
     VenueReceives, VenueFills, VenueCancels, VenueChanges, Tick, Acquire, TryAcquire, Unlease,
     CheckSubmit, ClaimPermit, RecordSubmission, PlaceOrder, UpdateState, NeedsIt, AskVenue,
     CountFill, ResolveOrder, RecordBaseline, RecordCancel, AskCancel
<1>8. clock' = clock \/ clock' = clock + 1
  BY DEF Next, Advance, StartSubmit, StartReconcile, StartCancel, Fault, Crash, ExpireReservation,
     VenueReceives, VenueFills, VenueCancels, VenueChanges, Tick, Acquire, TryAcquire, Unlease,
     CheckSubmit, ClaimPermit, RecordSubmission, PlaceOrder, UpdateState, NeedsIt, AskVenue,
     CountFill, ResolveOrder, ReleaseReservation, RecordBaseline, RecordCancel, AskCancel
<1>9. clock \in Nat /\ reservation[p].expires \in Nat
  BY DEF TypeOK, ReservationRows
<1>10. PastDeadline(reservation[p], clock) => PastDeadline(reservation'[p], clock')
  BY <1>7, <1>8, <1>9 DEF PastDeadline, Same
<1> QED BY <1>7, <1>10 DEF ConsumeMayAccept, Same

(***************************************************************************)
(* The steps that move no cash                                             *)
(***************************************************************************)
OneCaller == \A v, w \in Workers : v = w
NoCashMoves == \A w \in Workers : ~CountFill(w) /\ ~ConsumeReservation(w) /\ ~RecordBaseline(w)

\* An order nobody has claimed yet has spent nothing and counted nothing.
LEMMA FreshClaim ==
  ASSUME Typed, Squared, Next, NoCashMoves, NEW w \in Workers, Claims(w)
  PROVE  /\ OrderOf(w) \in Orders /\ claimed[Permit(w)] = Unclaimed /\ claimed'[Permit(w)] = OrderOf(w)
         /\ ledger[OrderOf(w)].counted = 0 /\ reservation[Permit(w)].consumed = 0
         /\ ledger'[OrderOf(w)].exists
<1>1. Busy(w) /\ OrderOf(w) \in Orders /\ Permit(w) \in Permits
  BY CallFacts DEF Claims, ClaimPermit, At, Typed
<1>2. claimed[Permit(w)] = Unclaimed /\ claimed'[Permit(w)] = OrderOf(w)
  BY <1>1 DEF Claims, Claimable, Typed, TypeOK
<1>3. ~ledger[OrderOf(w)].exists /\ ledger[OrderOf(w)].counted = 0 /\ reservation[Permit(w)].consumed = 0
  BY <1>1, <1>2, ExecutorAssumption DEF Squared, ClaimedRows, Permit
<1>4. ledger'[OrderOf(w)] = Upserted(ledger[OrderOf(w)])
  BY <1>1 DEF Claims, ClaimPermit, Typed, TypeOK
<1> QED BY <1>1, <1>2, <1>3, <1>4 DEF Upserted, InState, Entry

LEMMA RowsStay ==
  ASSUME Typed, PlacedByClaimant, Squared, Next, NoCashMoves
  PROVE  ClaimedRows'
<1>1. ASSUME NEW o \in Orders, ledger'[o].exists PROVE claimed'[PermitOf[o]] = o
  <2>1. CASE ledger[o].exists
    <3>1. claimed[PermitOf[o]] = o /\ o # Unclaimed
      BY <2>1, ExecutorAssumption DEF Squared, ClaimedRows
    <3> QED BY <3>1, ClaimStays
  <2>2. ASSUME NEW w \in Workers, OrderOf(w) = o, Claims(w) PROVE claimed'[PermitOf[o]] = o
    BY <2>2, FreshClaim DEF Permit
  <2>3. ASSUME NEW w \in Workers, OrderOf(w) = o, RecordSubmission(w) PROVE claimed'[PermitOf[o]] = o
    <3>1. Placing(w)
      BY <2>3, SubmitStep DEF RecordSubmission, At, Typed
    <3> QED BY <2>3, <3>1 DEF RecordSubmission, PlacedByClaimant, Permit
  <2> QED BY <1>1, <2>1, <2>2, <2>3, LedgerCounts DEF NoCashMoves
<1>2. ASSUME NEW o \in Orders, ~ledger'[o].exists PROVE ledger'[o].counted = 0
  BY <1>2, LedgerCounts DEF NoCashMoves, Squared, ClaimedRows
<1>3. ASSUME NEW p \in Permits
      PROVE  /\ reservation'[p].amount = Size
             /\ claimed'[p] = Unclaimed => reservation'[p].consumed = 0
             /\ reservation'[p].status = "CONSUMED" => reservation'[p].consumed = Size
  <2>1. /\ reservation'[p].consumed = reservation[p].consumed
        /\ reservation'[p].amount = reservation[p].amount
        /\ reservation'[p].status = "CONSUMED" => reservation[p].status = "CONSUMED"
    BY RowSpends DEF NoCashMoves
  <2>2. claimed'[p] = Unclaimed => claimed[p] = Unclaimed
    <3>1. ASSUME NEW w \in Workers, Claims(w), claimed'[p] = Unclaimed PROVE claimed[p] = Unclaimed
      <4>1. Permit(w) # p
        BY <3>1, FreshClaim, ExecutorAssumption
      <4> QED BY <3>1, <4>1 DEF Claims, Typed, TypeOK
    <3> QED BY <3>1, ClaimedMoves DEF Typed
  <2> QED BY <2>1, <2>2 DEF Squared, ClaimedRows
<1> QED BY <1>1, <1>2, <1>3 DEF ClaimedRows

\* What a call that moves cash has to know stays true while it does not move.
LEMMA StillAccounts ==
  ASSUME Typed, Squared, Next, NoCashMoves, NEW w \in Workers, calls'[w] = calls[w]
  PROVE  Account(w)'
<1> SUFFICES ASSUME Busy(w) PROVE Account(w)'
  BY DEF Account, Busy, OnRow, Placing, Spends, Bases, Counts, Pays
<1>1. OrderOf(w) \in Orders /\ OrderOf(w)' = OrderOf(w) /\ PermitOf[OrderOf(w)] \in Permits
  BY CallFacts DEF Typed, OrderOf, Permit
<1>2. /\ ledger'[OrderOf(w)].counted = ledger[OrderOf(w)].counted
      /\ ledger[OrderOf(w)].exists => ledger'[OrderOf(w)].exists
  BY <1>1, LedgerCounts DEF NoCashMoves
<1>3. /\ RowOf(OrderOf(w))'.consumed = RowOf(OrderOf(w)).consumed
      /\ ConsumeMayAccept(RowOf(OrderOf(w)))' => ConsumeMayAccept(RowOf(OrderOf(w)))
  <2>1. PICK p \in Permits : p = PermitOf[OrderOf(w)]
    BY <1>1
  <2>2. /\ reservation'[p].consumed = reservation[p].consumed
        /\ ConsumeMayAccept(reservation[p])' => ConsumeMayAccept(reservation[p])
    BY RowSpends DEF NoCashMoves
  <2> QED BY <1>1, <2>1, <2>2 DEF RowOf
<1>4. /\ Busy(w)' /\ Placing(w)' = Placing(w) /\ Spends(w)' = Spends(w) /\ Bases(w)' = Bases(w)
      /\ Counts(w)' = Counts(w) /\ Pays(w)' = Pays(w) /\ OnRow(w)' = OnRow(w)
  BY DEF Busy, OnRow, Placing, Spends, Bases, Counts, Pays
<1>5. Account(w)
  BY DEF Squared
<1> QED BY <1>1, <1>2, <1>3, <1>4, <1>5 DEF Account

\* A call that has no cash to move has nothing to account for but its row.
LEMMA NothingToMove ==
  ASSUME Typed', NEW w \in Workers,
         Busy(w)' => calls'[w].todo \in Seq(Plain),
         OnRow(w)' => ledger'[OrderOf(w)'].exists,
         Placing(w)' => ledger'[OrderOf(w)'].counted = 0
  PROVE  Account(w)' /\ ~Owes(w)'
<1>1. ~Spends(w)' /\ ~Bases(w)' /\ ~Counts(w)' /\ ~Pays(w)'
  BY FillLists DEF Spends, Bases, Counts, Pays
<1> QED BY <1>1 DEF Account, Owes, Shapes

LEMMA StartAccounts ==
  ASSUME Typed, Typed', NEW w \in Workers, NEW o \in Orders,
         StartSubmit(w, o) \/ StartReconcile(w, o) \/ StartCancel(w, o)
  PROVE  Account(w)' /\ ~Busy(w)
<1> DEFINE S == <<"acquire", "check", "claim", "record", "place">>
           R == <<"tryAcquire", "need", "ask">>
           C == <<"acquire", "recordCancel", "askCancel", "unlease">>
<1>1. S \in Seq(Plain)
  BY DEF Plain, Await
<1>2. R \in Seq(Plain)
  BY DEF Plain, Await
<1>3. C \in Seq(Plain)
  BY DEF Plain, Await
<1>4. S \in SubmitSteps /\ S \notin PollSteps \cup CancelSteps \cup {<<"record", "place">>, <<"place">>}
      /\ R \in PollSteps /\ R \notin SubmitSteps /\ C \in CancelSteps /\ C \notin SubmitSteps
  BY HandlersStart
<1>5. {<<"record", "place">>, <<"place">>} \subseteq SubmitSteps
  BY DEF SubmitSteps
<1> HIDE DEF S, R, C
<1>6. CallsTyped /\ ~Busy(w) /\ UNCHANGED ledger
  BY DEF StartSubmit, StartReconcile, StartCancel, Typed
<1>7. ASSUME NEW kind \in {"submit", "resubmit", "reconcile", "cancel"}, NEW todo \in {S, R, C},
             todo # S => kind # "submit" /\ ledger[o].exists, Begins(w, kind, o, todo)
      PROVE  Account(w)'
  <2>1. todo \in Steps /\ (todo \in PollSteps \cup CancelSteps => kind # "submit")
    BY <1>4, <1>7 DEF Steps
  <2>2. calls'[w].todo = todo /\ OrderOf(w)' = o
    BY <1>6, <1>7, <2>1, BeginsFresh
  <2>3. ~Placing(w)'
    BY <1>4, <1>5, <1>7, <2>2 DEF Placing
  <2>4. todo \in Seq(Plain)
    BY <1>1, <1>2, <1>3, <1>7
  <2>5. OnRow(w)' => todo # S
    BY <1>4, <2>2, <2>3, <2>4, FillLists DEF OnRow, Spends, Bases, Counts, Pays
  <2> QED BY <1>6, <1>7, <2>2, <2>3, <2>4, <2>5, NothingToMove
<1>8. CASE StartSubmit(w, o)
  <2>1. PICK kind \in {"submit", "resubmit"} : Begins(w, kind, o, S)
    BY <1>8 DEF StartSubmit, S
  <2> QED BY <1>6, <1>7, <2>1
<1>9. CASE StartReconcile(w, o)
  <2>1. Begins(w, "reconcile", o, R) /\ ledger[o].exists
    BY <1>9 DEF StartReconcile, NeedsReconcile, R
  <2> QED BY <1>6, <1>7, <2>1
<1>10. CASE StartCancel(w, o)
  <2>1. Begins(w, "cancel", o, C) /\ ledger[o].exists
    BY <1>10 DEF StartCancel, C
  <2> QED BY <1>6, <1>7, <2>1
<1> QED BY <1>6, <1>8, <1>9, <1>10

LEMMA TurnAccounts ==
  ASSUME Typed, Typed', PlacedByClaimant, Squared, Next, NoCashMoves, NEW w \in Workers, Advance(w)
  PROVE  Account(w)' /\ ~Owes(w) /\ ~Owes(w)'
<1>1. Busy(w) /\ Account(w) /\ calls[w].todo \in Shapes /\ OrderOf(w) \in Orders
  <2>1. Busy(w)
    BY DEF Advance, Acquire, TryAcquire, Unlease, CheckSubmit, ClaimPermit, RecordSubmission,
       PlaceOrder, UpdateState, NeedsIt, AskVenue, CountFill, ResolveOrder, ReleaseReservation,
       ConsumeReservation, RecordBaseline, RecordCancel, AskCancel, At
  <2> QED BY <2>1, CallFacts DEF Squared, Account, Typed
<1>2. /\ Calmly(w) \/ StillSpends(w) \/ IsFilled(w) \/ FindsFill(w)
      /\ Own(w) /\ ~Owes(w)
  BY <1>1, CallTurns DEF NoCashMoves
<1>3. Busy(w)' => OrderOf(w)' = OrderOf(w)
  BY <1>2 DEF Own
<1>4. /\ ledger'[OrderOf(w)].counted = ledger[OrderOf(w)].counted
      /\ ledger[OrderOf(w)].exists => ledger'[OrderOf(w)].exists
  BY <1>1, LedgerCounts DEF NoCashMoves
<1>5. OnRow(w) => ledger[OrderOf(w)].exists
  BY <1>1 DEF Account
<1>6. CASE Calmly(w)
  <2>1. Placing(w)' => ledger'[OrderOf(w)].counted = 0 /\ ledger'[OrderOf(w)].exists
    <3>1. Placing(w)' => Placing(w) \/ Claims(w)
      BY PlacingMoves DEF Typed
    <3>2. Placing(w) => ledger[OrderOf(w)].counted = 0 /\ ledger[OrderOf(w)].exists
      BY <1>1 DEF Account, OnRow
    <3> QED BY <1>4, <3>1, <3>2, FreshClaim
  <2>2. OnRow(w)' => Placing(w)' \/ OnRow(w)
    BY <1>1, <1>6, FillLists DEF OnRow, Calmly, Spends, Bases, Counts, Pays
  <2>3. OnRow(w)' => Busy(w)'
    BY DEF OnRow, Placing, Spends, Bases, Counts, Pays
  <2>4. OnRow(w)' => ledger'[OrderOf(w)].exists
    BY <1>4, <1>5, <2>1, <2>2
  <2>5. Placing(w)' => Busy(w)'
    BY DEF Placing
  <2> QED BY <1>2, <1>3, <1>6, <2>1, <2>3, <2>4, <2>5, NothingToMove DEF Calmly
<1>7. ASSUME Spends(w)', ledger[OrderOf(w)].exists, ledger[OrderOf(w)].counted = 0,
             calls'[w].cash = calls'[w].reply.filled, calls'[w].cash > 0
      PROVE  Account(w)' /\ ~Owes(w)'
  <2>1. ~Placing(w)' /\ ~Bases(w)' /\ ~Pays(w)' /\ Busy(w)'
    BY <1>7, OneKind DEF Placing, Spends, Bases, Pays, Steps, SubmitSteps
  <2> QED BY <1>3, <1>4, <1>7, <2>1 DEF Account, Owes, Spends, Shapes
<1>8. CASE StillSpends(w)
  <2>1. /\ Spends(w)' /\ ledger[OrderOf(w)].exists /\ ledger[OrderOf(w)].counted = 0
        /\ calls'[w].cash = calls'[w].reply.filled /\ calls'[w].cash > 0
    BY <1>1, <1>5, <1>8 DEF StillSpends, Account, OnRow
  <2> QED BY <1>2, <1>7, <2>1
<1>9. CASE IsFilled(w)
  <2>1. /\ Spends(w)' /\ ledger[OrderOf(w)].exists /\ ledger[OrderOf(w)].counted = 0
        /\ calls'[w].cash = calls'[w].reply.filled /\ calls'[w].cash > 0
    BY <1>1, <1>5, <1>9 DEF IsFilled, Account, OnRow
  <2> QED BY <1>2, <1>7, <2>1
<1>10. CASE FindsFill(w)
  <2>1. ledger[OrderOf(w)].exists /\ Counts(w)'
    BY <1>1, <1>5, <1>10 DEF FindsFill, OnRow
  <2>2. ~Placing(w)' /\ ~Spends(w)' /\ ~Bases(w)' /\ ~Pays(w)' /\ Busy(w)'
    BY <2>1, OneKind DEF Placing, Spends, Bases, Counts, Pays, Steps, SubmitSteps
  <2> QED BY <1>2, <1>3, <1>4, <2>1, <2>2 DEF Account, Owes, Counts, Shapes
<1> QED BY <1>2, <1>6, <1>8, <1>9, <1>10

LEMMA CalmStep ==
  ASSUME OneCaller, Typed, Typed', PlacedByClaimant, Squared, Next, UNCHANGED failures, NoCashMoves
  PROVE  Squared'
<1>1. ASSUME NEW w \in Workers PROVE Account(w)' /\ (Owes(w) => calls'[w] = calls[w])
  <2>1. CASE UNCHANGED calls
    BY <2>1, StillAccounts
  <2>2. ASSUME NEW v \in Workers, Advance(v) PROVE Account(w)' /\ ~Owes(w)
    BY <2>2, TurnAccounts DEF OneCaller
  <2>3. ASSUME NEW v \in Workers, NEW o \in Orders,
               StartSubmit(v, o) \/ StartReconcile(v, o) \/ StartCancel(v, o)
        PROVE  Account(w)' /\ ~Owes(w)
    BY <2>3, StartAccounts DEF OneCaller, Owes, Bases, Pays
  <2> QED BY <2>1, <2>2, <2>3, WhoseStep
<1>2. ASSUME NEW o \in Orders, claimed'[PermitOf[o]] = o, ConsumeMayAccept(RowOf(o))',
             \A w \in Workers : Owes(w)' => OrderOf(w)' # o
      PROVE  reservation'[PermitOf[o]].consumed = ledger'[o].counted
  <2>1. PICK p \in Permits : p = PermitOf[o]
    BY ExecutorAssumption
  <2>2. /\ reservation'[p].consumed = reservation[p].consumed
        /\ ConsumeMayAccept(reservation[p])' => ConsumeMayAccept(reservation[p])
    BY RowSpends DEF NoCashMoves
  <2>3. ledger'[o].counted = ledger[o].counted
    BY LedgerCounts DEF NoCashMoves
  <2>4. CASE claimed[p] = o
    <3>1. \A w \in Workers : Owes(w) => OrderOf(w) # o
      BY <1>1, <1>2 DEF Owes, Bases, Pays, Busy, OrderOf
    <3>2. Square(o)
      BY DEF Squared
    <3> QED BY <1>2, <2>1, <2>2, <2>3, <2>4, <3>1, <3>2 DEF Square, RowOf
  <2>5. CASE claimed[p] # o
    <3>1. PICK w \in Workers : Claims(w)
      BY <1>2, <2>1, <2>5, ClaimedMoves DEF Typed
    <3>2. Permit(w) = p /\ OrderOf(w) = o
      BY <1>2, <2>1, <2>5, <3>1, FreshClaim DEF Claims, Typed, TypeOK
    <3> QED BY <2>1, <2>2, <2>3, <3>1, <3>2, FreshClaim
  <2> QED BY <2>4, <2>5
<1>3. \A o \in Orders : Square(o)'
  BY <1>2 DEF Square, RowOf
<1> QED BY <1>1, <1>3, RowsStay DEF Squared

(***************************************************************************)
(* The steps that move cash                                                *)
(***************************************************************************)

\* With one caller, only the order of the step and its permit matter.
LEMMA OthersAreSquare ==
  ASSUME OneCaller, Typed, Squared, NEW w \in Workers, NEW o \in Orders, NEW p \in Permits,
         o = OrderOf(w), p = Permit(w), Busy(w)' => OrderOf(w)' = o,
         UNCHANGED <<claimed, clock>>, ledger[o].exists,
         \A x \in Orders \ {o} : ledger'[x] = ledger[x],
         \A q \in Permits \ {p} : reservation'[q] = reservation[q],
         ledger'[o].exists, reservation'[p].amount = Size,
         reservation'[p].status = "CONSUMED" => reservation'[p].consumed = Size,
         Account(w)',
         ConsumeMayAccept(reservation[p])' /\ ~Owes(w)'
           => reservation'[p].consumed = ledger'[o].counted
  PROVE  Squared'
<1>1. p = PermitOf[o] /\ claimed[p] = o /\ o # Unclaimed
  BY ExecutorAssumption DEF Squared, ClaimedRows, Permit
<1>2. \A v \in Workers : v = w
  BY DEF OneCaller
<1>3. ClaimedRows'
  <2>1. \A x \in Orders : ledger'[x].exists => claimed[PermitOf[x]] = x
    BY DEF Squared, ClaimedRows
  <2>2. \A x \in Orders : ~ledger'[x].exists => ledger'[x].counted = 0
    BY DEF Squared, ClaimedRows
  <2>3. \A q \in Permits : /\ reservation'[q].amount = Size
                           /\ claimed[q] = Unclaimed => reservation'[q].consumed = 0
                           /\ reservation'[q].status = "CONSUMED" => reservation'[q].consumed = Size
    BY <1>1 DEF Squared, ClaimedRows
  <2> QED BY <2>1, <2>2, <2>3 DEF ClaimedRows
<1>4. ASSUME NEW x \in Orders, claimed[PermitOf[x]] = x, ConsumeMayAccept(reservation[PermitOf[x]])',
             \A v \in Workers : Owes(v)' => OrderOf(v)' # x
      PROVE  reservation'[PermitOf[x]].consumed = ledger'[x].counted
  <2>1. CASE x = o
    <3>1. Owes(w)' => Busy(w)'
      BY DEF Owes, Bases, Pays
    <3>2. ~Owes(w)'
      BY <1>4, <2>1, <3>1
    <3> QED BY <1>1, <1>4, <2>1, <3>2
  <2>2. CASE x # o
    <3>1. PermitOf[x] \in Permits /\ PermitOf[x] # p
      BY <1>1, <1>4, <2>2, ExecutorAssumption
    <3>2. reservation'[PermitOf[x]] = reservation[PermitOf[x]] /\ ledger'[x] = ledger[x]
      BY <2>2, <3>1
    <3>3. ConsumeMayAccept(RowOf(x))
      BY <1>4, <3>2 DEF ConsumeMayAccept, RowOf
    <3>4. \A v \in Workers : Owes(v) => OrderOf(v) # x
      BY <1>2, <2>2
    <3>5. Square(x)
      BY DEF Squared
    <3> QED BY <1>4, <3>2, <3>3, <3>4, <3>5 DEF Square, RowOf
  <2> QED BY <2>1, <2>2
<1>5. \A x \in Orders : Square(x)'
  BY <1>4 DEF Square, RowOf
<1> QED BY <1>2, <1>3, <1>5 DEF Squared

\* Unless the call owes, what its order has spent is what it has counted.
LEMMA OwnIsSquare ==
  ASSUME OneCaller, Typed, Squared, NEW w \in Workers, Busy(w), OnRow(w),
         NEW o \in Orders, NEW p \in Permits, o = OrderOf(w), p = Permit(w)
  PROVE  /\ ledger[o].exists /\ p = PermitOf[o] /\ claimed[p] = o
         /\ reservation[p].amount = Size
         /\ reservation[p].status = "CONSUMED" => reservation[p].consumed = Size
         /\ ~Owes(w) /\ ConsumeMayAccept(reservation[p]) => reservation[p].consumed = ledger[o].counted
<1>1. ledger[o].exists /\ p = PermitOf[o] /\ claimed[p] = o
  BY DEF Squared, ClaimedRows, Account, Permit
<1>2. /\ reservation[p].amount = Size
      /\ reservation[p].status = "CONSUMED" => reservation[p].consumed = Size
  BY DEF Squared, ClaimedRows
<1>3. ~Owes(w) => \A v \in Workers : Owes(v) => OrderOf(v) # o
  BY DEF OneCaller
<1>4. Square(o)
  BY DEF Squared
<1> QED BY <1>1, <1>2, <1>3, <1>4 DEF Square, RowOf

\* A poll counts what is new, and owes it to the reservation then.
LEMMA CountStep ==
  ASSUME OneCaller, Typed, Typed', Squared, NEW w \in Workers, CountFill(w) PROVE Squared'
<1>1. Busy(w) /\ Counts(w) /\ CallsTyped /\ TypeOK /\ calls[w].todo \in ToCount
  <2>1. Busy(w) /\ CallsTyped /\ TypeOK
    BY DEF CountFill, At, Typed
  <2>2. calls[w].todo \in ToCount
    BY <2>1, FirstFill, CallFacts DEF CountFill, At, Squared, Account
  <2> QED BY <2>1, <2>2 DEF Counts
<1>2. PICK o \in Orders, p \in Permits : o = OrderOf(w) /\ p = Permit(w)
  BY <1>1, CallFacts
<1>3. PICK filled \in 0 .. Size : filled = calls[w].reply.filled
  BY <1>1, CallFacts DEF Call
<1> DEFINE row == ledger[o]
<1>4. row \in LedgerRow /\ row.counted \in 0 .. Size
  BY <1>1 DEF TypeOK, LedgerRow
<1>5. PICK delta \in 0 .. Size : delta = FillDelta(row, filled)
  BY <1>4, ExecutorAssumption DEF FillDelta
<1>6. Rest(w) \in Seq(Plain) /\ <<"consume">> \o Rest(w) \in ToPay
  BY <1>1, FillLists DEF Rest
<1>7. OnRow(w) /\ ~Owes(w)
  BY <1>1, OneKind DEF OnRow, Owes, Bases, Pays
<1>8. /\ ledger[o].exists /\ p = PermitOf[o] /\ claimed[p] = o /\ reservation[p].amount = Size
      /\ reservation[p].status = "CONSUMED" => reservation[p].consumed = Size
      /\ ConsumeMayAccept(reservation[p]) => reservation[p].consumed = row.counted
  BY <1>1, <1>2, <1>7, OwnIsSquare
<1>9. ledger'[o].counted = row.counted + delta /\ ledger'[o].exists
  <2>1. ledger'[o] = FillCounted(row, filled)
    BY <1>1, <1>2, <1>3 DEF CountFill, TypeOK
  <2> QED BY <1>4, <1>5, <1>8, <2>1 DEF FillCounted, LedgerRow
<1>10. /\ UNCHANGED <<claimed, clock, reservation>>
       /\ \A x \in Orders \ {o} : ledger'[x] = ledger[x]
  BY <1>1, <1>2 DEF CountFill, TypeOK
<1>11. ConsumeMayAccept(reservation[p])' => reservation'[p].consumed = row.counted
  BY <1>8, <1>10 DEF ConsumeMayAccept
<1>12. Busy(w)' => OrderOf(w)' = o
  BY <1>1, <1>2, CountFillMoves DEF Moves, Own
<1>13. CASE delta > 0
  <2> DEFINE c == [calls[w] EXCEPT !.cash = delta]
  <2>1. c \in Call /\ c.cash = delta
    BY <1>1, CallFacts DEF Call
  <2>2. Goes(w, c, <<"consume">> \o Rest(w))
    BY <1>2, <1>3, <1>5, <1>13 DEF CountFill
  <2> HIDE DEF c
  <2>3. <<"consume">> \o Rest(w) \in Seq(Await)
    BY <1>6, FillLists, SettlingOnly
  <2>4. Busy(w)' => calls'[w].todo \in ToPay /\ calls'[w].cash = delta
    BY <1>1, <1>6, <2>1, <2>2, <2>3, NextCall
  <2>5. Busy(w)'
    <3>1. <<"consume">> \o Rest(w) # <<>>
      BY <1>6, EmptySeq, FillLists
    <3>2. calls'[w] = [c EXCEPT !.todo = <<"consume">> \o Rest(w)]
      BY <1>1, <2>2, <3>1 DEF Goes, CallsTyped
    <3>3. calls'[w].kind = c.kind /\ c.kind # "none"
      BY <2>1, <3>2 DEF Call
    <3> QED BY <3>3 DEF Busy
  <2>6. Pays(w)' /\ Owes(w)' /\ ~Placing(w)' /\ ~Spends(w)' /\ ~Bases(w)'
    BY <2>4, <2>5, OneKind DEF Pays, Owes, Placing, Spends, Bases, Steps, SubmitSteps
  <2>7. ConsumeMayAccept(reservation[p])' => reservation'[p].consumed + calls'[w].cash = ledger'[o].counted
    BY <1>9, <1>11, <2>4, <2>5
  <2>8. RowOf(OrderOf(w))' = reservation'[p]
    BY <1>8, <1>12, <2>5 DEF RowOf
  <2>9. ConsumeMayAccept(RowOf(OrderOf(w)))' => ConsumeMayAccept(reservation[p])'
    BY <2>8 DEF ConsumeMayAccept
  <2>10. Account(w)'
    BY <1>9, <1>12, <1>13, <2>4, <2>5, <2>6, <2>7, <2>8, <2>9 DEF Account, Shapes
  <2> QED BY <1>2, <1>8, <1>9, <1>10, <1>12, <2>6, <2>10, OthersAreSquare
<1>14. CASE ~(delta > 0)
  <2>1. Goes(w, calls[w], Rest(w))
    BY <1>2, <1>3, <1>5, <1>14 DEF CountFill, Continues
  <2>2. Rest(w) \in Seq(Await) /\ Rest(w) \in Seq(Settling)
    BY <1>1, SettlingIsFirst, SettlingOnly DEF CountFill, At, Settling
  <2>3. Busy(w)' => calls'[w].todo = Rest(w)
    BY <1>1, <2>1, <2>2, CallFacts, NextCall
  <2>4. ~OnRow(w)' /\ ~Placing(w)'
    BY <1>6, <2>2, <2>3, FillLists, SettlingOnly
       DEF OnRow, Placing, Spends, Bases, Counts, Pays, Steps, SubmitSteps
  <2>5. Account(w)'
    BY <1>6, <2>3, <2>4, NothingToMove
  <2>6. ConsumeMayAccept(reservation[p])' => reservation'[p].consumed = ledger'[o].counted
    BY <1>4, <1>5, <1>9, <1>11, <1>14
  <2> QED BY <1>2, <1>8, <1>9, <1>10, <1>12, <2>5, <2>6, OthersAreSquare
<1> QED BY <1>13, <1>14

\* submit counts the fill it has spent from the reservation.
LEMMA BaselineStep ==
  ASSUME OneCaller, Typed, Typed', Squared, NEW w \in Workers, RecordBaseline(w) PROVE Squared'
<1>1. Busy(w) /\ Bases(w) /\ CallsTyped /\ TypeOK /\ calls[w].todo \in ToBase
  <2>1. Busy(w) /\ CallsTyped /\ TypeOK
    BY DEF RecordBaseline, At, Typed
  <2>2. calls[w].todo \in ToBase
    BY <2>1, FirstFill, CallFacts DEF RecordBaseline, At, Squared, Account
  <2> QED BY <2>1, <2>2 DEF Bases
<1>2. PICK o \in Orders, p \in Permits : o = OrderOf(w) /\ p = Permit(w)
  BY <1>1, CallFacts
<1>3. PICK filled \in 0 .. Size : filled = calls[w].reply.filled
  BY <1>1, CallFacts DEF Call
<1> DEFINE row == ledger[o]
<1>4. row \in LedgerRow /\ row.counted = 0
  BY <1>1, <1>2 DEF TypeOK, LedgerRow, Squared, Account
<1>5. Rest(w) \in Seq(Plain) /\ Rest(w) \in Seq(Await)
  <2>1. Rest(w) \in Seq(Settling)
    BY <1>1, SettlingIsFirst DEF RecordBaseline, At, Settling
  <2> QED BY <1>1, <2>1, FillLists, SettlingOnly DEF Rest
<1>6. OnRow(w)
  BY <1>1 DEF OnRow
<1>7. /\ ledger[o].exists /\ p = PermitOf[o] /\ reservation[p].amount = Size
      /\ reservation[p].status = "CONSUMED" => reservation[p].consumed = Size
  BY <1>1, <1>2, <1>6, OwnIsSquare
<1>8. ConsumeMayAccept(reservation[p]) => reservation[p].consumed = filled
  BY <1>1, <1>2, <1>3, <1>7 DEF Squared, Account, RowOf
<1>9. ledger'[o].counted = filled /\ ledger'[o].exists
  <2>1. ledger'[o] = FillCounted(row, filled)
    BY <1>1, <1>2, <1>3 DEF RecordBaseline, TypeOK
  <2>2. FillDelta(row, filled) = filled
    BY <1>3, <1>4, <1>7, ExecutorAssumption DEF FillDelta
  <2> QED BY <1>4, <1>7, <2>1, <2>2, ExecutorAssumption DEF FillCounted, LedgerRow
<1>10. /\ UNCHANGED <<claimed, clock, reservation>>
       /\ \A x \in Orders \ {o} : ledger'[x] = ledger[x]
  BY <1>1, <1>2 DEF RecordBaseline, TypeOK
<1>11. ConsumeMayAccept(reservation[p])' => reservation'[p].consumed = ledger'[o].counted
  BY <1>8, <1>9, <1>10 DEF ConsumeMayAccept
<1>12. Busy(w)' => OrderOf(w)' = o
  BY <1>1, <1>2, BaselineMoves DEF Moves, Own
<1>13. Busy(w)' => calls'[w].todo = Rest(w)
  BY <1>1, <1>5, CallFacts, NextCall DEF RecordBaseline, Continues
<1>14. ~OnRow(w)' /\ ~Placing(w)'
  <2>1. Rest(w) \in Seq(Settling)
    BY <1>1, SettlingIsFirst DEF RecordBaseline, At, Settling
  <2> QED BY <1>5, <1>13, <2>1, FillLists, SettlingOnly
       DEF OnRow, Placing, Spends, Bases, Counts, Pays, Steps, SubmitSteps
<1>15. Account(w)'
  BY <1>5, <1>13, <1>14, NothingToMove
<1> QED BY <1>2, <1>7, <1>9, <1>10, <1>11, <1>12, <1>15, OthersAreSquare

\* consume() takes the cash that is due, all of it or, if it may not, nothing.
LEMMA SpentRow ==
  ASSUME NEW row \in ReservationRows, NEW cash \in 0 .. Size, cash > 0, NEW due \in 0 .. Size,
         row.amount = Size, row.status = "CONSUMED" => row.consumed = Size,
         ConsumeMayAccept(row) => row.consumed + cash = due, NEW new,
         new = IF CanConsume(row, cash, clock) THEN AfterConsume(row, cash) ELSE row
  PROVE  /\ new.amount = Size
         /\ new.status = "CONSUMED" => new.consumed = Size
         /\ ConsumeMayAccept(new) => new.consumed = due
<1>1. row.consumed \in Nat /\ Size \in Nat /\ cash \in Nat /\ due \in Nat /\ due <= Size
  BY ExecutorAssumption DEF ReservationRows
<1>2. CASE CanConsume(row, cash, clock)
  <2>1. ConsumeMayAccept(row)
    BY <1>2 DEF CanConsume, ConsumeMayAccept, IsLive
  <2>2. new.amount = Size /\ new.consumed = row.consumed + cash
        /\ (new.status = "CONSUMED" => row.consumed + cash = row.amount)
    BY <1>2 DEF AfterConsume, Rewritten
  <2> QED BY <2>1, <2>2
<1>3. CASE ~CanConsume(row, cash, clock)
  <2>1. new = row
    BY <1>3
  <2>2. ~ConsumeMayAccept(row)
    <3>1. SUFFICES ASSUME ConsumeMayAccept(row) PROVE FALSE
      OBVIOUS
    <3>2. row.status # "CONSUMED"
      BY <1>1, <3>1
    <3>3. IsLive(row) /\ ~PastDeadline(row, clock)
      BY <3>1, <3>2 DEF ConsumeMayAccept, IsLive
    <3>4. row.consumed + cash <= row.amount
      BY <1>1, <3>1
    <3> QED BY <1>3, <3>3, <3>4 DEF CanConsume
  <2> QED BY <2>1, <2>2
<1> QED BY <1>2, <1>3

LEMMA ConsumeStep ==
  ASSUME OneCaller, Typed, Typed', Squared, NEW w \in Workers, ConsumeReservation(w) PROVE Squared'
<1>1. Busy(w) /\ CallsTyped /\ TypeOK /\ reservation \in [Permits -> ReservationRows]
  BY DEF ConsumeReservation, At, Typed, TypeOK, ReservationRows
<1>2. \/ Pays(w) /\ calls[w].todo \in ToPay
      \/ Spends(w) /\ calls[w].todo \in ToSpend /\ Rest(w) \in ToBase
  <2>1. \/ calls[w].todo \in ToPay
        \/ calls[w].todo \in ToSpend /\ Tail(calls[w].todo) \in ToBase
    BY <1>1, FirstFill, CallFacts DEF ConsumeReservation, At, Squared, Account
  <2> QED BY <1>1, <2>1 DEF Pays, Spends, Rest
<1>3. PICK o \in Orders, p \in Permits : o = OrderOf(w) /\ p = Permit(w)
  BY <1>1, CallFacts
<1>4. PICK cash \in 0 .. Size, filled \in 0 .. Size :
        cash = calls[w].cash /\ filled = calls[w].reply.filled
  BY <1>1, CallFacts DEF Call
<1> DEFINE row == reservation[p]
           new == IF CanConsume(row, cash, clock) THEN AfterConsume(row, cash) ELSE row
<1>5. OnRow(w) /\ cash > 0 /\ Account(w)
  BY <1>2, <1>4 DEF OnRow, Squared, Account
<1>6. /\ ledger[o].exists /\ p = PermitOf[o] /\ row.amount = Size
      /\ row.status = "CONSUMED" => row.consumed = Size
      /\ ~Owes(w) /\ ConsumeMayAccept(row) => row.consumed = ledger[o].counted
  BY <1>1, <1>3, <1>5, OwnIsSquare
<1>7. ledger[o].counted \in 0 .. Size /\ row \in ReservationRows /\ Size \in Nat
  BY <1>1, ExecutorAssumption DEF TypeOK
<1>8. reservation'[p] = new /\ \A q \in Permits \ {p} : reservation'[q] = reservation[q]
  BY <1>1, <1>3, <1>4 DEF ConsumeReservation
<1>9. UNCHANGED <<claimed, clock, ledger>>
  BY DEF ConsumeReservation
<1>10. Rest(w) \in Seq(Settling) /\ Rest(w) \in Seq(Await)
  BY <1>1, SettlingIsFirst, SettlingOnly DEF ConsumeReservation, At, Settling
<1>11. Busy(w)' => /\ OrderOf(w)' = o /\ calls'[w].todo = Rest(w)
                   /\ calls'[w].reply = calls[w].reply /\ calls'[w].cash = calls[w].cash
  BY <1>1, <1>3, <1>10, CallFacts, NextCall DEF ConsumeReservation, Continues, OrderOf
<1>12. ~Placing(w)' /\ ~(Busy(w)' /\ calls'[w].todo \in Steps)
  BY <1>10, <1>11, SettlingOnly DEF Placing, Steps, SubmitSteps
<1>13. ConsumeMayAccept(reservation[p])' => ConsumeMayAccept(new)
  BY <1>8, <1>9 DEF ConsumeMayAccept
<1> HIDE DEF row, new
<1>14. ASSUME NEW due \in 0 .. Size, ConsumeMayAccept(row) => row.consumed + cash = due
       PROVE  /\ reservation'[p].amount = Size
              /\ reservation'[p].status = "CONSUMED" => reservation'[p].consumed = Size
              /\ ConsumeMayAccept(reservation[p])' => reservation'[p].consumed = due
  <2>1. new = IF CanConsume(row, cash, clock) THEN AfterConsume(row, cash) ELSE row
    BY DEF new
  <2>2. /\ new.amount = Size
        /\ new.status = "CONSUMED" => new.consumed = Size
        /\ ConsumeMayAccept(new) => new.consumed = due
    BY <1>5, <1>6, <1>7, <1>14, <2>1, SpentRow
  <2> QED BY <1>8, <1>13, <2>2
<1>15. CASE Pays(w) /\ calls[w].todo \in ToPay
  <2>1. ConsumeMayAccept(row) => row.consumed + cash = ledger[o].counted
    BY <1>3, <1>4, <1>5, <1>6, <1>15 DEF Account, RowOf, row
  <2>2. /\ reservation'[p].amount = Size
        /\ reservation'[p].status = "CONSUMED" => reservation'[p].consumed = Size
        /\ ConsumeMayAccept(reservation[p])' => reservation'[p].consumed = ledger[o].counted
    BY <1>7, <1>14, <2>1
  <2>3. Rest(w) \in Seq(Plain)
    BY <1>15, FillLists DEF Rest
  <2>4. ~OnRow(w)'
    BY <1>11, <1>12, <2>3, FillLists DEF OnRow, Spends, Bases, Counts, Pays, Steps
  <2>5. Account(w)'
    BY <1>11, <1>12, <2>3, <2>4, NothingToMove
  <2> QED BY <1>3, <1>6, <1>8, <1>9, <1>11, <2>2, <2>5, OthersAreSquare
<1>16. CASE Spends(w) /\ calls[w].todo \in ToSpend /\ Rest(w) \in ToBase
  <2>1. ledger[o].counted = 0 /\ cash = filled
    BY <1>3, <1>4, <1>5, <1>16 DEF Account
  <2>2. ~Owes(w)
    BY <1>16, OneKind DEF Owes, Bases, Pays
  <2>3. ConsumeMayAccept(row) => row.consumed + cash = filled
    <3>1. ConsumeMayAccept(row) => row.consumed = 0
      BY <1>6, <2>1, <2>2
    <3> QED BY <1>7, <2>1, <3>1
  <2>4. /\ reservation'[p].amount = Size
        /\ reservation'[p].status = "CONSUMED" => reservation'[p].consumed = Size
        /\ ConsumeMayAccept(reservation[p])' => reservation'[p].consumed = filled
    BY <1>14, <2>3
  <2>5. Rest(w) # <<>>
    BY <1>16, EmptySeq, FillLists
  <2>6. Busy(w)'
    <3>1. calls'[w] = [calls[w] EXCEPT !.todo = Rest(w)]
      BY <1>1, <2>5 DEF ConsumeReservation, Continues, Goes, CallsTyped
    <3>2. calls'[w].kind = calls[w].kind
      BY <1>1, <3>1, CallFacts DEF Call
    <3> QED BY <1>1, <3>2 DEF Busy
  <2>7. Bases(w)' /\ Owes(w)' /\ ~Spends(w)' /\ ~Pays(w)' /\ calls'[w].todo \in ToBase
    BY <1>11, <1>16, <2>6, OneKind DEF Bases, Owes, Spends, Pays
  <2>8. RowOf(OrderOf(w))' = reservation'[p]
    BY <1>6, <1>11, <2>6 DEF RowOf
  <2>9. ConsumeMayAccept(RowOf(OrderOf(w)))' => ConsumeMayAccept(reservation[p])'
    BY <2>8 DEF ConsumeMayAccept
  <2>10. Account(w)'
    BY <1>4, <1>6, <1>9, <1>11, <1>12, <2>1, <2>4, <2>6, <2>7, <2>8, <2>9 DEF Account, Shapes
  <2> QED BY <1>3, <1>6, <1>8, <1>9, <1>11, <2>4, <2>7, <2>10, OthersAreSquare
<1> QED BY <1>2, <1>15, <1>16

LEMMA SquaredInit == Init => Squared
<1> SUFFICES ASSUME Init PROVE Squared
  OBVIOUS
<1>1. \A w \in Workers : ~Busy(w)
  BY DEF Init, Busy, NoCall
<1>2. \A w \in Workers : Account(w)
  BY <1>1 DEF Account, OnRow, Placing, Spends, Bases, Counts, Pays
<1>3. ClaimedRows
  BY ExecutorAssumption DEF Init, ClaimedRows, NoRow
<1>4. \A o \in Orders : Square(o)
  BY ExecutorAssumption DEF Init, Square
<1> QED BY <1>2, <1>3, <1>4 DEF Squared

Unfailed == Typed /\ PlacedByClaimant /\ (failures = 0 => Squared)

LEMMA FillsStep == ASSUME OneCaller, Unfailed, [Next]_vars PROVE Unfailed'
<1>1. Typed /\ PlacedByClaimant /\ Typed' /\ PlacedByClaimant'
  BY TypedStep, ClaimantStep DEF Unfailed
<1>2. ASSUME failures' = 0 PROVE Squared'
  <2>1. failures = 0 /\ UNCHANGED failures /\ Squared
    <3>1. failures \in Nat /\ (UNCHANGED vars => UNCHANGED failures)
      BY <1>1 DEF Typed, TypeOK, vars
    <3>2. ASSUME NEW w \in Workers, Advance(w) PROVE UNCHANGED failures
      BY <3>2 DEF Advance, Acquire, TryAcquire, Unlease, CheckSubmit, ClaimPermit, RecordSubmission,
         PlaceOrder, UpdateState, NeedsIt, AskVenue, CountFill, ResolveOrder, ReleaseReservation,
         ConsumeReservation, RecordBaseline, RecordCancel, AskCancel
    <3>3. UNCHANGED failures \/ failures' = failures + 1
      BY <3>1, <3>2 DEF Next, StartSubmit, StartReconcile, StartCancel, Fault, Crash,
         ExpireReservation, VenueReceives, VenueFills, VenueCancels, VenueChanges, Tick
    <3> QED BY <1>2, <3>1, <3>3 DEF Unfailed
  <2>2. CASE UNCHANGED vars
    BY <2>1, <2>2 DEF vars, Squared, ClaimedRows, Account, Square, RowOf, ConsumeMayAccept, Owes,
       OnRow, Placing, Spends, Bases, Counts, Pays, Busy, OrderOf
  <2>3. CASE Next
    <3>1. ASSUME NEW w \in Workers, CountFill(w) \/ ConsumeReservation(w) \/ RecordBaseline(w)
          PROVE  Squared'
      BY <1>1, <2>1, <3>1, CountStep, ConsumeStep, BaselineStep
    <3>2. CASE NoCashMoves
      BY <1>1, <2>1, <2>3, <3>2, CalmStep
    <3> QED BY <3>1, <3>2 DEF NoCashMoves
  <2> QED BY <2>2, <2>3
<1> QED BY <1>1, <1>2 DEF Unfailed

(***************************************************************************)
(* With one caller of the executor and as long as no await has failed, the *)
(* fills the ledger has counted are the fills the reservation has paid     *)
(* for, whether submit or a poll (consumeFill) saw them first: none is     *)
(* spent twice, and none is counted without being spent.                   *)
(***************************************************************************)
THEOREM FillsAreSpent == OneCaller => (Spec => []CountedFillsAreSpent)
<1> SUFFICES ASSUME OneCaller PROVE Spec => []CountedFillsAreSpent
  OBVIOUS
<1>1. Init => Unfailed
  BY TypedInit, ClaimantInit, SquaredInit DEF Unfailed
<1>2. Unfailed /\ [Next]_vars => Unfailed'
  BY FillsStep
<1>3. Unfailed => CountedFillsAreSpent
  BY DEF Unfailed, CountedFillsAreSpent, Quiet, Squared, Square, RowOf, Owes, Bases, Pays
<1> QED BY <1>1, <1>2, <1>3, PTL DEF Spec
=============================================================================

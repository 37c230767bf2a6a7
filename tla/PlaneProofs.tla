----------------------------- MODULE PlaneProofs -----------------------------
(***************************************************************************)
(* What is proved of the parts of the plane, for any behaviour of the      *)
(* whole: a step of one part leaves the variables of the others alone.     *)
(***************************************************************************)
EXTENDS EvaluationProofs, EventLedgerProofs

-----------------------------------------------------------------------------
(***************************************************************************)
(* StartUp: two loops never trade side by side.                            *)
(***************************************************************************)

LEMMA StartUpSteps == ASSUME [PlaneNext]_planeVars PROVE [StartUpNext]_startUpVars
BY DEF PlaneNext, planeVars, Group1, Group2, Group3, Group4, Group5

Places == {"off", "cash", "hydrate", "unit", "probe", "bind", "jobs", "loop", "single", "stopping"}

\* A process that starts its jobs or runs its loop holds the port; only the loop, a
\* single run or a loop told to stop is in the middle of a pass; a single run never
\* leaves its own path.
PortHeld ==
    /\ procs \in [Procs -> [pc : Places, once : BOOLEAN, passing : BOOLEAN, jobs : BOOLEAN]]
    /\ \A p \in Procs : /\ At(p, "jobs") \/ At(p, "loop") => port = p
                        /\ procs[p].passing => procs[p].pc \in {"loop", "single", "stopping"}
                        /\ At(p, "single") => procs[p].once

\* Only the process itself changes its place; nobody takes the port from it.
LEMMA ProcessStep ==
  ASSUME PortHeld, NEW p \in Procs, NEW to \in [pc : Places, once : BOOLEAN, passing : BOOLEAN, jobs : BOOLEAN],
         procs' = [procs EXCEPT ![p] = to],
         \/ port' = port
         \/ port = p /\ port' = Nobody
         \/ port = Nobody /\ port' = p,
         to.pc \in {"jobs", "loop"} => port' = p,
         to.passing => to.pc \in {"loop", "single", "stopping"},
         to.pc = "single" => to.once
  PROVE  PortHeld'
<1>1. \A q \in Procs : procs'[q] = IF q = p THEN to ELSE procs[q]
  BY DEF PortHeld
<1>2. procs' \in [Procs -> [pc : Places, once : BOOLEAN, passing : BOOLEAN, jobs : BOOLEAN]]
  BY DEF PortHeld
<1>3. ASSUME NEW q \in Procs
      PROVE  /\ At(q, "jobs")' \/ At(q, "loop")' => port' = q
             /\ procs'[q].passing => procs'[q].pc \in {"loop", "single", "stopping"}
             /\ At(q, "single")' => procs'[q].once
  <2>1. CASE q = p
    BY <1>1, <2>1 DEF At
  <2>2. CASE q # p
    BY <1>1, <2>2, StartUpAssumption DEF At, PortHeld
  <2> QED BY <2>1, <2>2
<1> QED BY <1>2, <1>3 DEF PortHeld

\* A step to a place other than the jobs and the loop, which lets the port be.
LEMMA GoesStep ==
  ASSUME PortHeld, NEW p \in Procs, NEW there \in Places \ {"jobs"}, Goes(p, there), port' = port,
         ~procs[p].passing, there = "single" => procs[p].once,
         there = "loop" => At(p, "jobs")
  PROVE  PortHeld'
<1> DEFINE to == [procs[p] EXCEPT !.pc = there]
<1>1. procs[p] \in [pc : Places, once : BOOLEAN, passing : BOOLEAN, jobs : BOOLEAN]
  BY DEF PortHeld
<1>2. /\ to \in [pc : Places, once : BOOLEAN, passing : BOOLEAN, jobs : BOOLEAN]
      /\ to.pc = there /\ to.passing = procs[p].passing /\ to.once = procs[p].once
  BY <1>1
<1>3. procs' = [procs EXCEPT ![p] = to]
  BY DEF Goes
<1>4. there = "loop" => port = p
  BY DEF PortHeld
<1> HIDE DEF to
<1> QED BY <1>2, <1>3, <1>4, ProcessStep

LEMMA ExitsStep == ASSUME PortHeld, NEW p \in Procs, Exits(p) PROVE PortHeld'
<1>1. Off \in [pc : Places, once : BOOLEAN, passing : BOOLEAN, jobs : BOOLEAN]
  BY DEF Off, Places
<1>2. Off.pc = "off" /\ ~Off.passing
  BY DEF Off
<1>3. procs' = [procs EXCEPT ![p] = Off] /\ (port' = port \/ (port = p /\ port' = Nobody))
  BY DEF Exits
<1> QED BY <1>1, <1>2, <1>3, ProcessStep

LEMMA PortHeldStep == ASSUME PortHeld, [StartUpNext]_startUpVars PROVE PortHeld'
<1>1. CASE UNCHANGED startUpVars
  BY <1>1 DEF startUpVars, PortHeld, At
<1>2. CASE StartUpNext
  <2>1. PICK p \in Procs :
          \/ \E once \in BOOLEAN : Boots(p, once)
          \/ ChecksCash(p) \/ Hydrates(p) \/ ChecksUnit(p) \/ ProbesPort(p) \/ Binds(p) \/ StartsLoop(p)
          \/ PassBegins(p) \/ PassEnds(p) \/ Signals(p) \/ PortCloses(p) \/ ShutsDown(p) \/ Dies(p)
    BY <1>2 DEF StartUpNext
  <2>2. procs[p] \in [pc : Places, once : BOOLEAN, passing : BOOLEAN, jobs : BOOLEAN]
    BY DEF PortHeld
  <2>3. procs[p].passing => procs[p].pc \in {"loop", "single", "stopping"}
    BY DEF PortHeld
  <2>4. CASE Exits(p)
    BY <2>4, ExitsStep
  <2>5. ASSUME NEW once \in BOOLEAN, Boots(p, once) PROVE PortHeld'
    <3> DEFINE to == [pc |-> "cash", once |-> once, passing |-> FALSE, jobs |-> TRUE]
    <3>1. procs' = [procs EXCEPT ![p] = to] /\ port' = port
      BY <2>5 DEF Boots
    <3>2. /\ to \in [pc : Places, once : BOOLEAN, passing : BOOLEAN, jobs : BOOLEAN]
          /\ to.pc = "cash" /\ ~to.passing
      BY DEF Places
    <3> HIDE DEF to
    <3> QED BY <3>1, <3>2, ProcessStep
  <2>6. CASE ~Exits(p) /\ (ChecksCash(p) \/ Hydrates(p) \/ ChecksUnit(p) \/ ProbesPort(p))
    <3>1. PICK there \in {"hydrate", "single", "unit", "probe", "bind"} :
             Goes(p, there) /\ port' = port /\ (there = "single" => procs[p].once)
      BY <2>6 DEF ChecksCash, Hydrates, ChecksUnit, ProbesPort
    <3>2. ~procs[p].passing
      BY <2>3, <2>6 DEF ChecksCash, Hydrates, ChecksUnit, ProbesPort, At
    <3>3. there \in Places \ {"jobs"} /\ there # "loop"
      BY DEF Places
    <3> QED BY <3>1, <3>2, <3>3, GoesStep
  <2>7. CASE ~Exits(p) /\ Binds(p)
    <3> DEFINE to == [procs[p] EXCEPT !.pc = "jobs"]
    <3>1. procs' = [procs EXCEPT ![p] = to] /\ port' = p /\ port = Nobody
      BY <2>7 DEF Binds, BindsPort, Goes
    <3>2. /\ to \in [pc : Places, once : BOOLEAN, passing : BOOLEAN, jobs : BOOLEAN]
          /\ to.pc = "jobs" /\ to.passing = procs[p].passing
      BY <2>2 DEF Places
    <3>3. ~procs[p].passing
      BY <2>3, <2>7 DEF Binds, At
    <3> HIDE DEF to
    <3> QED BY <3>1, <3>2, <3>3, ProcessStep
  <2>8. CASE StartsLoop(p)
    <3>1. Goes(p, "loop") /\ port' = port /\ At(p, "jobs") /\ ~procs[p].passing
      BY <2>3, <2>8 DEF StartsLoop, At
    <3> QED BY <3>1, GoesStep DEF Places
  <2>9. CASE PassBegins(p) \/ (~Exits(p) /\ PassEnds(p))
    <3>1. PICK passing \in BOOLEAN : /\ procs' = [procs EXCEPT ![p].passing = passing] /\ port' = port
                                     /\ passing => At(p, "loop") \/ At(p, "single")
      BY <2>9 DEF PassBegins, PassEnds
    <3> DEFINE to == [procs[p] EXCEPT !.passing = passing]
    <3>2. procs' = [procs EXCEPT ![p] = to]
      BY <3>1
    <3>3. /\ to \in [pc : Places, once : BOOLEAN, passing : BOOLEAN, jobs : BOOLEAN]
          /\ to.pc = procs[p].pc /\ to.passing = passing /\ to.once = procs[p].once
      BY <2>2
    <3>4. /\ procs[p].pc \in {"jobs", "loop"} => port' = p
          /\ procs[p].pc = "single" => procs[p].once
          /\ passing => procs[p].pc \in {"loop", "single", "stopping"}
      BY <3>1 DEF PortHeld, At
    <3> HIDE DEF to
    <3> QED BY <3>1, <3>2, <3>3, <3>4, ProcessStep
  <2>10. CASE Signals(p)
    <3> DEFINE to == [procs[p] EXCEPT !.pc = "stopping", !.jobs = FALSE]
    <3>1. procs' = [procs EXCEPT ![p] = to] /\ port' = port
      BY <2>10 DEF Signals
    <3>2. to \in [pc : Places, once : BOOLEAN, passing : BOOLEAN, jobs : BOOLEAN] /\ to.pc = "stopping"
      BY <2>2 DEF Places
    <3> HIDE DEF to
    <3> QED BY <3>1, <3>2, ProcessStep
  <2>11. CASE PortCloses(p)
    <3>1. procs' = procs /\ port = p /\ port' = Nobody /\ procs[p].pc = "stopping"
      BY <2>11 DEF PortCloses, At
    <3> QED BY <3>1 DEF PortHeld, At
  <2>12. Exits(p) \/ ~Exits(p)
    OBVIOUS
  <2> QED
    BY <2>1, <2>4, <2>5, <2>6, <2>7, <2>8, <2>9, <2>10, <2>11, <2>12 DEF ShutsDown, Dies
<1> QED BY <1>1, <1>2

\* However the starts, the checks that fail open and the binds interleave, two
\* processes never trade side by side.
THEOREM OnlyOneTrader == PlaneSpec => []OneTrader
<1>1. PlaneInit => PortHeld
  BY DEF PlaneInit, StartUpInit, PortHeld, Off, Places, At
<1>2. PortHeld => OneTrader
  BY DEF PortHeld, OneTrader, At
<1>3. PortHeld /\ [PlaneNext]_planeVars => PortHeld'
  BY StartUpSteps, PortHeldStep
<1> QED BY <1>1, <1>2, <1>3, PTL DEF PlaneSpec


-----------------------------------------------------------------------------
(***************************************************************************)
(* ControlPlane and MemRecoveryLedger: what is concluded from an answer.   *)
(***************************************************************************)

LEMMA ControlSteps == ASSUME [PlaneNext]_planeVars PROVE [ControlNext]_controlVars
BY DEF PlaneNext, planeVars, Group1, Group2, Group3, Group4, Group5

RowStates == {"NOT_SEEN", "SUBMITTING", "SUBMISSION_UNKNOWN", "ACKNOWLEDGED", "DEFINITIVE_REJECT"}
Final == {"ACKNOWLEDGED", "DEFINITIVE_REJECT"}
VenueStates == {"none", "sent", "LIVE", "MATCHED", "CANCELED"}
OnVenue == {"LIVE", "MATCHED", "CANCELED"}    \* the venue keeps such an order to its end
SweepPlaces == {"waiting", "loop", "answered", "update", "close"}

\* What may be written of an order for which the venue's record is c.
Fits(c, state) ==
    /\ state = "ACKNOWLEDGED" => c \in OnVenue
    /\ state = "DEFINITIVE_REJECT" => c = "CANCELED"

\* What a status says stays true of the order.
Told(c, status) ==
    /\ status \in {"LIVE", "MATCHED"} => c \in OnVenue
    /\ status = "CANCELED" => c = "CANCELED"

RowShape == [state : RowStates, resolved : BOOLEAN, verdict : Final \cup {"none"}]

ControlShape ==
    /\ stage \in [Intents -> {"idle", "ended"} \cup Working]
    /\ recoveryRows \in [Intents -> RowShape]
    /\ seen \in [Intents -> RowStates]
    /\ clob \in [Intents -> VenueStates]
    /\ sweep \in [pc : SweepPlaces, todo : SUBSET Intents, order : SUBSET Intents,
                  answer : RowStates \cup VenueStates]

\* Everything written of an order fits the venue's record of it.
WrittenFits ==
    \A i \in Intents :
        /\ Fits(clob[i], recoveryRows[i].state) /\ Fits(clob[i], seen[i])
        /\ recoveryRows[i].resolved => recoveryRows[i].verdict \in Final /\ Fits(clob[i], recoveryRows[i].verdict)

\* An order that orchestrate still has in hand is closed to the sweeps.
InHand ==
    \A i \in Intents : stage[i] # "ended" =>
        /\ ~recoveryRows[i].resolved
        /\ recoveryRows[i].state \in {"NOT_SEEN", "SUBMITTING"} /\ seen[i] \in {"NOT_SEEN", "SUBMITTING"}
        /\ i \notin sweep.todo /\ i \notin sweep.order

\* What the sweep carries from one statement to the next.
CarriedFits ==
    \A i \in sweep.order :
        /\ sweep.order = {i}
        /\ sweep.pc = "answered" => sweep.answer \in VenueStates \ {"sent"} /\ Told(clob[i], sweep.answer)
        /\ sweep.pc \in {"update", "close"} => sweep.answer \in RowStates /\ Fits(clob[i], sweep.answer)
        /\ sweep.pc = "close" => sweep.answer \in Final

ControlInv == ControlShape /\ WrittenFits /\ InHand /\ CarriedFits
LEMMA DecidesKeeps == ASSUME ControlInv, NEW i \in Intents, NEW edge, NEW intent, NEW gateOk, Decides(i, edge, intent, gateOk) PROVE ControlInv'
<1>0. ControlShape /\ WrittenFits /\ InHand /\ CarriedFits BY DEF ControlInv
<1>1. ControlShape'
  BY <1>0 DEF ControlShape, Decides, RowShape, RowStates, Final, VenueStates, OnVenue, SweepPlaces, Working
<1>2. WrittenFits'
  BY <1>0 DEF ControlShape, WrittenFits, InHand, CarriedFits, Fits, Told, Decides, RowShape, RowStates, Final, VenueStates, OnVenue, SweepPlaces, Working
<1>3. InHand'
  BY <1>0 DEF ControlShape, InHand, Decides, RowShape, RowStates, Final, VenueStates, OnVenue, SweepPlaces, Working
<1>4. CarriedFits'
  BY <1>0 DEF ControlShape, WrittenFits, InHand, CarriedFits, Fits, Told, Decides, RowShape, RowStates, Final, VenueStates, OnVenue, SweepPlaces, Working
<1> QED BY <1>1, <1>2, <1>3, <1>4 DEF ControlInv

LEMMA BuildsKeeps == ASSUME ControlInv, NEW i \in Intents, NEW ok, Builds(i, ok) PROVE ControlInv'
<1>0. ControlShape /\ WrittenFits /\ InHand /\ CarriedFits BY DEF ControlInv
<1>1. ControlShape'
  BY <1>0 DEF ControlShape, Builds, RowShape, RowStates, Final, VenueStates, OnVenue, SweepPlaces, Working
<1>2. WrittenFits'
  BY <1>0 DEF ControlShape, WrittenFits, InHand, CarriedFits, Fits, Told, Builds, RowShape, RowStates, Final, VenueStates, OnVenue, SweepPlaces, Working
<1>3. InHand'
  BY <1>0 DEF ControlShape, InHand, Builds, RowShape, RowStates, Final, VenueStates, OnVenue, SweepPlaces, Working
<1>4. CarriedFits'
  BY <1>0 DEF ControlShape, WrittenFits, InHand, CarriedFits, Fits, Told, Builds, RowShape, RowStates, Final, VenueStates, OnVenue, SweepPlaces, Working
<1> QED BY <1>1, <1>2, <1>3, <1>4 DEF ControlInv

LEMMA ClaimsPermitKeeps == ASSUME ControlInv, NEW i \in Intents, NEW ok, ClaimsPermit(i, ok) PROVE ControlInv'
<1>0. ControlShape /\ WrittenFits /\ InHand /\ CarriedFits BY DEF ControlInv
<1>1. ControlShape'
  <2>1. Row("SUBMITTING", FALSE) \in RowShape
    BY DEF Row, RowShape, RowStates, Final
  <2>2. recoveryRows' \in [Intents -> RowShape]
    BY <1>0, <2>1 DEF ControlShape, ClaimsPermit
  <2> QED BY <1>0, <2>2 DEF ControlShape, ClaimsPermit, RowStates, Working
<1>2. WrittenFits'
  BY <1>0 DEF ControlShape, WrittenFits, InHand, CarriedFits, Fits, Told, ClaimsPermit, Row, RowShape, RowStates, Final, VenueStates, OnVenue, SweepPlaces, Working
<1>3. InHand'
  BY <1>0 DEF ControlShape, InHand, ClaimsPermit, Row, RowShape, RowStates, Final, VenueStates, OnVenue, SweepPlaces, Working
<1>4. CarriedFits'
  BY <1>0 DEF ControlShape, WrittenFits, InHand, CarriedFits, Fits, Told, ClaimsPermit, Row, RowShape, RowStates, Final, VenueStates, OnVenue, SweepPlaces, Working
<1> QED BY <1>1, <1>2, <1>3, <1>4 DEF ControlInv

LEMMA AcknowledgedKeeps == ASSUME ControlInv, NEW i \in Intents, NEW s \in {"LIVE", "MATCHED"}, Acknowledged(i, s) PROVE ControlInv'
<1>0. ControlShape /\ WrittenFits /\ InHand /\ CarriedFits BY DEF ControlInv
<1>1. ControlShape'
  BY <1>0 DEF ControlShape, Acknowledged, Row, RowShape, RowStates, Final, VenueStates, OnVenue, SweepPlaces, Working
<1>2. WrittenFits'
  BY <1>0 DEF ControlShape, WrittenFits, InHand, CarriedFits, Fits, Told, Acknowledged, Row, RowShape, RowStates, Final, VenueStates, OnVenue, SweepPlaces, Working
<1>3. InHand'
  BY <1>0 DEF ControlShape, InHand, Acknowledged, Row, RowShape, RowStates, Final, VenueStates, OnVenue, SweepPlaces, Working
<1>4. CarriedFits'
  BY <1>0 DEF ControlShape, WrittenFits, InHand, CarriedFits, Fits, Told, Acknowledged, Row, RowShape, RowStates, Final, VenueStates, OnVenue, SweepPlaces, Working
<1> QED BY <1>1, <1>2, <1>3, <1>4 DEF ControlInv

LEMMA AnswerLostKeeps == ASSUME ControlInv, NEW i \in Intents, NEW s \in {"none", "sent", "LIVE", "MATCHED"}, AnswerLost(i, s) PROVE ControlInv'
<1>0. ControlShape /\ WrittenFits /\ InHand /\ CarriedFits BY DEF ControlInv
<1>1. ControlShape'
  BY <1>0 DEF ControlShape, AnswerLost, Row, RowShape, RowStates, Final, VenueStates, OnVenue, SweepPlaces, Working
<1>2. WrittenFits'
  BY <1>0 DEF ControlShape, WrittenFits, InHand, CarriedFits, Fits, Told, AnswerLost, Row, RowShape, RowStates, Final, VenueStates, OnVenue, SweepPlaces, Working
<1>3. InHand'
  BY <1>0 DEF ControlShape, InHand, AnswerLost, Row, RowShape, RowStates, Final, VenueStates, OnVenue, SweepPlaces, Working
<1>4. CarriedFits'
  BY <1>0 DEF ControlShape, WrittenFits, InHand, CarriedFits, Fits, Told, AnswerLost, Row, RowShape, RowStates, Final, VenueStates, OnVenue, SweepPlaces, Working
<1> QED BY <1>1, <1>2, <1>3, <1>4 DEF ControlInv

LEMMA VenueChangesOrderKeeps == ASSUME ControlInv, NEW i \in Intents, NEW s \in {"none", "LIVE", "MATCHED", "CANCELED"}, VenueChangesOrder(i, s) PROVE ControlInv'
<1>0. ControlShape /\ WrittenFits /\ InHand /\ CarriedFits BY DEF ControlInv
<1>1. ControlShape'
  BY <1>0 DEF ControlShape, VenueChangesOrder, RowShape, RowStates, Final, VenueStates, OnVenue, SweepPlaces, Working
<1>2. WrittenFits'
  BY <1>0 DEF ControlShape, WrittenFits, InHand, CarriedFits, Fits, Told, VenueChangesOrder, RowShape, RowStates, Final, VenueStates, OnVenue, SweepPlaces, Working
<1>3. InHand'
  BY <1>0 DEF ControlShape, InHand, VenueChangesOrder, RowShape, RowStates, Final, VenueStates, OnVenue, SweepPlaces, Working
<1>4. CarriedFits'
  BY <1>0 DEF ControlShape, WrittenFits, InHand, CarriedFits, Fits, Told, VenueChangesOrder, RowShape, RowStates, Final, VenueStates, OnVenue, SweepPlaces, Working
<1> QED BY <1>1, <1>2, <1>3, <1>4 DEF ControlInv

LEMMA ReservationTimesOutKeeps == ASSUME ControlInv, NEW i \in Intents, ReservationTimesOut(i) PROVE ControlInv'
<1>0. ControlShape /\ WrittenFits /\ InHand /\ CarriedFits BY DEF ControlInv
<1>1. ControlShape'
  BY <1>0 DEF ControlShape, ReservationTimesOut, RowShape, RowStates, Final, VenueStates, OnVenue, SweepPlaces, Working
<1>2. WrittenFits'
  BY <1>0 DEF ControlShape, WrittenFits, InHand, CarriedFits, Fits, Told, ReservationTimesOut, RowShape, RowStates, Final, VenueStates, OnVenue, SweepPlaces, Working
<1>3. InHand'
  BY <1>0 DEF ControlShape, InHand, ReservationTimesOut, RowShape, RowStates, Final, VenueStates, OnVenue, SweepPlaces, Working
<1>4. CarriedFits'
  BY <1>0 DEF ControlShape, WrittenFits, InHand, CarriedFits, Fits, Told, ReservationTimesOut, RowShape, RowStates, Final, VenueStates, OnVenue, SweepPlaces, Working
<1> QED BY <1>1, <1>2, <1>3, <1>4 DEF ControlInv

LEMMA SweepAsksKeeps == ASSUME ControlInv, NEW i \in Intents, SweepAsks(i) PROVE ControlInv'
<1>0. ControlShape /\ WrittenFits /\ InHand /\ CarriedFits BY DEF ControlInv
<1>1. ControlShape'
  BY <1>0 DEF ControlShape, SweepAsks, Reported, RowShape, RowStates, Final, VenueStates, OnVenue, SweepPlaces, Working
<1>2. WrittenFits'
  BY <1>0 DEF ControlShape, WrittenFits, InHand, CarriedFits, Fits, Told, SweepAsks, Reported, RowShape, RowStates, Final, VenueStates, OnVenue, SweepPlaces, Working
<1>3. InHand'
  BY <1>0 DEF ControlShape, InHand, SweepAsks, Reported, RowShape, RowStates, Final, VenueStates, OnVenue, SweepPlaces, Working
<1>4. CarriedFits'
  BY <1>0 DEF ControlShape, WrittenFits, InHand, CarriedFits, Fits, Told, SweepAsks, Reported, RowShape, RowStates, Final, VenueStates, OnVenue, SweepPlaces, Working
<1> QED BY <1>1, <1>2, <1>3, <1>4 DEF ControlInv

LEMMA SweepSelectsKeeps == ASSUME ControlInv, SweepSelects PROVE ControlInv'
<1>0. ControlShape /\ WrittenFits /\ InHand /\ CarriedFits BY DEF ControlInv
<1>1. ControlShape'
  BY <1>0 DEF ControlShape, SweepSelects, Waiting, RowShape, RowStates, Final, VenueStates, OnVenue, SweepPlaces, Working
<1>2. WrittenFits'
  BY <1>0 DEF ControlShape, WrittenFits, InHand, CarriedFits, Fits, Told, SweepSelects, Waiting, RowShape, RowStates, Final, VenueStates, OnVenue, SweepPlaces, Working
<1>3. InHand'
  BY <1>0 DEF ControlShape, InHand, SweepSelects, Waiting, RowShape, RowStates, Final, VenueStates, OnVenue, SweepPlaces, Working
<1>4. CarriedFits'
  BY <1>0 DEF ControlShape, WrittenFits, InHand, CarriedFits, Fits, Told, SweepSelects, Waiting, RowShape, RowStates, Final, VenueStates, OnVenue, SweepPlaces, Working
<1> QED BY <1>1, <1>2, <1>3, <1>4 DEF ControlInv

LEMMA ExecutorResolvesKeeps == ASSUME ControlInv, ExecutorResolves PROVE ControlInv'
<1>0. ControlShape /\ WrittenFits /\ InHand /\ CarriedFits BY DEF ControlInv
<1>1. PICK i \in sweep.order :
        LET new == StateFor(i, sweep.answer)
        IN  /\ seen' = [seen EXCEPT ![i] = new]
            /\ recoveryRows' = IF sweep.answer \in {"MATCHED", "CANCELED"} THEN [recoveryRows EXCEPT ![i] = Row(new, TRUE)]
                       ELSE IF sweep.answer = "LIVE" THEN [recoveryRows EXCEPT ![i].state = new] ELSE recoveryRows
            /\ sweep' = [sweep EXCEPT !.pc = "update", !.answer = new]
  BY DEF ExecutorResolves
<1> DEFINE new == StateFor(i, sweep.answer)
<1>2. i \in Intents /\ recoveryRows[i] \in RowShape /\ seen[i] \in RowStates
  BY <1>0 DEF ControlShape
<1>3. new \in RowStates /\ (sweep.answer \in {"MATCHED", "CANCELED"} => new \in Final)
  BY <1>2 DEF StateFor, RowStates, Final
<1>4. Fits(clob[i], new)
  BY <1>0, <1>2 DEF ExecutorResolves, WrittenFits, CarriedFits, StateFor, Told, Fits, VenueStates
<1>5. seen' = [seen EXCEPT ![i] = new] /\ sweep' = [sweep EXCEPT !.pc = "update", !.answer = new]
  BY <1>1
<1>6. \/ new \in Final /\ recoveryRows' = [recoveryRows EXCEPT ![i] = Row(new, TRUE)]
      \/ recoveryRows' = [recoveryRows EXCEPT ![i] = [recoveryRows[i] EXCEPT !.state = new]]
      \/ recoveryRows' = recoveryRows
  BY <1>1, <1>3
<1>7. clob' = clob /\ stage' = stage /\ stage[i] = "ended"
  BY <1>0, <1>2 DEF ExecutorResolves, InHand
<1> HIDE DEF new
<1>8. new \in Final => Row(new, TRUE) \in RowShape
  BY <1>3 DEF Row, RowShape
<1>9. [recoveryRows[i] EXCEPT !.state = new] \in RowShape
  BY <1>2, <1>3 DEF RowShape
<1>10. ControlShape'
  <2>1. recoveryRows' \in [Intents -> RowShape]
    BY <1>0, <1>6, <1>8, <1>9 DEF ControlShape
  <2>2. sweep' \in [pc : SweepPlaces, todo : SUBSET Intents, order : SUBSET Intents,
                  answer : RowStates \cup VenueStates]
    BY <1>0, <1>3, <1>5 DEF ControlShape, SweepPlaces
  <2> QED BY <1>0, <1>3, <1>5, <1>7, <2>1, <2>2 DEF ControlShape
<1>11. ASSUME NEW j \in Intents
       PROVE  /\ Fits(clob'[j], recoveryRows'[j].state) /\ Fits(clob'[j], seen'[j])
              /\ recoveryRows'[j].resolved =>
                    recoveryRows'[j].verdict \in Final /\ Fits(clob'[j], recoveryRows'[j].verdict)
  <2>1. CASE j # i
    <3>1. recoveryRows'[j] = recoveryRows[j] /\ seen'[j] = seen[j] /\ clob'[j] = clob[j]
      BY <1>0, <1>5, <1>6, <1>7, <2>1 DEF ControlShape
    <3> QED BY <1>0, <3>1 DEF WrittenFits
  <2>2. CASE j = i
    <3>1. \/ new \in Final /\ recoveryRows'[i] = Row(new, TRUE)
          \/ recoveryRows'[i] = [recoveryRows[i] EXCEPT !.state = new]
          \/ recoveryRows'[i] = recoveryRows[i]
      BY <1>0, <1>2, <1>6 DEF ControlShape
    <3>2. seen'[i] = new /\ clob'[i] = clob[i]
      BY <1>0, <1>2, <1>5, <1>7 DEF ControlShape
    <3>3. /\ Fits(clob[i], recoveryRows[i].state)
          /\ recoveryRows[i].resolved => recoveryRows[i].verdict \in Final /\ Fits(clob[i], recoveryRows[i].verdict)
      BY <1>0, <1>2 DEF WrittenFits
    <3>4. CASE new \in Final /\ recoveryRows'[i] = Row(new, TRUE)
      BY <1>4, <2>2, <3>2, <3>4 DEF Row
    <3>5. CASE recoveryRows'[i] = [recoveryRows[i] EXCEPT !.state = new]
      BY <1>2, <1>4, <2>2, <3>2, <3>3, <3>5 DEF RowShape
    <3>6. CASE recoveryRows'[i] = recoveryRows[i]
      BY <1>4, <2>2, <3>2, <3>3, <3>6
    <3> QED BY <3>1, <3>4, <3>5, <3>6
  <2> QED BY <2>1, <2>2
<1>12. InHand'
  BY <1>0, <1>2, <1>5, <1>6, <1>7 DEF ControlShape, InHand
<1>13. CarriedFits'
  <2>1. sweep' = [pc |-> "update", todo |-> sweep.todo, order |-> sweep.order, answer |-> new]
    BY <1>0, <1>5 DEF ControlShape
  <2>2. sweep.order = {i}
    BY <1>0 DEF CarriedFits
  <2> QED BY <1>3, <1>4, <1>7, <2>1, <2>2 DEF CarriedFits
<1>14. WrittenFits'
  BY <1>11 DEF WrittenFits
<1> QED BY <1>10, <1>12, <1>13, <1>14 DEF ControlInv

LEMMA SweepUpdatesKeeps == ASSUME ControlInv, SweepUpdates PROVE ControlInv'
<1>0. ControlShape /\ WrittenFits /\ InHand /\ CarriedFits BY DEF ControlInv
<1>1. ControlShape'
  <2>1. PICK i \in sweep.order :
          /\ recoveryRows' = [recoveryRows EXCEPT ![i].state = sweep.answer]
          /\ \/ sweep' = [sweep EXCEPT !.pc = "close"]
             \/ sweep' = [Waiting EXCEPT !.pc = "loop", !.todo = sweep.todo \ {i}]
    BY DEF SweepUpdates
  <2>2. i \in Intents /\ sweep.answer \in RowStates /\ recoveryRows[i] \in RowShape
    BY <1>0 DEF ControlShape, CarriedFits, SweepUpdates
  <2>3. [recoveryRows[i] EXCEPT !.state = sweep.answer] \in RowShape
    BY <2>2 DEF RowShape
  <2>4. recoveryRows' = [recoveryRows EXCEPT ![i] = [recoveryRows[i] EXCEPT !.state = sweep.answer]]
    BY <2>1
  <2>5. recoveryRows' \in [Intents -> RowShape]
    BY <1>0, <2>3, <2>4 DEF ControlShape
  <2>6. CASE sweep' = [sweep EXCEPT !.pc = "close"]
    BY <1>0, <2>5, <2>6 DEF ControlShape, SweepUpdates, SweepPlaces
  <2>7. CASE sweep' = [Waiting EXCEPT !.pc = "loop", !.todo = sweep.todo \ {i}]
    <3>1. sweep' = [pc |-> "loop", todo |-> sweep.todo \ {i}, order |-> {}, answer |-> "none"]
      BY <2>7 DEF Waiting
    <3>2. "loop" \in SweepPlaces /\ sweep.todo \ {i} \in SUBSET Intents /\ "none" \in VenueStates
      BY <1>0 DEF ControlShape, SweepPlaces, VenueStates
    <3> QED BY <1>0, <2>5, <3>1, <3>2 DEF ControlShape, SweepUpdates
  <2> QED BY <2>1, <2>6, <2>7
<1>2. WrittenFits'
  BY <1>0 DEF ControlShape, WrittenFits, InHand, CarriedFits, Fits, Told, SweepUpdates, Waiting, RowShape, RowStates, Final, VenueStates, OnVenue, SweepPlaces, Working
<1>3. InHand'
  BY <1>0 DEF ControlShape, InHand, SweepUpdates, Waiting, RowShape, RowStates, Final, VenueStates, OnVenue, SweepPlaces, Working
<1>4. CarriedFits'
  BY <1>0 DEF ControlShape, WrittenFits, InHand, CarriedFits, Fits, Told, SweepUpdates, Waiting, RowShape, RowStates, Final, VenueStates, OnVenue, SweepPlaces, Working
<1> QED BY <1>1, <1>2, <1>3, <1>4 DEF ControlInv

LEMMA SweepClosesKeeps == ASSUME ControlInv, SweepCloses PROVE ControlInv'
<1>0. ControlShape /\ WrittenFits /\ InHand /\ CarriedFits BY DEF ControlInv
<1>1. ControlShape'
  <2>1. PICK i \in sweep.order : recoveryRows' = [recoveryRows EXCEPT ![i].resolved = TRUE, ![i].verdict = sweep.answer]
    BY DEF SweepCloses
  <2>2. i \in Intents /\ sweep.answer \in Final /\ recoveryRows[i] \in RowShape
    BY <1>0 DEF ControlShape, CarriedFits, SweepCloses
  <2>3. [recoveryRows[i] EXCEPT !.resolved = TRUE, !.verdict = sweep.answer] \in RowShape
    BY <2>2 DEF RowShape
  <2>4. recoveryRows' = [recoveryRows EXCEPT ![i] = [recoveryRows[i] EXCEPT !.resolved = TRUE, !.verdict = sweep.answer]]
    BY <2>1
  <2>5. recoveryRows' \in [Intents -> RowShape]
    BY <1>0, <2>3, <2>4 DEF ControlShape
  <2>6. sweep' \in [pc : SweepPlaces, todo : SUBSET Intents, order : SUBSET Intents,
                  answer : RowStates \cup VenueStates]
    <3>1. PICK j \in sweep.order : sweep' = [Waiting EXCEPT !.pc = "loop", !.todo = sweep.todo \ {j}]
      BY DEF SweepCloses
    <3>2. sweep' = [pc |-> "loop", todo |-> sweep.todo \ {j}, order |-> {}, answer |-> "none"]
      BY <3>1 DEF Waiting
    <3>3. sweep.todo \ {j} \subseteq Intents
      BY <1>0 DEF ControlShape
    <3> QED BY <3>2, <3>3 DEF SweepPlaces, VenueStates
  <2> QED BY <1>0, <2>5, <2>6 DEF ControlShape, SweepCloses
<1>2. WrittenFits'
  BY <1>0 DEF ControlShape, WrittenFits, InHand, CarriedFits, Fits, Told, SweepCloses, Waiting, RowShape, RowStates, Final, VenueStates, OnVenue, SweepPlaces, Working
<1>3. InHand'
  BY <1>0 DEF ControlShape, InHand, SweepCloses, Waiting, RowShape, RowStates, Final, VenueStates, OnVenue, SweepPlaces, Working
<1>4. CarriedFits'
  BY <1>0 DEF ControlShape, WrittenFits, InHand, CarriedFits, Fits, Told, SweepCloses, Waiting, RowShape, RowStates, Final, VenueStates, OnVenue, SweepPlaces, Working
<1> QED BY <1>1, <1>2, <1>3, <1>4 DEF ControlInv

LEMMA SweepEndsKeeps == ASSUME ControlInv, SweepEnds PROVE ControlInv'
<1>0. ControlShape /\ WrittenFits /\ InHand /\ CarriedFits BY DEF ControlInv
<1>1. ControlShape'
  BY <1>0 DEF ControlShape, SweepEnds, Waiting, RowShape, RowStates, Final, VenueStates, OnVenue, SweepPlaces, Working
<1>2. WrittenFits'
  BY <1>0 DEF ControlShape, WrittenFits, InHand, CarriedFits, Fits, Told, SweepEnds, Waiting, RowShape, RowStates, Final, VenueStates, OnVenue, SweepPlaces, Working
<1>3. InHand'
  BY <1>0 DEF ControlShape, InHand, SweepEnds, Waiting, RowShape, RowStates, Final, VenueStates, OnVenue, SweepPlaces, Working
<1>4. CarriedFits'
  BY <1>0 DEF ControlShape, WrittenFits, InHand, CarriedFits, Fits, Told, SweepEnds, Waiting, RowShape, RowStates, Final, VenueStates, OnVenue, SweepPlaces, Working
<1> QED BY <1>1, <1>2, <1>3, <1>4 DEF ControlInv

LEMMA SweepThrowsKeeps == ASSUME ControlInv, SweepThrows PROVE ControlInv'
<1>0. ControlShape /\ WrittenFits /\ InHand /\ CarriedFits BY DEF ControlInv
<1>1. ControlShape'
  BY <1>0 DEF ControlShape, SweepThrows, Waiting, RowShape, RowStates, Final, VenueStates, OnVenue, SweepPlaces, Working
<1>2. WrittenFits'
  BY <1>0 DEF ControlShape, WrittenFits, InHand, CarriedFits, Fits, Told, SweepThrows, Waiting, RowShape, RowStates, Final, VenueStates, OnVenue, SweepPlaces, Working
<1>3. InHand'
  BY <1>0 DEF ControlShape, InHand, SweepThrows, Waiting, RowShape, RowStates, Final, VenueStates, OnVenue, SweepPlaces, Working
<1>4. CarriedFits'
  BY <1>0 DEF ControlShape, WrittenFits, InHand, CarriedFits, Fits, Told, SweepThrows, Waiting, RowShape, RowStates, Final, VenueStates, OnVenue, SweepPlaces, Working
<1> QED BY <1>1, <1>2, <1>3, <1>4 DEF ControlInv

LEMMA RestartsKeeps == ASSUME ControlInv, Restarts PROVE ControlInv'
<1>0. ControlShape /\ WrittenFits /\ InHand /\ CarriedFits BY DEF ControlInv
<1>1. ControlShape'
  BY <1>0 DEF ControlShape, Restarts, Waiting, RowShape, RowStates, Final, VenueStates, OnVenue, SweepPlaces, Working
<1>2. WrittenFits'
  BY <1>0 DEF ControlShape, WrittenFits, InHand, CarriedFits, Fits, Told, Restarts, Waiting, RowShape, RowStates, Final, VenueStates, OnVenue, SweepPlaces, Working
<1>3. InHand'
  BY <1>0 DEF ControlShape, InHand, Restarts, Waiting, RowShape, RowStates, Final, VenueStates, OnVenue, SweepPlaces, Working
<1>4. CarriedFits'
  BY <1>0 DEF ControlShape, WrittenFits, InHand, CarriedFits, Fits, Told, Restarts, Waiting, RowShape, RowStates, Final, VenueStates, OnVenue, SweepPlaces, Working
<1> QED BY <1>1, <1>2, <1>3, <1>4 DEF ControlInv

LEMMA ControlInvStep == ASSUME ControlInv, [ControlNext]_controlVars PROVE ControlInv'
<1>1. CASE UNCHANGED controlVars
  BY <1>1 DEF controlVars, ControlInv, ControlShape, WrittenFits, InHand, CarriedFits
<1>2. CASE ControlNext
  <2>1. ASSUME NEW i \in Intents,
               \/ \E e \in Edges, w \in Wanted, ok \in BOOLEAN : Decides(i, e, w, ok)
               \/ \E ok \in BOOLEAN : Builds(i, ok) \/ ClaimsPermit(i, ok)
               \/ \E s \in {"LIVE", "MATCHED"} : Acknowledged(i, s)
               \/ \E s \in {"none", "sent", "LIVE", "MATCHED"} : AnswerLost(i, s)
               \/ \E s \in {"none", "LIVE", "MATCHED", "CANCELED"} : VenueChangesOrder(i, s)
               \/ ReservationTimesOut(i) \/ SweepAsks(i)
        PROVE  ControlInv'
    BY <2>1, DecidesKeeps, BuildsKeeps, ClaimsPermitKeeps, AcknowledgedKeeps, AnswerLostKeeps,
       VenueChangesOrderKeeps, ReservationTimesOutKeeps, SweepAsksKeeps
  <2>2. CASE SweepSelects \/ ExecutorResolves \/ SweepUpdates \/ SweepCloses \/ SweepEnds \/ SweepThrows \/ Restarts
    BY <2>2, SweepSelectsKeeps, ExecutorResolvesKeeps, SweepUpdatesKeeps, SweepClosesKeeps, SweepEndsKeeps,
       SweepThrowsKeeps, RestartsKeeps
  <2> QED BY <1>2, <2>1, <2>2 DEF ControlNext
<1> QED BY <1>1, <1>2

LEMMA DoubleSteps == ASSUME [PlaneNext]_planeVars PROVE [DoubleNext]_doubleVars
BY DEF PlaneNext, planeVars, Group1, Group2, Group3, Group4, Group5

RowWords == {"NOT_SEEN", "NONE", "SUBMITTING", "SUBMISSION_UNKNOWN", "CANCEL_CERTAIN", "CANCEL_UNKNOWN",
             "ACKNOWLEDGED", "DEFINITIVE_REJECT"}
DoubleRow == [exists : BOOLEAN, state : RowWords, resolved : BOOLEAN, verdict : RowWords, counted : Nat]

\* The two rows begin together, end together and count alike.
DoubleInv ==
    /\ mem \in DoubleRow /\ pg \in DoubleRow
    /\ mem.exists = pg.exists
    /\ ~mem.exists => mem = Pg!NoRow /\ pg = Pg!NoRow
    /\ disorder = {} => mem = pg
    /\ "again" \notin disorder => mem.resolved = pg.resolved /\ mem.counted = pg.counted

\* Words of the rows, one by one.
LEMMA WordsAreWords ==
  /\ "SUBMITTING" \in RowWords /\ "NONE" \in RowWords /\ "CANCEL_UNKNOWN" \in RowWords /\ "ACKNOWLEDGED" \in RowWords
BY DEF RowWords

LEMMA NoRowIsRow == Pg!NoRow \in DoubleRow /\ Pg!NoRow.exists = FALSE /\ Pg!NoRow.resolved = FALSE /\ Pg!NoRow.counted = 0 /\ Pg!NoRow.verdict = "NONE"
BY DEF Pg!NoRow, DoubleRow, RowWords

\* A call that gives both rows the same state, verdict and mark, or leaves both.
LEMMA BothInState ==
  ASSUME DoubleInv, NEW state \in RowWords, mem.exists,
         mem' = Pg!InState(mem, state), pg' = Pg!InState(pg, state), disorder' = disorder
  PROVE  DoubleInv'
<1>1. mem' = Pg!Entry(state, mem.resolved, mem.verdict, mem.counted) /\ pg' = Pg!Entry(state, pg.resolved, pg.verdict, pg.counted)
  BY DEF Pg!InState
<1>2. /\ mem.resolved \in BOOLEAN /\ mem.verdict \in RowWords /\ mem.counted \in Nat
      /\ pg.resolved \in BOOLEAN /\ pg.verdict \in RowWords /\ pg.counted \in Nat
  BY DEF DoubleInv, DoubleRow
<1>3. /\ mem' \in DoubleRow /\ mem'.exists /\ mem'.resolved = mem.resolved /\ mem'.counted = mem.counted
      /\ pg' \in DoubleRow /\ pg'.exists /\ pg'.resolved = pg.resolved /\ pg'.counted = pg.counted
  BY <1>1, <1>2, WordsAreWords DEF Pg!Entry, DoubleRow
<1>4. disorder = {} => mem' = pg'
  BY DEF DoubleInv
<1> QED BY <1>3, <1>4 DEF DoubleInv

LEMMA SubmittedKeeps == ASSUME DoubleInv, Submitted PROVE DoubleInv'
<1>1. mem' = Pg!Entry("SUBMITTING", FALSE, "NONE", 0) /\ pg' = Pg!Entry("SUBMITTING", pg.resolved, pg.verdict, pg.counted)
  BY DEF Submitted, MemSubmitted, Pg!Upserted, Pg!InState
<1>2. pg.resolved \in BOOLEAN /\ pg.verdict \in RowWords /\ pg.counted \in Nat
  BY DEF DoubleInv, DoubleRow
<1>3. /\ mem' \in DoubleRow /\ mem'.exists /\ mem'.resolved = FALSE /\ mem'.counted = 0
      /\ pg' \in DoubleRow /\ pg'.exists /\ pg'.resolved = pg.resolved /\ pg'.counted = pg.counted
  BY <1>1, <1>2, WordsAreWords DEF Pg!Entry, DoubleRow
<1>4. CASE pg.exists
  <2>1. "again" \in disorder'
    BY <1>4 DEF Submitted
  <2> QED BY <1>3, <2>1 DEF DoubleInv
<1>5. CASE ~pg.exists
  <2>1. pg = Pg!NoRow
    BY <1>5 DEF DoubleInv
  <2>2. pg.resolved = FALSE /\ pg.counted = 0 /\ pg.verdict = "NONE"
    BY <2>1, NoRowIsRow
  <2> QED BY <1>1, <1>3, <2>2 DEF DoubleInv
<1>6. pg.exists \in BOOLEAN
  BY DEF DoubleInv, DoubleRow
<1> QED BY <1>4, <1>5, <1>6

LEMMA UpdatedKeeps == ASSUME DoubleInv, NEW state \in States, Updated(state) PROVE DoubleInv'
<1>1. state \in RowWords
  BY DEF States, RowWords
<1>2. CASE mem.exists
  <2>1. mem' = Pg!InState(mem, state) /\ pg' = Pg!InState(pg, state) /\ disorder' = disorder
    BY <1>2 DEF Updated, MemStateUpdated, Pg!StateUpdated, DoubleInv
  <2> QED BY <1>1, <1>2, <2>1, BothInState
<1>3. CASE ~mem.exists
  BY <1>3 DEF Updated, MemStateUpdated, Pg!StateUpdated, DoubleInv
<1> QED BY <1>2, <1>3

LEMMA CancelAskedKeeps == ASSUME DoubleInv, CancelAsked PROVE DoubleInv'
<1>0. /\ mem.exists \in BOOLEAN /\ mem.resolved \in BOOLEAN /\ pg.exists \in BOOLEAN /\ pg.resolved \in BOOLEAN
      /\ mem.verdict \in RowWords /\ mem.counted \in Nat /\ pg.verdict \in RowWords /\ pg.counted \in Nat
  BY DEF DoubleInv, DoubleRow
<1>1. /\ mem' \in DoubleRow /\ mem'.exists = mem.exists /\ mem'.resolved = mem.resolved /\ mem'.counted = mem.counted
      /\ ~mem.exists => mem' = mem
  <2>1. CASE MemNeedsReconcile(mem)
    <3>1. mem' = Pg!Entry("CANCEL_UNKNOWN", mem.resolved, mem.verdict, mem.counted) /\ mem.exists = TRUE
      BY <1>0, <2>1 DEF CancelAsked, MemCancelRequested, MemNeedsReconcile, Pg!InState
    <3> QED BY <1>0, <3>1, WordsAreWords DEF Pg!Entry, DoubleRow
  <2>2. CASE ~MemNeedsReconcile(mem)
    BY <2>2 DEF CancelAsked, MemCancelRequested, DoubleInv
  <2> QED BY <2>1, <2>2
<1>2. /\ pg' \in DoubleRow /\ pg'.exists = pg.exists /\ pg'.resolved = pg.resolved /\ pg'.counted = pg.counted
      /\ ~pg.exists => pg' = pg
  <2>1. CASE Pg!NeedsReconcile(pg)
    <3>1. pg' = Pg!Entry("CANCEL_UNKNOWN", pg.resolved, pg.verdict, pg.counted) /\ pg.exists = TRUE
      BY <1>0, <2>1 DEF CancelAsked, Pg!CancelRequested, Pg!NeedsReconcile, Pg!InState
    <3> QED BY <1>0, <3>1, WordsAreWords DEF Pg!Entry, DoubleRow
  <2>2. CASE ~Pg!NeedsReconcile(pg)
    BY <2>2 DEF CancelAsked, Pg!CancelRequested, DoubleInv
  <2> QED BY <2>1, <2>2
<1>3. mem = pg => mem' = pg'
  BY DEF CancelAsked, MemCancelRequested, MemNeedsReconcile, Pg!CancelRequested, Pg!NeedsReconcile
<1>4. disorder' = disorder
  BY DEF CancelAsked
<1> QED BY <1>1, <1>2, <1>3, <1>4 DEF DoubleInv

\* Both read the same verdict from a report.
LEMMA SameVerdict ==
  ASSUME NEW reply \in [ack : BOOLEAN, status : Statuses, filled : {0}], reply.status \notin Pg!Resting
  PROVE  /\ MemVerdict(reply) = Pg!Verdict(reply)
         /\ MemVerdict(reply) \in RowWords
BY DEF Statuses, MemVerdict, Pg!Verdict, Pg!Dead, Pg!Resting, RowWords

LEMMA MemVerdictIsString ==
  ASSUME NEW reply \in [ack : BOOLEAN, status : Statuses, filled : {0}]
  PROVE  MemVerdict(reply) \in RowWords
BY DEF Statuses, MemVerdict, RowWords

LEMMA ReportArrivesKeeps ==
  ASSUME DoubleInv, NEW reply \in [ack : BOOLEAN, status : Statuses, filled : {0}], ReportArrives(reply)
  PROVE  DoubleInv'
<1>0. /\ mem.exists \in BOOLEAN /\ mem.resolved \in BOOLEAN /\ pg.exists \in BOOLEAN /\ pg.resolved \in BOOLEAN
      /\ mem.verdict \in RowWords /\ mem.counted \in Nat /\ pg.verdict \in RowWords /\ pg.counted \in Nat
  BY DEF DoubleInv, DoubleRow
<1> DEFINE v == MemVerdict(reply)
<1>1. v \in RowWords
  BY MemVerdictIsString
<1>2. CASE ~mem.exists
  <2>1. ~pg.exists
    BY <1>2 DEF DoubleInv
  <2>2. mem' = mem
    BY <1>2 DEF ReportArrives, MemResolved, MemNeedsReconcile
  <2>3. pg' = pg
    BY <2>1 DEF ReportArrives, Pg!Resolved
  <2>4. pg.resolved = FALSE
    BY <1>2, NoRowIsRow DEF DoubleInv
  <2> QED BY <2>2, <2>3, <2>4 DEF DoubleInv, ReportArrives
<1>3. CASE mem.exists /\ reply.status \notin Pg!Resting
  <2>0. pg.exists
    BY <1>3 DEF DoubleInv
  <2>1. mem' = Pg!Entry(v, TRUE, v, mem.counted)
    BY <1>3 DEF ReportArrives, MemResolved, Pg!Resting
  <2>2. pg' = Pg!Entry(v, TRUE, v, pg.counted)
    BY <1>3, <2>0, SameVerdict DEF ReportArrives, Pg!Resolved
  <2>3. disorder' = disorder
    BY <1>3 DEF ReportArrives
  <2> HIDE DEF v
  <2>4. /\ mem' \in DoubleRow /\ mem'.exists /\ mem'.resolved = TRUE /\ mem'.counted = mem.counted
        /\ pg' \in DoubleRow /\ pg'.exists /\ pg'.resolved = TRUE /\ pg'.counted = pg.counted
    BY <1>0, <1>1, <2>1, <2>2, WordsAreWords DEF Pg!Entry, DoubleRow
  <2> QED BY <2>1, <2>2, <2>3, <2>4 DEF DoubleInv
<1>4. CASE mem.exists /\ reply.status \in Pg!Resting
  <2>0. pg.exists
    BY <1>4 DEF DoubleInv
  <2>1. mem' = IF ~mem.resolved THEN Pg!InState(mem, "ACKNOWLEDGED") ELSE Pg!Entry(v, TRUE, v, mem.counted)
    BY <1>4 DEF ReportArrives, MemResolved, MemNeedsReconcile, Pg!Resting
  <2>2. pg' = IF pg.resolved THEN pg ELSE Pg!InState(pg, "ACKNOWLEDGED")
    BY <1>4, <2>0 DEF ReportArrives, Pg!Resolved
  <2>3. disorder' = IF pg.resolved THEN disorder \cup {"stale"} ELSE disorder
    BY <1>4 DEF ReportArrives
  <2> HIDE DEF v
  <2>4. /\ mem' \in DoubleRow /\ mem'.exists /\ mem'.resolved = mem.resolved /\ mem'.counted = mem.counted
        /\ pg' \in DoubleRow /\ pg'.exists /\ pg'.resolved = pg.resolved /\ pg'.counted = pg.counted
    BY <1>0, <1>1, <1>4, <2>0, <2>1, <2>2, WordsAreWords DEF Pg!Entry, DoubleRow, Pg!InState, DoubleInv
  <2>5. disorder' = {} => mem' = pg'
    BY <2>1, <2>2, <2>3 DEF DoubleInv
  <2>6. "again" \notin disorder' => "again" \notin disorder
    BY <2>3
  <2> QED BY <1>4, <2>0, <2>4, <2>5, <2>6 DEF DoubleInv
<1> QED BY <1>0, <1>2, <1>3, <1>4

LEMMA FillReportedKeeps == ASSUME DoubleInv, NEW filled \in Fills, FillReported(filled) PROVE DoubleInv'
<1>0. /\ mem.exists \in BOOLEAN /\ mem.counted \in Nat /\ pg.exists \in BOOLEAN /\ pg.counted \in Nat /\ filled \in Nat
      /\ pg \in DoubleRow /\ mem \in DoubleRow
  BY DoubleAssumption DEF DoubleInv, DoubleRow
<1>1. PICK m \in Nat : /\ mem' = [mem EXCEPT !.counted = m]
                       /\ m = IF mem.exists /\ filled > mem.counted THEN filled ELSE mem.counted
  BY <1>0 DEF FillReported, MemFillCounted, DoubleRow
<1>2. PICK p \in Nat : /\ pg' = [pg EXCEPT !.counted = p]
                       /\ p = IF pg.exists /\ filled > pg.counted THEN filled ELSE pg.counted
  BY <1>0 DEF FillReported, Pg!FillCounted, Pg!FillDelta
<1>3. /\ mem' \in DoubleRow /\ mem'.exists = mem.exists /\ mem'.resolved = mem.resolved /\ mem'.counted = m
      /\ pg' \in DoubleRow /\ pg'.exists = pg.exists /\ pg'.resolved = pg.resolved /\ pg'.counted = p
  BY <1>0, <1>1, <1>2 DEF DoubleRow
<1>4. ~mem.exists => mem' = mem /\ pg' = pg
  BY <1>0, <1>1, <1>2 DEF DoubleInv, DoubleRow
<1>5. disorder' = disorder
  BY DEF FillReported
<1> QED BY <1>1, <1>2, <1>3, <1>4, <1>5 DEF DoubleInv

LEMMA DoubleInvStep == ASSUME DoubleInv, [DoubleNext]_doubleVars PROVE DoubleInv'
<1>1. ASSUME NEW ack \in BOOLEAN, NEW status \in Statuses
      PROVE  Pg!Reply(ack, status, 0) \in [ack : BOOLEAN, status : Statuses, filled : {0}]
  BY DEF Pg!Reply
<1>2. CASE UNCHANGED doubleVars
  BY <1>2 DEF doubleVars, DoubleInv
<1>3. CASE DoubleNext
  BY <1>1, <1>3, SubmittedKeeps, UpdatedKeeps, CancelAskedKeeps, ReportArrivesKeeps, FillReportedKeeps DEF DoubleNext
<1> QED BY <1>2, <1>3

\* No row is closed against the venue, however answers, restarts and late requests
\* interleave; and the ledger of the tests reads as the one of production does.
THEOREM VerdictsAreTrue == PlaneSpec => []VerdictsHold
<1>1. PlaneInit => ControlInv
  BY DEF PlaneInit, ControlInit, ControlInv, ControlShape, RowShape, WrittenFits, InHand, CarriedFits, Fits, Told, Unwritten,
         Waiting, Working, RowStates, Final, VenueStates, OnVenue, SweepPlaces
<1>2. PlaneInit => DoubleInv
  BY NoRowIsRow DEF PlaneInit, DoubleInit, DoubleInv
<1>3. ControlInv /\ [PlaneNext]_planeVars => ControlInv'
  BY ControlSteps, ControlInvStep
<1>4. DoubleInv /\ [PlaneNext]_planeVars => DoubleInv'
  BY DoubleSteps, DoubleInvStep
<1>5. ControlInv => NoVerdictAgainstVenue
  BY DEF ControlInv, ControlShape, WrittenFits, NoVerdictAgainstVenue, Fits, Final, OnVenue
<1>6. DoubleInv => DoublesAgree
  BY DEF DoubleInv, DoubleRow, DoublesAgree, MemNeedsReconcile, Pg!NeedsReconcile
<1>7. ControlInv /\ DoubleInv => VerdictsHold
  BY <1>5, <1>6 DEF VerdictsHold
<1> QED BY <1>1, <1>2, <1>3, <1>4, <1>7, PTL DEF PlaneSpec


-----------------------------------------------------------------------------
(***************************************************************************)
(* ForecastDesk: the login that several processes refresh.                 *)
(***************************************************************************)

DeskPlaces == {"rest", "reading", "refreshing", "calling", "writing", "failed", "p", "null"}
AskerShape == [pc : DeskPlaces, topic : SUBSET DeskMarkets, access : Nat, refresh : Nat]

DeskShape ==
    /\ file \in [refresh : Nat, access : Nat, nested : BOOLEAN, account : BOOLEAN]
    /\ server \in [refresh : Nat, access : Nat]
    /\ asker \in [Askers -> AskerShape]
    /\ deskFaults \in [count : Nat, lost : BOOLEAN]

\* No token is from the future.
TokensAreOld ==
    /\ file.refresh <= server.refresh
    /\ \A a \in Askers : asker[a].pc \in {"refreshing", "writing"} => asker[a].refresh <= server.refresh

\* Unless one was lost, either the file has the server's token, or one process has it
\* and is about to write it; meanwhile nobody else can get the next one.
OneHasToken ==
    ~deskFaults.lost =>
        /\ (\A a \in Askers : asker[a].pc # "writing") => file.refresh = server.refresh
        /\ \A a \in Askers : asker[a].pc = "writing" =>
              /\ asker[a].refresh = server.refresh /\ file.refresh # server.refresh
              /\ \A b \in Askers : /\ asker[b].pc = "writing" => b = a
                                   /\ asker[b].pc = "refreshing" => asker[b].refresh # server.refresh

DeskInv == DeskShape /\ TokensAreOld /\ OneHasToken

\* A step of one process to a place where it does not hold a fresh token, which lets
\* file and server be; if it held one before, that is remembered.
LEMMA AskerGoes ==
  ASSUME DeskInv, NEW a \in Askers, NEW to \in AskerShape, asker' = [asker EXCEPT ![a] = to],
         file' = file, server' = server, deskFaults' \in [count : Nat, lost : BOOLEAN],
         to.pc # "writing", to.pc = "refreshing" => to.refresh = file.refresh,
         ~deskFaults'.lost => ~deskFaults.lost /\ asker[a].pc # "writing"
  PROVE  DeskInv'
<1>1. \A b \in Askers : asker'[b] = IF b = a THEN to ELSE asker[b]
  BY DEF DeskInv, DeskShape
<1>2. DeskShape'
  BY DEF DeskInv, DeskShape
<1>3. file.refresh \in Nat /\ server.refresh \in Nat
  BY DEF DeskInv, DeskShape
<1>4. TokensAreOld'
  BY <1>1, <1>3 DEF DeskInv, TokensAreOld
<1>5. ASSUME ~deskFaults'.lost PROVE OneHasToken'
  BY <1>1, <1>5 DEF DeskInv, OneHasToken
<1>6. OneHasToken'
  BY <1>5 DEF OneHasToken
<1> QED BY <1>2, <1>4, <1>6 DEF DeskInv

LEMMA AsksKeeps == ASSUME DeskInv, NEW a \in Askers, NEW m \in DeskMarkets, Asks(a, m) PROVE DeskInv'
<1> DEFINE to == [Resting EXCEPT !.pc = "reading", !.topic = {m}]
<1>1. to \in AskerShape /\ to.pc = "reading"
  BY DEF Resting, AskerShape, DeskPlaces
<1>2. asker' = [asker EXCEPT ![a] = to]
  BY DEF Asks
<1>3. /\ file' = file /\ server' = server /\ deskFaults' = deskFaults /\ asker[a].pc # "writing"
      /\ deskFaults \in [count : Nat, lost : BOOLEAN]
  BY DEF Asks, DeskInv, DeskShape
<1> HIDE DEF to
<1> QED BY <1>1, <1>2, <1>3, AskerGoes

LEMMA ReadsLoginKeeps == ASSUME DeskInv, NEW a \in Askers, ReadsLogin(a) PROVE DeskInv'
<1> DEFINE there == IF file.access = server.access THEN "calling" ELSE "refreshing"
           to == [asker[a] EXCEPT !.access = file.access, !.refresh = file.refresh, !.pc = there]
<1>0. asker[a] \in AskerShape /\ file.access \in Nat /\ file.refresh \in Nat /\ asker \in [Askers -> AskerShape]
  BY DEF DeskInv, DeskShape
<1>1. to \in AskerShape /\ to.pc \in {"calling", "refreshing"} /\ to.refresh = file.refresh
  BY <1>0 DEF AskerShape, DeskPlaces
<1>2. asker' = [asker EXCEPT ![a] = to]
  BY <1>0 DEF ReadsLogin
<1>3. /\ file' = file /\ server' = server /\ deskFaults' = deskFaults /\ asker[a].pc # "writing"
      /\ deskFaults \in [count : Nat, lost : BOOLEAN]
  BY DEF ReadsLogin, DeskInv, DeskShape
<1> HIDE DEF to
<1> QED BY <1>1, <1>2, <1>3, AskerGoes

\* A process changes its place alone.
LEMMA PlaceKeeps ==
  ASSUME DeskInv, NEW a \in Askers, NEW there \in DeskPlaces \ {"writing", "refreshing"},
         asker' = [asker EXCEPT ![a].pc = there], file' = file, server' = server,
         deskFaults' \in [count : Nat, lost : BOOLEAN],
         ~deskFaults'.lost => ~deskFaults.lost /\ asker[a].pc # "writing"
  PROVE  DeskInv'
<1> DEFINE to == [asker[a] EXCEPT !.pc = there]
<1>0. asker[a] \in AskerShape
  BY DEF DeskInv, DeskShape
<1>1. to \in AskerShape /\ to.pc = there
  BY <1>0 DEF AskerShape
<1>2. asker' = [asker EXCEPT ![a] = to]
  OBVIOUS
<1> HIDE DEF to
<1> QED BY <1>1, <1>2, AskerGoes

\* The server gives the next token to a process that held the last one.
LEMMA TokenGiven ==
  ASSUME DeskInv, NEW a \in Askers, asker[a].pc = "refreshing", asker[a].refresh = server.refresh,
         NEW to \in AskerShape, asker' = [asker EXCEPT ![a] = to],
         server' = [refresh |-> server.refresh + 1, access |-> server.refresh + 1], file' = file,
         deskFaults' \in [count : Nat, lost : BOOLEAN],
         to.pc # "refreshing", to.pc = "writing" => to.refresh = server.refresh + 1, ~deskFaults'.lost => ~deskFaults.lost,
         deskFaults'.lost \/ to.pc = "writing"
  PROVE  DeskInv'
<1>1. \A b \in Askers : asker'[b] = IF b = a THEN to ELSE asker[b]
  BY DEF DeskInv, DeskShape
<1>2. /\ server.refresh \in Nat /\ file.refresh \in Nat /\ server'.refresh = server.refresh + 1
      /\ \A b \in Askers : asker[b].refresh \in Nat
  BY DEF DeskInv, DeskShape, AskerShape
<1>3. server' \in [refresh : Nat, access : Nat]
  BY <1>2
<1>4. DeskShape'
  BY <1>3 DEF DeskInv, DeskShape
<1>5. TokensAreOld'
  BY <1>1, <1>2 DEF DeskInv, TokensAreOld
<1>6. ASSUME ~deskFaults'.lost PROVE OneHasToken'
  <2>1. \A b \in Askers : asker[b].pc # "writing"
    BY <1>6 DEF DeskInv, OneHasToken
  <2>2. \A b \in Askers : asker[b].pc = "refreshing" => asker[b].refresh # server.refresh + 1
    BY <1>2 DEF DeskInv, TokensAreOld
  <2>3. file.refresh # server.refresh + 1
    BY <1>2 DEF DeskInv, TokensAreOld
  <2> QED BY <1>1, <1>2, <1>6, <2>1, <2>2, <2>3 DEF OneHasToken
<1>7. OneHasToken'
  BY <1>6 DEF OneHasToken
<1> QED BY <1>4, <1>5, <1>7 DEF DeskInv

LEMMA RefreshesKeeps == ASSUME DeskInv, NEW a \in Askers, Refreshes(a) PROVE DeskInv'
<1>0. /\ asker[a] \in AskerShape /\ server.refresh \in Nat /\ asker \in [Askers -> AskerShape]
      /\ deskFaults \in [count : Nat, lost : BOOLEAN] /\ deskFaults' = deskFaults /\ file' = file
  BY DEF DeskInv, DeskShape, Refreshes
<1>1. CASE asker[a].refresh # server.refresh
  <2>1. asker' = [asker EXCEPT ![a].pc = "failed"] /\ server' = server /\ asker[a].pc = "refreshing"
    BY <1>1 DEF Refreshes
  <2>2. "failed" \in DeskPlaces \ {"writing", "refreshing"}
    BY DEF DeskPlaces
  <2> QED BY <1>0, <2>1, <2>2, PlaceKeeps
<1>2. CASE asker[a].refresh = server.refresh
  <2> DEFINE n == server.refresh + 1
             to == [asker[a] EXCEPT !.pc = "writing", !.access = n, !.refresh = n]
  <2>1. server' = [refresh |-> n, access |-> n] /\ asker[a].pc = "refreshing"
    BY <1>2 DEF Refreshes
  <2>2. server'.refresh = n /\ server'.access = n
    BY <2>1
  <2>3. asker' = [asker EXCEPT ![a] = to]
    BY <1>0, <1>2, <2>2 DEF Refreshes
  <2>4. n \in Nat
    BY <1>0
  <2> HIDE DEF n
  <2>5. to \in AskerShape /\ to.pc = "writing" /\ to.refresh = n
    BY <1>0, <2>4 DEF AskerShape, DeskPlaces
  <2> USE DEF n
  <2> HIDE DEF to
  <2> QED BY <1>0, <1>2, <2>1, <2>3, <2>5, TokenGiven
<1> QED BY <1>1, <1>2

LEMMA RefreshIsLostKeeps == ASSUME DeskInv, NEW a \in Askers, RefreshIsLost(a) PROVE DeskInv'
<1>0. /\ asker[a] \in AskerShape /\ server.refresh \in Nat /\ asker \in [Askers -> AskerShape]
      /\ deskFaults \in [count : Nat, lost : BOOLEAN] /\ deskFaults.count + 1 \in Nat /\ file' = file
      /\ asker[a].pc = "refreshing" /\ asker' = [asker EXCEPT ![a].pc = "failed"]
  BY DEF DeskInv, DeskShape, RefreshIsLost
<1>1. "failed" \in DeskPlaces \ {"writing", "refreshing"}
  BY DEF DeskPlaces
<1>2. CASE server' = server /\ deskFaults' = [deskFaults EXCEPT !.count = @ + 1]
  <2>1. deskFaults' \in [count : Nat, lost : BOOLEAN] /\ deskFaults'.lost = deskFaults.lost
    BY <1>0, <1>2
  <2> QED BY <1>0, <1>1, <1>2, <2>1, PlaceKeeps
<1>3. CASE /\ asker[a].refresh = server.refresh
           /\ server' = [refresh |-> server.refresh + 1, access |-> server.refresh + 1]
           /\ deskFaults' = [count |-> deskFaults.count + 1, lost |-> TRUE]
  <2> DEFINE to == [asker[a] EXCEPT !.pc = "failed"]
  <2>1. asker' = [asker EXCEPT ![a] = to]
    BY <1>0
  <2>2. to \in AskerShape /\ to.pc = "failed"
    BY <1>0, <1>1 DEF AskerShape
  <2>3. deskFaults' \in [count : Nat, lost : BOOLEAN] /\ deskFaults'.lost
    BY <1>0, <1>3
  <2> HIDE DEF to
  <2> QED BY <1>0, <1>3, <2>1, <2>2, <2>3, TokenGiven
<1> QED BY <1>2, <1>3 DEF RefreshIsLost

LEMMA WritesLoginKeeps == ASSUME DeskInv, NEW a \in Askers, WritesLogin(a) PROVE DeskInv'
<1> DEFINE to == [asker[a] EXCEPT !.pc = "calling"]
<1>0. /\ asker[a] \in AskerShape /\ file \in [refresh : Nat, access : Nat, nested : BOOLEAN, account : BOOLEAN]
      /\ asker \in [Askers -> AskerShape] /\ server.refresh \in Nat
      /\ \A b \in Askers : asker[b].refresh \in Nat
  BY DEF DeskInv, DeskShape, AskerShape
<1>1. to \in AskerShape /\ to.pc = "calling"
  BY <1>0 DEF AskerShape, DeskPlaces
<1>2. asker' = [asker EXCEPT ![a] = to] /\ server' = server /\ deskFaults' = deskFaults /\ asker[a].pc = "writing"
  BY DEF WritesLogin
<1>3. file' \in [refresh : Nat, access : Nat, nested : BOOLEAN, account : BOOLEAN] /\ file'.refresh = asker[a].refresh
  BY <1>0 DEF WritesLogin, MergeIntoFile, AskerShape
<1> HIDE DEF to
<1>4. DeskShape'
  BY <1>1, <1>2, <1>3 DEF DeskInv, DeskShape
<1>5. \A b \in Askers : asker'[b] = IF b = a THEN to ELSE asker[b]
  BY <1>0, <1>2
<1>6. asker[a].refresh <= server.refresh
  BY <1>2 DEF DeskInv, TokensAreOld
<1>7. TokensAreOld'
  BY <1>1, <1>2, <1>3, <1>5, <1>6 DEF DeskInv, TokensAreOld
<1>8. ASSUME ~deskFaults'.lost PROVE OneHasToken'
  <2>1. /\ asker[a].refresh = server.refresh
        /\ \A b \in Askers : asker[b].pc = "writing" => b = a
    BY <1>2, <1>8 DEF DeskInv, OneHasToken
  <2> QED BY <1>1, <1>2, <1>3, <1>5, <2>1 DEF OneHasToken
<1>9. OneHasToken'
  BY <1>8 DEF OneHasToken
<1> QED BY <1>4, <1>7, <1>9 DEF DeskInv

LEMMA WriteFailsKeeps == ASSUME DeskInv, NEW a \in Askers, WriteFails(a) PROVE DeskInv'
<1>1. deskFaults' = [count |-> deskFaults.count + 1, lost |-> TRUE] /\ deskFaults.count \in Nat
  BY DEF WriteFails, DeskInv, DeskShape
<1>2. deskFaults' \in [count : Nat, lost : BOOLEAN] /\ deskFaults'.lost
  BY <1>1
<1>3. "calling" \in DeskPlaces \ {"writing", "refreshing"}
  BY DEF DeskPlaces
<1>4. asker' = [asker EXCEPT ![a].pc = "calling"] /\ file' = file /\ server' = server
  BY DEF WriteFails
<1> QED BY <1>2, <1>3, <1>4, PlaceKeeps

LEMMA AnsweredKeeps == ASSUME DeskInv, NEW a \in Askers, NEW answer \in {"p", "null"}, Answered(a, answer) PROVE DeskInv'
<1>1. /\ deskFaults \in [count : Nat, lost : BOOLEAN] /\ deskFaults' = deskFaults
      /\ asker' = [asker EXCEPT ![a].pc = answer] /\ file' = file /\ server' = server /\ asker[a].pc = "calling"
  BY DEF Answered, DeskInv, DeskShape
<1>2. answer \in DeskPlaces \ {"writing", "refreshing"}
  BY DEF DeskPlaces
<1> QED BY <1>1, <1>2, PlaceKeeps

LEMMA RestKeeps ==
  ASSUME DeskInv, NEW a \in Askers, asker' = [asker EXCEPT ![a] = Resting], file' = file, server' = server,
         deskFaults' \in [count : Nat, lost : BOOLEAN],
         ~deskFaults'.lost => ~deskFaults.lost /\ asker[a].pc # "writing"
  PROVE  DeskInv'
<1>1. Resting \in AskerShape /\ Resting.pc = "rest"
  BY DEF Resting, AskerShape, DeskPlaces
<1> QED BY <1>1, AskerGoes

LEMMA StepEndsKeeps == ASSUME DeskInv, NEW a \in Askers, NEW r, NEW f, StepEnds0(a, r, f) PROVE DeskInv'
<1>1. /\ deskFaults \in [count : Nat, lost : BOOLEAN] /\ deskFaults' = deskFaults
      /\ asker' = [asker EXCEPT ![a] = Resting] /\ file' = file /\ server' = server /\ asker[a].pc # "writing"
  BY DEF StepEnds0, NotCalibrated, DeskInv, DeskShape
<1> QED BY <1>1, RestKeeps

LEMMA AskerDiesKeeps == ASSUME DeskInv, NEW a \in Askers, AskerDies(a) PROVE DeskInv'
<1>1. /\ deskFaults' = [count |-> deskFaults.count + 1, lost |-> deskFaults.lost \/ asker[a].pc = "writing"]
      /\ deskFaults.count \in Nat /\ deskFaults.lost \in BOOLEAN
      /\ asker' = [asker EXCEPT ![a] = Resting] /\ file' = file /\ server' = server
  BY DEF AskerDies, DeskInv, DeskShape
<1> DEFINE losing == deskFaults.lost \/ asker[a].pc = "writing"
<1>2. losing \in BOOLEAN /\ deskFaults' = [count |-> deskFaults.count + 1, lost |-> losing]
  BY <1>1
<1>3. ~losing => ~deskFaults.lost /\ asker[a].pc # "writing"
  OBVIOUS
<1> HIDE DEF losing
<1>4. deskFaults' \in [count : Nat, lost : BOOLEAN] /\ deskFaults'.lost = losing
  BY <1>1, <1>2
<1> QED BY <1>1, <1>3, <1>4, RestKeeps

LEMMA DeskInvStep == ASSUME DeskInv, [DeskNext]_deskVars PROVE DeskInv'
<1>1. CASE UNCHANGED deskVars
  BY <1>1 DEF deskVars, DeskInv, DeskShape, TokensAreOld, OneHasToken
<1>2. ASSUME AccessExpires PROVE DeskInv'
  <2>1. server \in [refresh : Nat, access : Nat] /\ server' = [server EXCEPT !.access = 0]
    BY <1>2 DEF AccessExpires, DeskInv, DeskShape
  <2>2. server' \in [refresh : Nat, access : Nat] /\ server'.refresh = server.refresh
    BY <2>1
  <2>3. file' = file /\ asker' = asker /\ deskFaults' = deskFaults
    BY <1>2 DEF AccessExpires
  <2> QED BY <2>2, <2>3 DEF DeskInv, DeskShape, TokensAreOld, OneHasToken
<1>3. ASSUME NEW m \in DeskMarkets, CoolsDown(m) PROVE DeskInv'
  BY <1>3 DEF CoolsDown, DeskInv, DeskShape, TokensAreOld, OneHasToken
<1>4. CASE DeskNext
  BY <1>2, <1>3, <1>4, AsksKeeps, ReadsLoginKeeps, RefreshesKeeps, RefreshIsLostKeeps, WritesLoginKeeps,
     WriteFailsKeeps, AskerDiesKeeps, AnsweredKeeps, StepEndsKeeps DEF DeskNext
<1> QED BY <1>1, <1>4

LEMMA DeskSteps == ASSUME [PlaneNext]_planeVars PROVE [DeskNext]_deskVars
BY DEF PlaneNext, planeVars, Group1, Group2, Group3, Group4, Group5

\* A login nobody refreshes yet is as the invariant has it.
LEMMA DeskStarts == ASSUME DeskInit PROVE DeskInv
<1>1. Resting \in AskerShape /\ Resting.pc = "rest"
  BY DEF Resting, AskerShape, DeskPlaces
<1> QED BY <1>1 DEF DeskInit, DeskInv, DeskShape, TokensAreOld, OneHasToken

\* However the refreshes of processes that share the login file interleave, the token
\* the server takes is in the file or in the hands of one process about to write it.
THEOREM LoginIsKept == PlaneSpec => []LoginSurvives
<1>1. PlaneInit => DeskInv
  BY DeskStarts DEF PlaneInit
<1>2. DeskInv => LoginSurvives
  BY DEF DeskInv, OneHasToken, LoginSurvives
<1>3. DeskInv /\ [PlaneNext]_planeVars => DeskInv'
  BY DeskSteps, DeskInvStep
<1> QED BY <1>1, <1>2, <1>3, PTL DEF PlaneSpec


-----------------------------------------------------------------------------
(***************************************************************************)
(* Settlement: a failed trade never comes back to life.                    *)
(***************************************************************************)

LEMMA SettlementSteps == ASSUME [PlaneNext]_planeVars PROVE [SettlementNext]_settlementVars
BY DEF PlaneNext, planeVars, Group1, Group2, Group3, Group4, Group5

\* What a sequence holds, and how it ends, once more is written behind it.
LEMMA AppendHolds ==
  ASSUME NEW S, NEW s \in Seq(S), NEW e \in S
  PROVE  Append(s, e) \in Seq(S) /\ Range(Append(s, e)) = Range(s) \cup {e} /\ Last(Append(s, e)) = e
BY DEF Range, Last

LEMMA ConcatHolds ==
  ASSUME NEW S, NEW s \in Seq(S), NEW t \in Seq(S), Len(t) > 0
  PROVE  s \o t \in Seq(S) /\ Range(s \o t) = Range(s) \cup Range(t) /\ Last(s \o t) = Last(t)
<1>1. s \o t \in Seq(S) /\ Len(s \o t) = Len(s) + Len(t)
  BY ConcatProperties
<1>2. \A k \in 1..Len(s) + Len(t) : (s \o t)[k] = IF k <= Len(s) THEN s[k] ELSE t[k - Len(s)]
  BY ConcatProperties
<1>3. DOMAIN (s \o t) = 1..Len(s) + Len(t) /\ DOMAIN s = 1..Len(s) /\ DOMAIN t = 1..Len(t)
  BY <1>1
<1>4. Len(s) \in Nat /\ Len(t) \in Nat
  OBVIOUS
<1>5. Range(s \o t) \subseteq Range(s) \cup Range(t)
  <2> SUFFICES ASSUME NEW k \in 1..Len(s) + Len(t) PROVE (s \o t)[k] \in Range(s) \cup Range(t)
    BY <1>3 DEF Range
  <2>1. CASE k <= Len(s)
    BY <1>2, <1>3, <1>4, <2>1 DEF Range
  <2>2. CASE ~(k <= Len(s))
    <3>1. k - Len(s) \in 1..Len(t)
      BY <1>4, <2>2
    <3> QED BY <1>2, <1>3, <2>2, <3>1 DEF Range
  <2> QED BY <2>1, <2>2
<1>6. Range(s) \subseteq Range(s \o t)
  <2> SUFFICES ASSUME NEW k \in 1..Len(s) PROVE s[k] \in Range(s \o t)
    BY <1>3 DEF Range
  <2>1. k \in 1..Len(s) + Len(t) /\ (s \o t)[k] = s[k]
    BY <1>2, <1>4
  <2> QED BY <1>3, <2>1 DEF Range
<1>7. Range(t) \subseteq Range(s \o t)
  <2> SUFFICES ASSUME NEW k \in 1..Len(t) PROVE t[k] \in Range(s \o t)
    BY <1>3 DEF Range
  <2>1. k + Len(s) \in 1..Len(s) + Len(t) /\ (s \o t)[k + Len(s)] = t[k]
    BY <1>2, <1>4
  <2> QED BY <1>3, <2>1 DEF Range
<1>8. Last(s \o t) = Last(t)
  BY <1>1, <1>2, <1>4 DEF Last
<1> QED BY <1>1, <1>5, <1>6, <1>7, <1>8

LEMMA TupleHolds ==
  ASSUME NEW S, NEW a \in S, NEW b \in S
  PROVE  /\ <<a>> \in Seq(S) /\ Len(<<a>>) = 1 /\ Range(<<a>>) = {a} /\ Last(<<a>>) = a
         /\ <<a, b>> \in Seq(S) /\ Len(<<a, b>>) = 2 /\ Range(<<a, b>>) = {a, b} /\ Last(<<a, b>>) = b
<1>1. <<a>> \in Seq(S) /\ Len(<<a>>) = 1 /\ DOMAIN <<a>> = {1} /\ <<a>>[1] = a
  OBVIOUS
<1>2. <<a, b>> \in Seq(S) /\ Len(<<a, b>>) = 2 /\ DOMAIN <<a, b>> = {1, 2} /\ <<a, b>>[1] = a /\ <<a, b>>[2] = b
  OBVIOUS
<1>3. Range(<<a>>) = {a} /\ Last(<<a>>) = a
  BY <1>1 DEF Range, Last
<1>4. Range(<<a, b>>) = {a, b} /\ Last(<<a, b>>) = b
  BY <1>2 DEF Range, Last
<1> QED BY <1>1, <1>2, <1>3, <1>4

ChainKinds == {"MATCH", "MINE", "RETRY", "CONFIRM", "FAIL", "REORG"}
JournalKinds == ChainKinds \cup {"COMPENSATE", "REORG_CORRECT"}
SettlementStatuses == {"OPEN", "MATCHED", "MINED", "RETRYING", "CONFIRMED", "FAILED"}

\* A trade that failed on the chain was never confirmed, and is at its end.
ChainInv ==
    /\ chain \in Seq(ChainKinds)
    /\ "FAIL" \in Happened => "CONFIRM" \notin Happened /\ Last(chain) = "FAIL"
    /\ "CONFIRM" \in Happened => Last(chain) \in {"CONFIRM", "REORG"}

\* The journal holds a failure exactly when the settlement failed, and ends then with
\* the entry that takes the others back.
JournalInv ==
    /\ settlement.status \in SettlementStatuses /\ settlement.journal \in Seq(JournalKinds)
    /\ settlement.spendable => settlement.status = "CONFIRMED"
    /\ settlement.status = "CONFIRMED" => "CONFIRM" \in Happened
    /\ settlement.status # "FAILED" => Range(settlement.journal) \cap {"FAIL", "REORG"} = {}
    /\ settlement.status = "FAILED" => Last(settlement.journal) \in {"COMPENSATE", "REORG_CORRECT"}

SettlementInv == ChainInv /\ JournalInv

LEMMA ChainMovesKeeps ==
  ASSUME SettlementInv, NEW kind \in DOMAIN Target \cup {"REORG"}, ChainMoves(kind)
  PROVE  SettlementInv'
<1>1. kind \in ChainKinds
  BY DEF Target, ChainKinds
<1>2. chain \in Seq(ChainKinds) /\ chain' = Append(chain, kind) /\ settlement' = settlement
  BY DEF SettlementInv, ChainInv, ChainMoves
<1>3. chain' \in Seq(ChainKinds) /\ Happened' = Happened \cup {kind} /\ Last(chain') = kind
  BY <1>1, <1>2, AppendHolds DEF Happened
<1>4. chain # << >> => kind \in NextOnChain[Last(chain)]
  BY DEF ChainMoves
<1>5. chain = << >> => Happened = {}
  BY DEF Happened, Range
<1>6. /\ Last(chain) = "FAIL" => NextOnChain[Last(chain)] = {}
      /\ Last(chain) = "CONFIRM" => NextOnChain[Last(chain)] = {"REORG"}
      /\ Last(chain) = "REORG" => NextOnChain[Last(chain)] = {}
  BY DEF NextOnChain
<1>7. ChainInv'
  BY <1>1, <1>3, <1>4, <1>5, <1>6 DEF SettlementInv, ChainInv, ChainKinds
<1>8. JournalInv'
  BY <1>2, <1>3 DEF SettlementInv, JournalInv
<1> QED BY <1>7, <1>8 DEF SettlementInv

\* An entry that is not a failure, or a failure with what takes it back.
LEMMA BookedKeeps ==
  ASSUME SettlementInv, UNCHANGED chain, NEW entries \in Seq(JournalKinds), Len(entries) > 0,
         NEW status \in SettlementStatuses, NEW spendable \in BOOLEAN,
         settlement' = [status |-> status, journal |-> settlement.journal \o entries, spendable |-> spendable],
         settlement.status # "FAILED",
         spendable => status = "CONFIRMED",
         status = "CONFIRMED" => "CONFIRM" \in Happened,
         status # "FAILED" => Range(entries) \cap {"FAIL", "REORG"} = {},
         status = "FAILED" => Last(entries) \in {"COMPENSATE", "REORG_CORRECT"}
  PROVE  SettlementInv'
<1> DEFINE longer == settlement.journal \o entries
<1>1. settlement.journal \in Seq(JournalKinds)
  BY DEF SettlementInv, JournalInv
<1>2. longer \in Seq(JournalKinds) /\ Range(longer) = Range(settlement.journal) \cup Range(entries) /\ Last(longer) = Last(entries)
  BY <1>1, ConcatHolds
<1> HIDE DEF longer
<1>3. settlement' = [status |-> status, journal |-> longer, spendable |-> spendable]
  BY DEF longer
<1>4. settlement'.status = status /\ settlement'.journal = longer
  BY <1>3
<1>5. settlement'.spendable = spendable
  BY <1>3
<1>6. Happened' = Happened
  BY DEF Happened
<1>7. Range(settlement.journal) \cap {"FAIL", "REORG"} = {}
  BY DEF SettlementInv, JournalInv
<1>8. ChainInv'
  BY <1>6 DEF SettlementInv, ChainInv
<1>9. JournalInv'
  BY <1>2, <1>4, <1>5, <1>6, <1>7 DEF JournalInv
<1> QED BY <1>8, <1>9 DEF SettlementInv

LEMMA SettlementEventKeeps ==
  ASSUME SettlementInv, NEW kind \in DOMAIN Target \cup {"REORG"}, SettlementEvent(kind)
  PROVE  SettlementInv'
<1>1. chain' = chain /\ kind \in Happened /\ kind # "REORG" /\ kind \in DOMAIN Target
  BY DEF SettlementEvent
<1>2. CASE settlement' = settlement
  BY <1>1, <1>2 DEF SettlementInv, ChainInv, JournalInv, Happened
<1>3. CASE settlement' # settlement
  <2> DEFINE entries == IF kind = "FAIL" THEN <<kind, "COMPENSATE">> ELSE <<kind>>
             spendable == Target[kind] = "CONFIRMED"
  <2>1. /\ settlement' = [status |-> Target[kind], journal |-> settlement.journal \o entries, spendable |-> spendable]
        /\ Target[kind] \in ValidTransitions[settlement.status]
    BY <1>3 DEF SettlementEvent
  <2>2. kind \in {"MATCH", "MINE", "RETRY", "CONFIRM", "FAIL"}
    BY <1>1 DEF Target
  <2>3. kind \in JournalKinds /\ "COMPENSATE" \in JournalKinds
    BY <2>2 DEF JournalKinds, ChainKinds
  <2>4. /\ Target[kind] \in SettlementStatuses
        /\ Target[kind] = "CONFIRMED" => kind = "CONFIRM"
        /\ Target[kind] = "FAILED" <=> kind = "FAIL"
    BY <2>2 DEF Target, SettlementStatuses
  <2>5. settlement.status \in SettlementStatuses
    BY DEF SettlementInv, JournalInv
  <2>6. settlement.status # "FAILED"
    BY <2>1, <2>5 DEF ValidTransitions
  <2>7. /\ entries \in Seq(JournalKinds) /\ Len(entries) > 0
        /\ kind # "FAIL" => Range(entries) = {kind}
        /\ kind = "FAIL" => Last(entries) = "COMPENSATE"
    BY <2>3, TupleHolds
  <2>8. spendable \in BOOLEAN /\ (spendable => Target[kind] = "CONFIRMED")
    OBVIOUS
  <2> HIDE DEF entries, spendable
  <2> QED BY <1>1, <2>1, <2>2, <2>4, <2>6, <2>7, <2>8, BookedKeeps
<1> QED BY <1>2, <1>3

LEMMA ReorgCorrectionKeeps == ASSUME SettlementInv, ReorgCorrection PROVE SettlementInv'
<1>1. chain' = chain
  BY DEF ReorgCorrection
<1>2. CASE settlement.status # "CONFIRMED"
  <2>1. settlement' = settlement
    BY <1>2 DEF ReorgCorrection
  <2> QED BY <1>1, <2>1 DEF SettlementInv, ChainInv, JournalInv, Happened
<1>3. CASE settlement.status = "CONFIRMED"
  <2> DEFINE entries == <<"REORG", "REORG_CORRECT">>
  <2>1. settlement' = [status |-> "FAILED", journal |-> settlement.journal \o entries, spendable |-> FALSE]
    BY <1>3 DEF ReorgCorrection
  <2>2. "REORG" \in JournalKinds /\ "REORG_CORRECT" \in JournalKinds /\ "FAILED" \in SettlementStatuses
    BY DEF JournalKinds, ChainKinds, SettlementStatuses
  <2>3. entries \in Seq(JournalKinds) /\ Len(entries) > 0 /\ Last(entries) = "REORG_CORRECT"
    <3>1. ASSUME NEW a \in JournalKinds, NEW b \in JournalKinds
          PROVE  <<a, b>> \in Seq(JournalKinds) /\ Len(<<a, b>>) = 2 /\ Last(<<a, b>>) = b
      BY DEF Last
    <3>2. entries \in Seq(JournalKinds) /\ Len(entries) = 2 /\ Last(entries) = "REORG_CORRECT"
      BY <2>2, <3>1
    <3> QED BY <3>2
  <2> HIDE DEF entries
  <2> QED BY <1>1, <1>3, <2>1, <2>2, <2>3, BookedKeeps
<1> QED BY <1>2, <1>3

LEMMA SettlementInvStep == ASSUME SettlementInv, [SettlementNext]_settlementVars PROVE SettlementInv'
<1>1. ASSUME UNCHANGED <<chain, settlement>> PROVE SettlementInv'
  BY <1>1 DEF SettlementInv, ChainInv, JournalInv, Happened
<1>2. CASE UNCHANGED settlementVars
  BY <1>1, <1>2 DEF settlementVars
<1>3. ASSUME NEW r \in Receipts, Receipt(r) PROVE SettlementInv'
  BY <1>1, <1>3 DEF Receipt
<1>4. ASSUME NEW v \in Rewards, RevisesEstimate(v) PROVE SettlementInv'
  BY <1>1, <1>4 DEF RevisesEstimate
<1>5. ASSUME NEW p, NEW a, NEW v, PostsIncentive(p, a, v) PROVE SettlementInv'
  BY <1>1, <1>5 DEF PostsIncentive
<1>6. CASE SettlementNext
  BY <1>3, <1>4, <1>5, <1>6, ChainMovesKeeps, SettlementEventKeeps, ReorgCorrectionKeeps DEF SettlementNext
<1> QED BY <1>2, <1>6

\* An open market has an empty chain and an empty journal.
LEMMA SettlementStarts == ASSUME SettlementInit PROVE SettlementInv
<1>1. chain = << >> /\ settlement = [status |-> "OPEN", journal |-> << >>, spendable |-> FALSE]
  BY DEF SettlementInit
<1>2. << >> \in Seq(ChainKinds) /\ << >> \in Seq(JournalKinds) /\ Range(<< >>) = {}
  BY EmptySeq DEF Range
<1>3. settlement.status = "OPEN" /\ settlement.journal = << >> /\ settlement.spendable = FALSE
  BY <1>1
<1>4. settlement.status \in SettlementStatuses /\ settlement.journal \in Seq(JournalKinds)
  BY <1>2, <1>3 DEF SettlementStatuses
<1> QED BY <1>1, <1>2, <1>3, <1>4 DEF SettlementInv, ChainInv, JournalInv, Happened

\* Late, repeated and reordered events of the chain never make a failed trade's
\* proceeds spendable, and every failure is taken back in the journal.
THEOREM FailedStaysFailed == PlaneSpec => []SpendableOnlyConfirmed
<1>1. PlaneInit => SettlementInv
  BY SettlementStarts DEF PlaneInit
<1>2. SettlementInv => SpendableOnlyConfirmed
  BY DEF SettlementInv, ChainInv, JournalInv, SpendableOnlyConfirmed
<1>3. SettlementInv /\ [PlaneNext]_planeVars => SettlementInv'
  BY SettlementSteps, SettlementInvStep
<1> QED BY <1>1, <1>2, <1>3, PTL DEF PlaneSpec


-----------------------------------------------------------------------------
(***************************************************************************)
(* EmergencyStop: nothing is sold short, and "all cancelled" is true.      *)
(***************************************************************************)

Fates == {"queued", "signed", "resting", "filled", "canceled"}
SellsThat(fates) == {o \in Sells : fate[o] \in fates}

StopShape ==
    /\ level \in DOMAIN KillLevels
    /\ signing \in BOOLEAN
    /\ fate \in [Orders -> Fates]
    /\ plan \in [DOMAIN plan -> Outcomes] /\ DOMAIN plan \subseteq Orders
    /\ verified \in Int /\ sold \in Int

\* A cancel is noted only of an order that is cancelled, and that is for good.
NotedIsTrue == \A o \in DOMAIN plan : plan[o] = "CANCELED" => fate[o] = "canceled"

\* What is sold came out of what was verified, and below nothing only as far as
\* sells were cancelled.
SharesAddUp ==
    /\ sold + verified = Held - Cardinality(Sells)
    /\ verified + Cardinality(SellsThat({"canceled"})) >= 0

\* Nothing is signed beside a plan: it was made of every order there was.
PlanIsAll ==
    DOMAIN plan # {} => (BlockNewEntry \/ ~signing) /\ Known \subseteq DOMAIN plan

\* The vault stops signing before the response cancels anything.
SigningStopsFirst ==
    response = <<"none">> \/ ~signing \/ (response # << >> /\ Head(response) = "KILL_SIGNING")

StopInv == StopShape /\ NotedIsTrue /\ SharesAddUp /\ PlanIsAll /\ SigningStopsFirst

LEMMA StopSteps == ASSUME [PlaneNext]_planeVars PROVE [StopNext]_stopVars
BY DEF PlaneNext, planeVars, Group1, Group2, Group3, Group4, Group5

LEMMA LevelsAreNumbers ==
  /\ \A l \in DOMAIN KillLevels : KillLevels[l] \in Nat
  /\ "PAUSE_ENTRIES" \in DOMAIN KillLevels /\ "CANCEL_OPEN" \in DOMAIN KillLevels
  /\ LevelAtLeast("PAUSE_ENTRIES", "PAUSE_ENTRIES") /\ LevelAtLeast("CANCEL_OPEN", "PAUSE_ENTRIES")
BY DEF KillLevels, LevelAtLeast

LEMMA SellsAreFinite ==
  ASSUME NEW fates
  PROVE  IsFiniteSet(SellsThat(fates)) /\ Cardinality(SellsThat(fates)) \in Nat
<1>1. SellsThat(fates) \subseteq Sells /\ IsFiniteSet(Sells)
  BY HeldCoversSells DEF SellsThat
<1> QED BY <1>1, FS_Subset, FS_CardinalityType

\* What is reported cancelled frees no more than what is.
LEMMA FreedIsBounded ==
  ASSUME StopInv
  PROVE  Freed({"CANCELED"}) \in Nat /\ Freed({"CANCELED"}) <= Cardinality(SellsThat({"canceled"}))
<1> DEFINE freed == {o \in DOMAIN plan \cap Sells : plan[o] \in {"CANCELED"}}
<1>1. freed \subseteq SellsThat({"canceled"})
  BY DEF StopInv, NotedIsTrue, SellsThat
<1>2. IsFiniteSet(SellsThat({"canceled"}))
  BY SellsAreFinite
<1>3. IsFiniteSet(freed) /\ Cardinality(freed) <= Cardinality(SellsThat({"canceled"}))
  BY <1>1, <1>2, FS_Subset
<1>4. Cardinality(freed) \in Nat
  BY <1>3, FS_CardinalityType
<1> QED BY <1>3, <1>4 DEF Freed

\* A step that leaves orders, plan and shares alone.
LEMMA Undisturbed ==
  ASSUME StopInv, UNCHANGED <<fate, plan, verified, sold>>, level' \in DOMAIN KillLevels,
         signing' \in BOOLEAN, signing' => signing, BlockNewEntry => BlockNewEntry',
         SigningStopsFirst'
  PROVE  StopInv'
<1>1. StopShape' /\ NotedIsTrue' /\ SharesAddUp'
  BY DEF StopInv, StopShape, NotedIsTrue, SharesAddUp, SellsThat
<1>2. PlanIsAll'
  BY DEF StopInv, PlanIsAll, Known
<1> QED BY <1>1, <1>2 DEF StopInv

LEMMA LevelRaisedKeeps == ASSUME StopInv, NEW l \in DOMAIN KillLevels, LevelRaised(l) PROVE StopInv'
<1>1. KillLevels[level] \in Nat /\ KillLevels[l] \in Nat /\ KillLevels["PAUSE_ENTRIES"] \in Nat
  BY LevelsAreNumbers DEF StopInv, StopShape
<1>2. level' = l /\ KillLevels[level] < KillLevels[l]
  BY <1>1 DEF LevelRaised, LevelAtLeast
<1>3. BlockNewEntry => BlockNewEntry'
  BY <1>1, <1>2 DEF BlockNewEntry, LevelAtLeast
<1>4. SigningStopsFirst'
  BY DEF LevelRaised, StopInv, SigningStopsFirst
<1> QED BY <1>2, <1>3, <1>4, Undisturbed DEF LevelRaised, StopInv, StopShape

Actions == {"KILL_SIGNING", "FREEZE_ENTRIES", "RECONCILE", "CANCEL_OPEN", "ROTATE_L1", "REVOKE_L2",
            "REVOKE_OWNER_SESSION", "OWNER_ASSET_RESCUE"}

\* What is written behind a plan leaves its first action alone.
LEMMA HeadStays ==
  ASSUME NEW S, NEW s \in Seq(S), s # << >>, NEW t \in Seq(S)
  PROVE  s \o t \in Seq(S) /\ s \o t # << >> /\ Head(s \o t) = Head(s)
<1>1. Len(s) > 0 /\ Head(s) = s[1]
  OBVIOUS
<1>2. s \o t \in Seq(S) /\ Len(s \o t) = Len(s) + Len(t) /\ (s \o t)[1] = s[1]
  BY <1>1, ConcatProperties
<1> QED BY <1>1, <1>2

LEMMA CompromiseSeenKeeps ==
  ASSUME StopInv, NEW class, NEW freeze, NEW cancel, CompromiseSeen(class, freeze, cancel)
  PROVE  StopInv'
<1> DEFINE kill == <<"KILL_SIGNING">>
           frozen == kill \o (IF freeze THEN <<"FREEZE_ENTRIES">> ELSE << >>)
           checked == frozen \o <<"RECONCILE">>
           cancelled == checked \o (IF cancel THEN <<"CANCEL_OPEN">> ELSE << >>)
           revoked == cancelled \o Revocation(class)
           rescued == revoked \o <<"OWNER_ASSET_RESCUE">>
<1>1. response' # << >> /\ Head(response') = "KILL_SIGNING"
  <2>1. response' = rescued
    BY DEF CompromiseSeen, ResponseTo
  <2>2. kill \in Seq(Actions) /\ kill # << >> /\ Head(kill) = "KILL_SIGNING"
    BY DEF Actions
  <2>0. /\ <<"ROTATE_L1">> \in Seq(Actions) /\ <<"REVOKE_L2">> \in Seq(Actions)
        /\ <<"REVOKE_OWNER_SESSION">> \in Seq(Actions) /\ << >> \in Seq(Actions)
        /\ <<"FREEZE_ENTRIES">> \in Seq(Actions) /\ <<"CANCEL_OPEN">> \in Seq(Actions)
    BY EmptySeq DEF Actions
  <2>3. Revocation(class) \in Seq(Actions)
    BY <2>0 DEF Revocation
  <2>4. (IF freeze THEN <<"FREEZE_ENTRIES">> ELSE << >>) \in Seq(Actions)
    BY <2>0
  <2>5. (IF cancel THEN <<"CANCEL_OPEN">> ELSE << >>) \in Seq(Actions)
    BY <2>0
  <2>6. <<"RECONCILE">> \in Seq(Actions) /\ <<"OWNER_ASSET_RESCUE">> \in Seq(Actions)
    BY DEF Actions
  <2> HIDE DEF kill
  <2>7. frozen \in Seq(Actions) /\ frozen # << >> /\ Head(frozen) = "KILL_SIGNING"
    BY <2>2, <2>4, HeadStays
  <2> HIDE DEF frozen
  <2>8. checked \in Seq(Actions) /\ checked # << >> /\ Head(checked) = "KILL_SIGNING"
    BY <2>6, <2>7, HeadStays
  <2> HIDE DEF checked
  <2>9. cancelled \in Seq(Actions) /\ cancelled # << >> /\ Head(cancelled) = "KILL_SIGNING"
    BY <2>5, <2>8, HeadStays
  <2> HIDE DEF cancelled
  <2>10. revoked \in Seq(Actions) /\ revoked # << >> /\ Head(revoked) = "KILL_SIGNING"
    BY <2>3, <2>9, HeadStays
  <2> HIDE DEF revoked
  <2>11. rescued # << >> /\ Head(rescued) = "KILL_SIGNING"
    BY <2>6, <2>10, HeadStays
  <2> QED BY <2>1, <2>11
<1>2. SigningStopsFirst'
  BY <1>1 DEF SigningStopsFirst
<1> QED BY <1>2, Undisturbed DEF CompromiseSeen, StopInv, StopShape, BlockNewEntry

LEMMA PlatformKeeps ==
  ASSUME StopInv, UNCHANGED <<level, signing, fate, plan, verified, sold, response>>
  PROVE  StopInv'
BY DEF StopInv, StopShape, NotedIsTrue, SharesAddUp, PlanIsAll, SigningStopsFirst, SellsThat, Known, BlockNewEntry

\* The orders, one of them on its way.
LEMMA FateMoves ==
  ASSUME StopInv, NEW o \in Orders, NEW to \in Fates, fate' = [fate EXCEPT ![o] = to],
         fate[o] # "canceled", UNCHANGED <<level, signing, plan, verified, sold, response>>,
         to \in {"signed", "resting"} => o \in Known \/ (~BlockNewEntry /\ signing)
  PROVE  StopInv'
<1>1. \A p \in Orders : fate'[p] = IF p = o THEN to ELSE fate[p]
  BY DEF StopInv, StopShape
<1>2. StopShape'
  BY DEF StopInv, StopShape
<1>3. NotedIsTrue'
  BY <1>1 DEF StopInv, StopShape, NotedIsTrue
<1>4. SellsThat({"canceled"}) \subseteq SellsThat({"canceled"})'
  BY <1>1 DEF SellsThat, Orders
<1>5. SharesAddUp'
  <2> DEFINE now == SellsThat({"canceled"})
             after == {p \in Sells : fate'[p] \in {"canceled"}}
  <2>1. now \subseteq after
    BY <1>4 DEF SellsThat
  <2>2. IsFiniteSet(after)
    BY HeldCoversSells, FS_Subset
  <2>3. Cardinality(now) <= Cardinality(after) /\ Cardinality(after) \in Nat /\ Cardinality(now) \in Nat
    BY <2>1, <2>2, FS_Subset, FS_CardinalityType, SellsAreFinite
  <2>4. verified \in Int /\ verified + Cardinality(now) >= 0
    BY DEF StopInv, StopShape, SharesAddUp
  <2> HIDE DEF now, after
  <2>5. verified + Cardinality(after) >= 0
    BY <2>3, <2>4
  <2>6. Cardinality(SellsThat({"canceled"}))' = Cardinality(after)
    BY DEF SellsThat, after
  <2> QED BY <2>5, <2>6 DEF StopInv, SharesAddUp
<1>6. PlanIsAll'
  <2>1. ASSUME DOMAIN plan # {} PROVE Known' \subseteq Known
    BY <1>1, <2>1 DEF StopInv, PlanIsAll, Known
  <2> QED BY <2>1 DEF StopInv, PlanIsAll, BlockNewEntry
<1>7. SigningStopsFirst'
  BY DEF StopInv, SigningStopsFirst
<1> QED BY <1>2, <1>3, <1>5, <1>6, <1>7 DEF StopInv

LEMMA EntrySignedKeeps == ASSUME StopInv, NEW o \in Orders, EntrySigned(o) PROVE StopInv'
BY FateMoves DEF EntrySigned, Fates

LEMMA VenueMovesKeeps ==
  ASSUME StopInv, NEW o \in Orders, NEW to \in {"resting", "filled", "canceled"}, VenueMoves(o, to)
  PROVE  StopInv'
<1>1. fate[o] \in {"signed", "resting"}
  BY DEF VenueMoves
<1> QED BY <1>1, FateMoves DEF VenueMoves, Fates, Known

\* A plan made of every known order, while nothing is signed.
LEMMA PlanMade ==
  ASSUME StopInv, plan' = Planned(Known), UNCHANGED <<fate, verified, sold>>, level' = level, signing' = signing,
         BlockNewEntry \/ ~signing, SigningStopsFirst'
  PROVE  StopInv'
<1>1. DOMAIN plan' = Known /\ Known \subseteq Orders /\ \A o \in Known : plan'[o] = "CANCEL_UNKNOWN"
  BY DEF Planned, Known
<1>2. plan' \in [DOMAIN plan' -> Outcomes]
  BY DEF Planned, Outcomes
<1>3. StopShape'
  BY <1>1, <1>2 DEF StopInv, StopShape
<1>4. NotedIsTrue' /\ SharesAddUp' /\ PlanIsAll'
  BY <1>1 DEF StopInv, NotedIsTrue, SharesAddUp, PlanIsAll, SellsThat, Known, BlockNewEntry
<1> QED BY <1>3, <1>4 DEF StopInv

LEMMA CancelOpenedKeeps == ASSUME StopInv, CancelOpened PROVE StopInv'
<1>1. KillLevels[level] \in Nat /\ KillLevels["PAUSE_ENTRIES"] \in Nat /\ KillLevels["CANCEL_OPEN"] \in Nat
  BY LevelsAreNumbers DEF StopInv, StopShape
<1>2. BlockNewEntry
  BY <1>1, LevelsAreNumbers DEF CancelOpened, LevelAtLeast, BlockNewEntry
<1>3. SigningStopsFirst'
  BY DEF CancelOpened, StopInv, SigningStopsFirst
<1> QED BY <1>2, <1>3, PlanMade DEF CancelOpened

LEMMA OutcomeSeenKeeps ==
  ASSUME StopInv, NEW o \in Orders, NEW outcome \in Outcomes, OutcomeSeen(o, outcome)
  PROVE  StopInv'
<1>1. /\ plan' = [plan EXCEPT ![o] = outcome] /\ o \in DOMAIN plan
      /\ UNCHANGED <<level, signing, fate, verified, sold, response>>
      /\ outcome = "CANCELED" => fate[o] = "canceled"
  BY DEF OutcomeSeen
<1>2. DOMAIN plan' = DOMAIN plan /\ \A p \in DOMAIN plan : plan'[p] = IF p = o THEN outcome ELSE plan[p]
  BY <1>1
<1>3. StopShape'
  BY <1>1, <1>2 DEF StopInv, StopShape
<1>4. NotedIsTrue'
  BY <1>1, <1>2 DEF StopInv, NotedIsTrue
<1>5. SharesAddUp' /\ PlanIsAll' /\ SigningStopsFirst'
  BY <1>1, <1>2 DEF StopInv, SharesAddUp, PlanIsAll, SigningStopsFirst, SellsThat, Known, BlockNewEntry
<1> QED BY <1>3, <1>4, <1>5 DEF StopInv

\* Shares that are verified, or freed by a cancel, are sold.
LEMMA SharesMove ==
  ASSUME StopInv, NEW qty \in Int, verified' = verified - qty, sold' = sold + qty,
         verified' + Cardinality(SellsThat({"canceled"})) >= 0,
         UNCHANGED <<level, signing, fate, plan, response>>
  PROVE  StopInv'
<1>1. verified \in Int /\ sold \in Int /\ Cardinality(Sells) \in Nat /\ Held \in Nat
  BY HeldCoversSells, FS_CardinalityType DEF StopInv, StopShape
<1>2. StopShape'
  BY <1>1 DEF StopInv, StopShape
<1>3. sold' + verified' = Held - Cardinality(Sells)
  BY <1>1 DEF StopInv, SharesAddUp
<1>4. SellsThat({"canceled"})' = SellsThat({"canceled"})
  BY DEF SellsThat
<1>5. SharesAddUp'
  BY <1>3, <1>4 DEF SharesAddUp
<1>6. NotedIsTrue' /\ PlanIsAll' /\ SigningStopsFirst'
  BY DEF StopInv, NotedIsTrue, PlanIsAll, SigningStopsFirst, Known, BlockNewEntry
<1> QED BY <1>2, <1>5, <1>6 DEF StopInv

LEMMA ReducedKeeps == ASSUME StopInv, Reduced(1) PROVE StopInv'
<1> DEFINE canceled == Cardinality(SellsThat({"canceled"}))
           freed == Freed({"CANCELED"})
<1>1. verified \in Int /\ canceled \in Nat /\ freed \in Nat /\ freed <= canceled
  BY SellsAreFinite, FreedIsBounded DEF StopInv, StopShape
<1>2. 1 <= (IF verified + freed < 0 THEN 0 ELSE verified + freed)
  BY DEF Reduced, Sellable
<1>3. verified' = verified - 1 /\ sold' = sold + 1 /\ UNCHANGED <<level, signing, fate, plan, response>>
  BY DEF Reduced
<1> HIDE DEF canceled, freed
<1>4. verified' + canceled >= 0
  BY <1>1, <1>2, <1>3
<1> QED BY <1>3, <1>4, SharesMove DEF canceled

LEMMA FlattenedKeeps == ASSUME StopInv, NEW underCap, Flattened(underCap) PROVE StopInv'
<1>1. verified \in Int /\ Cardinality(SellsThat({"canceled"})) \in Nat
  BY SellsAreFinite DEF StopInv, StopShape
<1>2. verified' = verified - verified /\ sold' = sold + verified /\ UNCHANGED <<level, signing, fate, plan, response>>
  BY <1>1 DEF Flattened
<1>3. verified' + Cardinality(SellsThat({"canceled"})) >= 0
  BY <1>1, <1>2
<1> QED BY <1>1, <1>2, <1>3, SharesMove

LEMMA ActionTakenKeeps == ASSUME StopInv, ActionTaken PROVE StopInv'
<1> DEFINE action == Head(response)
<1>1. /\ response # <<"none">> /\ response # << >>
      /\ signing' = IF action = "KILL_SIGNING" THEN FALSE ELSE signing
      /\ level' = IF action = "FREEZE_ENTRIES" /\ ~BlockNewEntry THEN "PAUSE_ENTRIES" ELSE level
      /\ plan' = IF action = "CANCEL_OPEN" THEN Planned(Known) ELSE plan
      /\ UNCHANGED <<fate, verified, sold>>
  BY DEF ActionTaken
<1>2. ~signing \/ action = "KILL_SIGNING"
  BY <1>1 DEF StopInv, SigningStopsFirst
<1>3. ~signing' /\ signing' \in BOOLEAN
  BY <1>1, <1>2 DEF StopInv, StopShape
<1>4. SigningStopsFirst'
  BY <1>3 DEF SigningStopsFirst
<1>5. CASE action = "CANCEL_OPEN"
  <2>1. ~signing /\ level' = level /\ signing' = signing /\ plan' = Planned(Known)
    BY <1>1, <1>2, <1>5
  <2> QED BY <1>1, <1>4, <2>1, PlanMade
<1>6. CASE action # "CANCEL_OPEN"
  <2>1. level' \in DOMAIN KillLevels /\ (BlockNewEntry => BlockNewEntry')
    BY <1>1, LevelsAreNumbers DEF StopInv, StopShape, BlockNewEntry
  <2> QED BY <1>1, <1>3, <1>4, <1>6, <2>1, Undisturbed
<1> QED BY <1>5, <1>6

LEMMA StopInvStep == ASSUME StopInv, [StopNext]_stopVars PROVE StopInv'
<1>1. CASE UNCHANGED stopVars
  BY <1>1, PlatformKeeps DEF stopVars
<1>2. ASSUME StoreFails \/ \E gate \in CatchUps : StoreRecovers(gate) PROVE StopInv'
  BY <1>2, PlatformKeeps DEF StoreFails, StoreRecovers
<1>3. CASE StopNext
  BY <1>2, <1>3, LevelRaisedKeeps, EntrySignedKeeps, VenueMovesKeeps, OutcomeSeenKeeps, ReducedKeeps, FlattenedKeeps,
     CompromiseSeenKeeps, ActionTakenKeeps, CancelOpenedKeeps DEF StopNext
<1> QED BY <1>1, <1>3

LEMMA NothingSoldShort == ASSUME StopInv PROVE NeverShort
<1> DEFINE live == SellsThat({"resting", "filled"})
           canceled == SellsThat({"canceled"})
<1>1. IsFiniteSet(live) /\ IsFiniteSet(canceled) /\ live \cap canceled = {} /\ live \cup canceled \subseteq Sells
  BY SellsAreFinite DEF SellsThat
<1>2. Cardinality(live \cup canceled) = Cardinality(live) + Cardinality(canceled)
  <2>1. Cardinality(live \cup canceled) = Cardinality(live) + Cardinality(canceled) - Cardinality(live \cap canceled)
    BY <1>1, FS_Union
  <2>2. Cardinality(live \cap canceled) = 0
    BY <1>1, FS_EmptySet
  <2>3. Cardinality(live) \in Nat /\ Cardinality(canceled) \in Nat
    BY <1>1, FS_CardinalityType
  <2> QED BY <2>1, <2>2, <2>3
<1>3. Cardinality(live \cup canceled) <= Cardinality(Sells)
  BY <1>1, HeldCoversSells, FS_Subset
<1>4. /\ Cardinality(live) \in Nat /\ Cardinality(canceled) \in Nat /\ Cardinality(Sells) \in Nat
      /\ verified \in Int /\ sold \in Int /\ Held \in Nat
      /\ sold + verified = Held - Cardinality(Sells)
      /\ verified + Cardinality(canceled) >= 0
  BY <1>1, HeldCoversSells, FS_CardinalityType DEF StopInv, StopShape, SharesAddUp
<1> HIDE DEF live, canceled
<1>5. sold + Cardinality(live) <= Held
  BY <1>2, <1>3, <1>4
<1> QED BY <1>5 DEF NeverShort, live, SellsThat

\* Nothing is ever sold short, and a plan whose orders are all reported cancelled
\* leaves no order anywhere, however reports, fills and the response interleave.
THEOREM EmergencyIsHandled == PlaneSpec => []EmergencyHolds
<1>1. PlaneInit => StopInv
  <2> SUFFICES ASSUME PlaneInit PROVE StopInv
    OBVIOUS
  <2>1. StopInit
    BY DEF PlaneInit
  <2>2. Cardinality(Sells) \in Nat /\ Cardinality(SellsThat({"canceled"})) \in Nat
    BY HeldCoversSells, SellsAreFinite, FS_CardinalityType
  <2>3. verified \in Int /\ sold = 0 /\ verified = Held - Cardinality(Sells) /\ verified >= 0
    BY <2>1, <2>2, HeldCoversSells DEF StopInit
  <2>4. DOMAIN plan = {} /\ plan \in [DOMAIN plan -> Outcomes]
    BY <2>1 DEF StopInit, NoPlan
  <2>5. StopShape
    BY <2>1, <2>3, <2>4 DEF StopInit, StopShape, KillLevels, Fates
  <2>6. NotedIsTrue /\ PlanIsAll /\ SigningStopsFirst
    BY <2>1, <2>4 DEF StopInit, NotedIsTrue, PlanIsAll, SigningStopsFirst
  <2>7. SharesAddUp
    BY <2>2, <2>3, HeldCoversSells DEF SharesAddUp
  <2> QED BY <2>5, <2>6, <2>7 DEF StopInv
<1>2. StopInv => AllCanceledIsAll
  BY DEF StopInv, NotedIsTrue, PlanIsAll, AllCanceledIsAll, AllCanceled, Known
<1>3. StopInv => EmergencyHolds
  BY <1>2, NothingSoldShort DEF EmergencyHolds
<1>4. StopInv /\ [PlaneNext]_planeVars => StopInv'
  BY StopSteps, StopInvStep
<1> QED BY <1>1, <1>3, <1>4, PTL DEF PlaneSpec


-----------------------------------------------------------------------------
(***************************************************************************)
(* Admission: who is admitted has the evidence.                            *)
(***************************************************************************)

ClusterRows == [market : EvidenceMarkets, winner : {"YES", "NO"}]

\* The listing says it of the market, or said it before the market left the list.
Decided(r) == \/ \E e \in closed : e.market = r.market /\ e.prices = {r.winner}
              \/ r.market \in spoilt.dropped

EvidenceShape ==
    /\ tick \in [Ticks -> [pc : {"idle", "insert", "refresh"}, todo : SUBSET ClusterRows]]
    /\ closed \subseteq [market : EvidenceMarkets, prices : SUBSET {"YES", "NO"}]
    /\ clusters \subseteq ClusterRows /\ IsFiniteSet(clusters)
    /\ spoilt \in [failures : Nat, dropped : SUBSET EvidenceMarkets]
    /\ day \in Nat
    /\ baseline \in [days : Nat, count : Nat]

\* A market is listed once, and what is written of it, or about to be, is what the
\* listing said as long as it was on it: nobody else says otherwise.
DecidedOnce ==
    /\ \A e, f \in closed : e.market = f.market => e = f
    /\ \A e \in closed : e.market \notin spoilt.dropped
    /\ \A t \in Ticks : \A r \in tick[t].todo : Decided(r)
    /\ \A r \in clusters : Decided(r)
    /\ \A t \in Ticks : \A r \in tick[t].todo : \A q \in clusters : q.market = r.market => q = r
    /\ \A t, u \in Ticks : \A r \in tick[t].todo : \A q \in tick[u].todo : q.market = r.market => q = r
    /\ \A r, q \in clusters : q.market = r.market => q = r

BaselineIsOld == baseline.days <= day /\ baseline.count <= Cardinality(clusters)

EvidenceInv == EvidenceShape /\ DecidedOnce /\ BaselineIsOld

StartPlaces == {"down", "latch", "unknown", "baseline", "up"}

StartShape ==
    /\ grants \in [Granted -> [signer : {"owner", "other"}, expires : Nat, revoked : BOOLEAN]]
    /\ Granted \subseteq Nat
    /\ \E b \in Nat : \A g \in Granted : g <= b
    /\ start.pc \in StartPlaces /\ DOMAIN start = {"pc", "promo", "at", "g2", "admitted"}

\* A start holds a promotion that was there when it read it, and nothing is taken
\* back of what it was admitted on.
StartIsFounded ==
    /\ start.pc \in {"latch", "unknown", "baseline"} => start.promo \in Granted /\ start.admitted = FALSE
    /\ start.admitted =>
          /\ start.promo \in Granted
          /\ grants[start.promo].signer = "owner" /\ grants[start.promo].expires > start.at
          /\ day >= MinDays /\ Cardinality(clusters) >= MinClusters

AdmissionInv == EvidenceInv /\ StartShape /\ StartIsFounded

LEMMA AdmissionSteps == ASSUME [PlaneNext]_planeVars PROVE [AdmissionNext]_admissionVars
<1>1. Evidenced => AdmissionNext
  BY PlaneAssumption DEF Evidenced, AdmissionNext, Evidence
<1>2. Admits => AdmissionNext
  <2>1. {"YES"} \in SUBSET {"YES", "NO"} /\ "m1" \in EvidenceMarkets /\ "t1" \in Ticks
    BY PlaneAssumption
  <2> QED BY <2>1 DEF Admits, AdmissionNext, Evidence
<1> QED BY <1>1, <1>2 DEF PlaneNext, planeVars, Group1, Group2, Group3, Group4, Group5

LEMMA OnePriceNamesWinner ==
  ASSUME NEW prices \in SUBSET {"YES", "NO"}
  PROVE  Cardinality(prices) = 1 <=> \E w \in {"YES", "NO"} : prices = {w}
<1>1. prices = {} \/ prices = {"YES"} \/ prices = {"NO"} \/ prices = {"YES", "NO"}
  OBVIOUS
<1>2. Cardinality({}) = 0
  BY FS_EmptySet
<1>3. Cardinality({"YES"}) = 1 /\ Cardinality({"NO"}) = 1 /\ IsFiniteSet({"YES"})
  BY FS_Singleton
<1>4. Cardinality({"YES"} \cup {"NO"}) = 2
  BY <1>3, FS_AddElement
<1>5. {"YES"} \cup {"NO"} = {"YES", "NO"}
  OBVIOUS
<1>6. CASE prices = {}
  BY <1>2, <1>6
<1>7. CASE prices = {"YES"}
  BY <1>3, <1>7
<1>8. CASE prices = {"NO"}
  BY <1>3, <1>8
<1>9. CASE prices = {"YES", "NO"}
  <2>1. Cardinality(prices) # 1
    BY <1>4, <1>5, <1>9
  <2>2. "YES" # "NO"
    OBVIOUS
  <2>3. \A w : prices # {w}
    BY <1>9, <2>2
  <2> QED BY <2>1, <2>3
<1> QED BY <1>1, <1>6, <1>7, <1>8, <1>9

\* What is parsed from the listing is what the listing says.
LEMMA ParsedIsListed ==
  ASSUME EvidenceInv, NEW r \in ParseResolvedMarkets(closed)
  PROVE  r \in ClusterRows /\ \E e \in closed : e.market = r.market /\ e.prices = {r.winner}
<1>1. PICK e \in closed : Cardinality(e.prices) = 1 /\ r = [market |-> e.market, winner |-> Winner(e.prices)]
  BY DEF ParseResolvedMarkets
<1>2. e.market \in EvidenceMarkets /\ e.prices \in SUBSET {"YES", "NO"}
  BY DEF EvidenceInv, EvidenceShape
<1>3. \E w \in {"YES", "NO"} : e.prices = {w}
  BY <1>1, <1>2, OnePriceNamesWinner
<1>4. Winner(e.prices) \in {"YES", "NO"} /\ e.prices = {Winner(e.prices)}
  BY <1>3 DEF Winner
<1> QED BY <1>1, <1>2, <1>4 DEF ClusterRows

\* Two rows of one market are one, if the listing still has the market.
LEMMA ListedIsOnlyOne ==
  ASSUME EvidenceInv, NEW r \in ClusterRows, NEW q \in ClusterRows, r.market = q.market,
         \E e \in closed : e.market = r.market /\ e.prices = {r.winner}, Decided(q)
  PROVE  q = r
<1>1. PICK e \in closed : e.market = r.market /\ e.prices = {r.winner}
  OBVIOUS
<1>2. e.market \notin spoilt.dropped
  BY DEF EvidenceInv, DecidedOnce
<1>3. PICK f \in closed : f.market = q.market /\ f.prices = {q.winner}
  BY <1>1, <1>2 DEF Decided
<1>4. e = f
  BY <1>1, <1>3 DEF EvidenceInv, DecidedOnce
<1>5. r.winner = q.winner
  BY <1>1, <1>3, <1>4
<1> QED BY <1>5 DEF ClusterRows

LEMMA MarketClosesKeeps ==
  ASSUME EvidenceInv, NEW m \in EvidenceMarkets, NEW prices \in SUBSET {"YES", "NO"}, MarketCloses(m, prices)
  PROVE  EvidenceInv'
<1> DEFINE new == [market |-> m, prices |-> prices]
<1>1. /\ closed' = {e \in closed : e.market # m} \cup {new} /\ m \notin spoilt.dropped
      /\ \A e \in closed : e.market = m => Cardinality(e.prices) # 1
      /\ UNCHANGED <<clusters, tick, baseline, day, spoilt>>
  BY DEF MarketCloses
<1>2. new \in [market : EvidenceMarkets, prices : SUBSET {"YES", "NO"}] /\ new.market = m
  OBVIOUS
<1> HIDE DEF new
<1>3. EvidenceShape'
  BY <1>1, <1>2 DEF EvidenceInv, EvidenceShape
<1>4. ASSUME NEW r \in ClusterRows, Decided(r) PROVE Decided(r)'
  <2>1. CASE r.market \in spoilt.dropped
    BY <1>1, <2>1 DEF Decided
  <2>2. CASE r.market \notin spoilt.dropped
    <3>1. PICK e \in closed : e.market = r.market /\ e.prices = {r.winner}
      BY <1>4, <2>2 DEF Decided
    <3>2. Cardinality(e.prices) = 1
      BY <3>1, FS_Singleton
    <3>3. e \in closed'
      BY <1>1, <3>2
    <3> QED BY <3>1, <3>3 DEF Decided
  <2> QED BY <2>1, <2>2
<1>5. /\ \A e, f \in closed' : e.market = f.market => e = f
      /\ \A e \in closed' : e.market \notin spoilt'.dropped
  BY <1>1, <1>2 DEF EvidenceInv, DecidedOnce
<1>6. /\ \A t \in Ticks : \A r \in tick[t].todo : r \in ClusterRows
      /\ \A r \in clusters : r \in ClusterRows
  BY DEF EvidenceInv, EvidenceShape
<1>7. DecidedOnce'
  BY <1>1, <1>4, <1>5, <1>6 DEF EvidenceInv, DecidedOnce
<1>8. BaselineIsOld'
  BY <1>1 DEF EvidenceInv, BaselineIsOld
<1> QED BY <1>3, <1>7, <1>8 DEF EvidenceInv

LEMMA ListingDropsKeeps == ASSUME EvidenceInv, NEW e \in closed, ListingDrops(e) PROVE EvidenceInv'
<1>1. /\ closed' = closed \ {e} /\ spoilt' = [spoilt EXCEPT !.dropped = @ \cup {e.market}]
      /\ UNCHANGED <<clusters, tick, baseline, day>>
  BY DEF ListingDrops
<1>2. spoilt \in [failures : Nat, dropped : SUBSET EvidenceMarkets] /\ e.market \in EvidenceMarkets
  BY DEF EvidenceInv, EvidenceShape
<1>3. spoilt' \in [failures : Nat, dropped : SUBSET EvidenceMarkets] /\ spoilt'.dropped = spoilt.dropped \cup {e.market}
  BY <1>1, <1>2
<1>4. EvidenceShape'
  BY <1>1, <1>3 DEF EvidenceInv, EvidenceShape
<1>5. ASSUME NEW r, Decided(r) PROVE Decided(r)'
  BY <1>1, <1>3, <1>5 DEF Decided
<1>6. DecidedOnce'
  BY <1>1, <1>3, <1>5 DEF EvidenceInv, DecidedOnce
<1>7. BaselineIsOld'
  BY <1>1 DEF EvidenceInv, BaselineIsOld
<1> QED BY <1>4, <1>6, <1>7 DEF EvidenceInv

\* A tick goes to another place, with rows that are decided and agree with the others.
LEMMA TickGoes ==
  ASSUME EvidenceInv, NEW t \in Ticks, NEW to \in [pc : {"idle", "insert", "refresh"}, todo : SUBSET ClusterRows],
         tick' = [tick EXCEPT ![t] = to], closed' = closed, clusters' = clusters, day' = day,
         spoilt' \in [failures : Nat, dropped : SUBSET EvidenceMarkets], spoilt'.dropped = spoilt.dropped,
         baseline' \in [days : Nat, count : Nat], baseline'.days <= day, baseline'.count <= Cardinality(clusters),
         \A r \in to.todo : r \in tick[t].todo \/ \E e \in closed : e.market = r.market /\ e.prices = {r.winner}
  PROVE  EvidenceInv'
<1>1. \A u \in Ticks : tick'[u] = IF u = t THEN to ELSE tick[u]
  BY DEF EvidenceInv, EvidenceShape
<1>2. EvidenceShape'
  BY DEF EvidenceInv, EvidenceShape
<1>3. \A r : Decided(r)' <=> Decided(r)
  BY DEF Decided
<1>4. ASSUME NEW r \in to.todo PROVE Decided(r) /\ r \in ClusterRows
  BY DEF EvidenceInv, DecidedOnce, Decided
<1>5. /\ \A u \in Ticks : \A r \in tick[u].todo : r \in ClusterRows /\ Decided(r)
      /\ \A r \in clusters : r \in ClusterRows /\ Decided(r)
  BY DEF EvidenceInv, EvidenceShape, DecidedOnce
<1>6. ASSUME NEW r \in to.todo, NEW q, q.market = r.market,
             q \in to.todo \/ q \in clusters \/ \E u \in Ticks : q \in tick[u].todo
      PROVE  q = r
  <2>1. CASE \E e \in closed : e.market = r.market /\ e.prices = {r.winner}
    BY <1>4, <1>5, <1>6, <2>1, ListedIsOnlyOne
  <2>2. CASE q \in to.todo /\ \E e \in closed : e.market = q.market /\ e.prices = {q.winner}
    BY <1>4, <1>5, <1>6, <2>2, ListedIsOnlyOne
  <2>3. CASE r \in tick[t].todo /\ (q \in tick[t].todo \/ q \in clusters \/ \E u \in Ticks : q \in tick[u].todo)
    BY <1>6, <2>3 DEF EvidenceInv, DecidedOnce
  <2> QED BY <1>6, <2>1, <2>2, <2>3
<1>7. ASSUME NEW u \in Ticks, NEW r \in tick'[u].todo
      PROVE  /\ Decided(r)'
             /\ \A q \in clusters : q.market = r.market => q = r
             /\ \A v \in Ticks : \A q \in tick'[v].todo : q.market = r.market => q = r
  <2>1. CASE u = t
    BY <1>1, <1>3, <1>4, <1>6, <2>1
  <2>2. CASE u # t
    <3>1. r \in tick[u].todo
      BY <1>1, <2>2
    <3>2. ASSUME NEW v \in Ticks, NEW q \in tick'[v].todo, q.market = r.market PROVE q = r
      <4>1. CASE v = t
        BY <1>1, <1>6, <3>1, <3>2, <4>1
      <4>2. CASE v # t
        BY <1>1, <3>1, <3>2, <4>2 DEF EvidenceInv, DecidedOnce
      <4> QED BY <4>1, <4>2
    <3> QED BY <1>3, <1>5, <3>1, <3>2 DEF EvidenceInv, DecidedOnce
  <2> QED BY <2>1, <2>2
<1>8. DecidedOnce'
  BY <1>3, <1>7 DEF EvidenceInv, DecidedOnce
<1>9. BaselineIsOld'
  BY DEF BaselineIsOld
<1> QED BY <1>2, <1>8, <1>9 DEF EvidenceInv

LEMMA EvidenceFacts ==
  ASSUME EvidenceInv
  PROVE  /\ spoilt \in [failures : Nat, dropped : SUBSET EvidenceMarkets]
         /\ baseline \in [days : Nat, count : Nat] /\ baseline.days <= day /\ baseline.count <= Cardinality(clusters)
         /\ \A t \in Ticks : tick[t] \in [pc : {"idle", "insert", "refresh"}, todo : SUBSET ClusterRows]
         /\ IsFiniteSet(clusters) /\ Cardinality(clusters) \in Nat /\ day \in Nat
BY FS_CardinalityType DEF EvidenceInv, EvidenceShape, BaselineIsOld

LEMMA TickFetchesKeeps == ASSUME EvidenceInv, NEW t \in Ticks, TickFetches(t) PROVE EvidenceInv'
<1> DEFINE to == [pc |-> "insert", todo |-> ParseResolvedMarkets(closed)]
<1>1. ParseResolvedMarkets(closed) \in SUBSET ClusterRows
  BY ParsedIsListed
<1>2. to \in [pc : {"idle", "insert", "refresh"}, todo : SUBSET ClusterRows] /\ to.todo = ParseResolvedMarkets(closed)
  BY <1>1
<1>3. tick' = [tick EXCEPT ![t] = to] /\ UNCHANGED <<closed, clusters, baseline, day, spoilt>>
  BY DEF TickFetches
<1>4. \A r \in to.todo : \E e \in closed : e.market = r.market /\ e.prices = {r.winner}
  BY <1>2, ParsedIsListed
<1> HIDE DEF to
<1> QED BY <1>2, <1>3, <1>4, EvidenceFacts, TickGoes

\* The tick ends, or goes on with the rows it has or fewer.
LEMMA TickShrinks ==
  ASSUME EvidenceInv, NEW t \in Ticks, NEW to \in [pc : {"idle", "insert", "refresh"}, todo : SUBSET ClusterRows],
         tick' = [tick EXCEPT ![t] = to], closed' = closed, clusters' = clusters, day' = day,
         spoilt' \in [failures : Nat, dropped : SUBSET EvidenceMarkets], spoilt'.dropped = spoilt.dropped,
         baseline' \in [days : Nat, count : Nat], baseline'.days <= day, baseline'.count <= Cardinality(clusters),
         to.todo \subseteq tick[t].todo
  PROVE  EvidenceInv'
BY TickGoes

LEMMA IdleIsTick ==
  /\ [pc |-> "idle", todo |-> {}] \in [pc : {"idle", "insert", "refresh"}, todo : SUBSET ClusterRows]
  /\ [pc |-> "idle", todo |-> {}].todo = {}
OBVIOUS

LEMMA TickRefreshesKeeps == ASSUME EvidenceInv, NEW t \in Ticks, TickRefreshes(t) PROVE EvidenceInv'
<1>1. /\ baseline' = [days |-> day, count |-> Cardinality(clusters)]
      /\ tick' = [tick EXCEPT ![t] = [pc |-> "idle", todo |-> {}]]
      /\ UNCHANGED <<closed, clusters, day, spoilt>>
  BY DEF TickRefreshes, SyncBaselineRow
<1>2. /\ baseline' \in [days : Nat, count : Nat] /\ baseline'.days <= day /\ baseline'.count <= Cardinality(clusters)
  BY <1>1, EvidenceFacts
<1> QED BY <1>1, <1>2, EvidenceFacts, IdleIsTick, TickShrinks

LEMMA TickFailsKeeps == ASSUME EvidenceInv, NEW t \in Ticks, TickFails(t) PROVE EvidenceInv'
<1>1. /\ spoilt' = [spoilt EXCEPT !.failures = @ + 1]
      /\ tick' = [tick EXCEPT ![t] = [pc |-> "idle", todo |-> {}]]
      /\ UNCHANGED <<closed, clusters, baseline, day>>
  BY DEF TickFails
<1>2. spoilt' \in [failures : Nat, dropped : SUBSET EvidenceMarkets] /\ spoilt'.dropped = spoilt.dropped
  BY <1>1, EvidenceFacts
<1> QED BY <1>1, <1>2, EvidenceFacts, IdleIsTick, TickShrinks

LEMMA TickInsertsKeeps == ASSUME EvidenceInv, NEW t \in Ticks, TickInserts(t) PROVE EvidenceInv'
<1>0. UNCHANGED <<closed, baseline, day, spoilt>>
  BY DEF TickInserts
<1>1. CASE tick[t].todo = {}
  <2> DEFINE to == [tick[t] EXCEPT !.pc = "refresh"]
  <2>1. tick' = [tick EXCEPT ![t] = to] /\ clusters' = clusters
    BY <1>1 DEF TickInserts
  <2>2. to \in [pc : {"idle", "insert", "refresh"}, todo : SUBSET ClusterRows] /\ to.todo = tick[t].todo
    BY EvidenceFacts
  <2> HIDE DEF to
  <2> QED BY <1>0, <2>1, <2>2, EvidenceFacts, TickShrinks
<1>2. CASE tick[t].todo # {}
  <2>1. PICK r \in tick[t].todo : clusters' = clusters \cup {r} /\ tick' = [tick EXCEPT ![t].todo = @ \ {r}]
    BY <1>2 DEF TickInserts
  <2>2. r \in ClusterRows /\ IsFiniteSet(clusters') /\ Cardinality(clusters) <= Cardinality(clusters')
    <3>1. r \in ClusterRows
      BY <2>1, EvidenceFacts
    <3>2. IsFiniteSet(clusters) /\ Cardinality(clusters) \in Nat
      BY EvidenceFacts
    <3>3. /\ IsFiniteSet(clusters \cup {r})
          /\ Cardinality(clusters \cup {r}) = Cardinality(clusters) \/ Cardinality(clusters \cup {r}) = Cardinality(clusters) + 1
      BY <3>2, FS_AddElement
    <3> QED BY <2>1, <3>1, <3>2, <3>3
  <2> DEFINE to == [tick[t] EXCEPT !.todo = tick[t].todo \ {r}]
  <2>3. tick' = [tick EXCEPT ![t] = to]
    BY <2>1
  <2>4. to \in [pc : {"idle", "insert", "refresh"}, todo : SUBSET ClusterRows] /\ to.todo \subseteq tick[t].todo
    BY EvidenceFacts
  <2> HIDE DEF to
  <2>5. \A u \in Ticks : tick'[u] = IF u = t THEN to ELSE tick[u]
    BY <2>3 DEF EvidenceInv, EvidenceShape
  <2>6. \A u \in Ticks : tick'[u].todo \subseteq tick[u].todo
    BY <2>4, <2>5
  <2>7. EvidenceShape'
    BY <1>0, <2>1, <2>2, <2>3, <2>4 DEF EvidenceInv, EvidenceShape
  <2>8. \A q : Decided(q)' <=> Decided(q)
    BY <1>0 DEF Decided
  <2>9. \A q \in clusters' : q = r \/ q \in clusters
    BY <2>1
  <2>10. Decided(r) /\ \A q \in clusters : q.market = r.market => q = r
    BY <2>1 DEF EvidenceInv, DecidedOnce
  <2>11. \A u \in Ticks : \A p \in tick[u].todo : p.market = r.market => p = r
    BY <2>1 DEF EvidenceInv, DecidedOnce
  <2>12. DecidedOnce'
    BY <1>0, <2>6, <2>8, <2>9, <2>10, <2>11 DEF EvidenceInv, DecidedOnce
  <2>13. BaselineIsOld'
    <3>1. Cardinality(clusters') \in Nat
      BY <2>2, FS_CardinalityType
    <3> QED BY <1>0, <2>2, <3>1, EvidenceFacts DEF BaselineIsOld
  <2> QED BY <2>7, <2>12, <2>13 DEF EvidenceInv
<1> QED BY <1>1, <1>2


\* Starts and grants leave the evidence alone.
LEMMA StartupLeaves ==
  ASSUME Startup
  PROVE  UNCHANGED <<closed, clusters, tick, baseline, spoilt, day>>
<1>1. ASSUME NEW id, NEW s, Grant(id, s, 1) PROVE UNCHANGED <<closed, clusters, tick, baseline, spoilt, day>>
  BY <1>1 DEF Grant, evidenceVars
<1>2. ASSUME NEW id, Revoke(id) PROVE UNCHANGED <<closed, clusters, tick, baseline, spoilt, day>>
  BY <1>2 DEF Revoke, evidenceVars
<1>3. ASSUME NEW h, NEW u, GuardChanges(h, u) PROVE UNCHANGED <<closed, clusters, tick, baseline, spoilt, day>>
  BY <1>3 DEF GuardChanges, evidenceVars
<1>4. ASSUME NEW fixed, StartDecides(fixed) PROVE UNCHANGED <<closed, clusters, tick, baseline, spoilt, day>>
  BY <1>4 DEF StartDecides, evidenceVars
<1>5. ASSUME StartReadsPromotion \/ StartReadsLatch \/ StartReadsUnknown \/ StartFails \/ StartAgain
      PROVE  UNCHANGED <<closed, clusters, tick, baseline, spoilt, day>>
  BY <1>5 DEF StartReadsPromotion, StartReadsLatch, StartReadsUnknown, StartFails, StartAgain, evidenceVars
<1> QED BY <1>1, <1>2, <1>3, <1>4, <1>5 DEF Startup

\* Evidence is never taken back: days and rows only become more.
LEMMA EvidenceGrows ==
  ASSUME EvidenceInv, AdmissionNext
  PROVE  day <= day' /\ clusters \subseteq clusters'
<1>1. day \in Nat
  BY EvidenceFacts
<1>2. ASSUME NEW t \in Ticks, TickInserts(t) PROVE day' = day /\ clusters \subseteq clusters'
  <2>1. CASE tick[t].todo = {}
    BY <1>2, <2>1 DEF TickInserts
  <2>2. CASE tick[t].todo # {}
    <3>1. PICK r \in tick[t].todo : clusters' = clusters \cup {r}
      BY <1>2, <2>2 DEF TickInserts
    <3> QED BY <1>2, <3>1 DEF TickInserts
  <2> QED BY <2>1, <2>2
<1>3. ASSUME DayPasses PROVE day' = day + 1 /\ clusters' = clusters
  BY <1>3 DEF DayPasses, evidenceVars
<1>4. ASSUME NEW t \in Ticks, TickFetches(t) \/ TickRefreshes(t) \/ TickFails(t) PROVE day' = day /\ clusters' = clusters
  BY <1>4 DEF TickFetches, TickRefreshes, TickFails
<1>5. ASSUME NEW m, NEW w, MarketCloses(m, w) PROVE day' = day /\ clusters' = clusters
  BY <1>5 DEF MarketCloses
<1>6. ASSUME NEW e, ListingDrops(e) PROVE day' = day /\ clusters' = clusters
  BY <1>6 DEF ListingDrops
<1>7. CASE Evidence
  BY <1>1, <1>2, <1>3, <1>4, <1>5, <1>6, <1>7 DEF Evidence
<1>8. CASE Startup
  <2>1. day' = day /\ clusters' = clusters
    BY <1>8, StartupLeaves
  <2> QED BY <1>1, <2>1
<1> QED BY <1>7, <1>8 DEF AdmissionNext

LEMMA EvidenceStep == ASSUME EvidenceInv, [AdmissionNext]_admissionVars PROVE EvidenceInv'
<1>1. ASSUME UNCHANGED <<closed, clusters, tick, baseline, spoilt, day>> PROVE EvidenceInv'
  BY <1>1 DEF EvidenceInv, EvidenceShape, DecidedOnce, Decided, BaselineIsOld
<1>2. CASE UNCHANGED admissionVars
  BY <1>1, <1>2 DEF admissionVars
<1>3. CASE Startup
  BY <1>1, <1>3, StartupLeaves
<1>4. ASSUME DayPasses PROVE EvidenceInv'
  <2>1. day' = day + 1 /\ UNCHANGED <<closed, clusters, tick, baseline, spoilt>>
    BY <1>4 DEF DayPasses, evidenceVars
  <2>2. \A r : Decided(r)' <=> Decided(r)
    BY <2>1 DEF Decided
  <2>3. DecidedOnce'
    BY <2>1, <2>2 DEF EvidenceInv, DecidedOnce
  <2>4. BaselineIsOld'
    BY <2>1, EvidenceFacts DEF BaselineIsOld
  <2>5. EvidenceShape'
    BY <2>1 DEF EvidenceInv, EvidenceShape
  <2> QED BY <2>3, <2>4, <2>5 DEF EvidenceInv
<1>5. CASE Evidence
  BY <1>4, <1>5, MarketClosesKeeps, ListingDropsKeeps, TickFetchesKeeps, TickInsertsKeeps, TickRefreshesKeeps, TickFailsKeeps DEF Evidence
<1> QED BY <1>2, <1>3, <1>5 DEF AdmissionNext

\* What a start was admitted on stays as it was, while it goes on or others do.
LEMMA FoundedStays ==
  ASSUME EvidenceInv, StartShape, StartIsFounded, AdmissionNext, start' = start,
         Granted \subseteq Granted',
         \A g \in Granted : grants'[g].signer = grants[g].signer /\ grants'[g].expires = grants[g].expires
  PROVE  StartIsFounded'
<1>1. day \in Nat /\ day' \in Nat /\ day <= day' /\ MinDays \in Nat /\ MinClusters \in Nat
  BY EvidenceGrows, EvidenceFacts, EvidenceStep, AdmissionAssumption DEF EvidenceInv, EvidenceShape
<1>2. Cardinality(clusters) <= Cardinality(clusters') /\ Cardinality(clusters) \in Nat /\ Cardinality(clusters') \in Nat
  <2>1. IsFiniteSet(clusters')
    BY EvidenceStep DEF EvidenceInv, EvidenceShape
  <2> QED BY <2>1, EvidenceGrows, FS_Subset, FS_CardinalityType
<1> QED BY <1>1, <1>2 DEF StartIsFounded

LEMMA GrantKeeps ==
  ASSUME EvidenceInv, StartShape, StartIsFounded, AdmissionNext, NEW id \in Grants, NEW s \in {"owner", "other"},
         Grant(id, s, 1)
  PROVE  StartShape' /\ StartIsFounded'
<1> DEFINE new == [signer |-> s, expires |-> day + 1, revoked |-> FALSE]
<1>1. /\ id \notin Granted /\ \A g \in Granted : g < id
      /\ grants' = [g \in Granted \cup {id} |-> IF g \in Granted THEN grants[g] ELSE new]
      /\ start' = start
  BY DEF Grant
<1>2. new \in [signer : {"owner", "other"}, expires : Nat, revoked : BOOLEAN]
  BY EvidenceFacts
<1> HIDE DEF new
<1>3. Granted' = Granted \cup {id} /\ id \in Nat
  BY <1>1, AdmissionAssumption DEF Granted
<1>4. grants' \in [Granted' -> [signer : {"owner", "other"}, expires : Nat, revoked : BOOLEAN]]
  BY <1>1, <1>2, <1>3 DEF StartShape
<1>5. \A g \in Granted' : g <= id
  BY <1>1, <1>3 DEF StartShape
<1>6. \A g \in Granted : grants'[g] = grants[g]
  BY <1>1
<1>7. StartShape'
  BY <1>1, <1>3, <1>4, <1>5 DEF StartShape
<1>8. StartIsFounded'
  BY <1>1, <1>3, <1>6, FoundedStays
<1> QED BY <1>7, <1>8

LEMMA RevokeKeeps ==
  ASSUME EvidenceInv, StartShape, StartIsFounded, AdmissionNext, NEW id \in Granted, Revoke(id)
  PROVE  StartShape' /\ StartIsFounded'
<1> DEFINE new == [grants[id] EXCEPT !.revoked = TRUE]
<1>1. grants' = [grants EXCEPT ![id] = new] /\ start' = start
  BY DEF Revoke
<1>2. /\ new \in [signer : {"owner", "other"}, expires : Nat, revoked : BOOLEAN]
      /\ new.signer = grants[id].signer /\ new.expires = grants[id].expires
  BY DEF StartShape
<1> HIDE DEF new
<1>3. Granted' = Granted
  BY <1>1 DEF Granted
<1>4. StartShape'
  BY <1>1, <1>2, <1>3 DEF StartShape
<1>5. \A g \in Granted : grants'[g].signer = grants[g].signer /\ grants'[g].expires = grants[g].expires
  BY <1>1, <1>2 DEF StartShape
<1>6. StartIsFounded'
  BY <1>1, <1>3, <1>5, FoundedStays
<1> QED BY <1>4, <1>6

\* The rest of a start: the promotion it holds stays.
LEMMA StartGoes ==
  ASSUME StartShape, StartIsFounded, UNCHANGED <<grants, day, clusters>>,
         DOMAIN start' = {"pc", "promo", "at", "g2", "admitted"}, start'.pc \in StartPlaces,
         start'.pc \in {"latch", "unknown", "baseline"} => start'.promo \in Granted /\ start'.admitted = FALSE,
         start'.admitted =>
            /\ start'.promo \in Granted
            /\ grants[start'.promo].signer = "owner" /\ grants[start'.promo].expires > start'.at
            /\ day >= MinDays /\ Cardinality(clusters) >= MinClusters
  PROVE  StartShape' /\ StartIsFounded'
BY DEF StartShape, StartIsFounded, Granted

LEMMA StartReadsPromotionKeeps ==
  ASSUME StartShape, StartIsFounded, StartReadsPromotion PROVE StartShape' /\ StartIsFounded'
<1>0. UNCHANGED <<grants, day, clusters>>
  BY DEF StartReadsPromotion, evidenceVars
<1>1. CASE Valid(day) = {}
  <2>1. start' = [pc |-> "up", promo |-> 0, at |-> 0, g2 |-> FALSE, admitted |-> FALSE]
    BY <1>1 DEF StartReadsPromotion, Down
  <2> QED BY <1>0, <2>1, StartGoes DEF StartPlaces
<1>2. CASE Valid(day) # {}
  <2>1. start' = [pc |-> "latch", promo |-> Max(Valid(day)), at |-> day, g2 |-> FALSE, admitted |-> FALSE]
    BY <1>2 DEF StartReadsPromotion, Down
  <2>2. Valid(day) \subseteq Granted
    BY DEF Valid
  <2>3. PICK b \in Nat : \A g \in Granted : g <= b
    BY DEF StartShape
  <2>4. Max(Valid(day)) \in Valid(day)
    <3>1. Valid(day) \subseteq Nat /\ \A g \in Valid(day) : g <= b
      BY <2>2, <2>3 DEF StartShape
    <3> QED BY <1>2, <3>1, MaxIsIn
  <2>5. start'.promo \in Granted
    BY <2>1, <2>2, <2>4
  <2> QED BY <1>0, <2>1, <2>5, StartGoes DEF StartPlaces
<1> QED BY <1>1, <1>2

LEMMA StartReadsKeeps ==
  ASSUME StartShape, StartIsFounded, StartReadsLatch \/ StartReadsUnknown PROVE StartShape' /\ StartIsFounded'
<1>0. UNCHANGED <<grants, day, clusters>> /\ start.pc \in {"latch", "unknown", "baseline"}
  BY DEF StartReadsLatch, StartReadsUnknown, evidenceVars
<1>1. PICK pc \in {"unknown", "baseline"} : \E g2 : start' = [start EXCEPT !.pc = pc, !.g2 = g2]
  BY DEF StartReadsLatch, StartReadsUnknown
<1>2. /\ DOMAIN start' = DOMAIN start /\ start'.pc = pc /\ start'.promo = start.promo /\ start'.admitted = start.admitted
      /\ start'.at = start.at
  BY <1>1 DEF StartShape
<1> QED BY <1>0, <1>1, <1>2, StartGoes DEF StartShape, StartIsFounded, StartPlaces

LEMMA StartDecidesKeeps ==
  ASSUME EvidenceInv, StartShape, StartIsFounded, NEW fixed, StartDecides(fixed) PROVE StartShape' /\ StartIsFounded'
<1> DEFINE admits == ResolveLiveAdmission(grants[start.promo], BaselineMet, fixed)
<1>0. UNCHANGED <<grants, day, clusters>> /\ start.promo \in Granted /\ start.admitted = FALSE
  BY DEF StartDecides, evidenceVars, StartIsFounded
<1>1. start' = [start EXCEPT !.pc = "up", !.admitted = admits]
  BY DEF StartDecides
<1>2. admits => /\ grants[start.promo].signer = "owner" /\ grants[start.promo].expires > start.at
                /\ baseline.days >= MinDays /\ baseline.count >= MinClusters
  BY DEF ResolveLiveAdmission, BaselineMet
<1>3. admits => day >= MinDays /\ Cardinality(clusters) >= MinClusters
  BY <1>2, EvidenceFacts, AdmissionAssumption
<1> HIDE DEF admits
<1>4. /\ DOMAIN start' = DOMAIN start /\ start'.pc = "up" /\ start'.promo = start.promo /\ start'.admitted = admits
      /\ start'.at = start.at
  BY <1>1 DEF StartShape
<1> QED BY <1>0, <1>2, <1>3, <1>4, StartGoes DEF StartShape, StartPlaces

LEMMA StartEndsKeeps ==
  ASSUME StartShape, StartIsFounded, StartFails \/ StartAgain PROVE StartShape' /\ StartIsFounded'
<1>1. PICK pc \in {"up", "down"} : start' = [pc |-> pc, promo |-> 0, at |-> 0, g2 |-> FALSE, admitted |-> FALSE]
  BY DEF StartFails, StartAgain, Down
<1>2. UNCHANGED <<grants, day, clusters>>
  BY DEF StartFails, StartAgain, evidenceVars
<1> QED BY <1>1, <1>2, StartGoes DEF StartPlaces

LEMMA AdmissionInvStep == ASSUME AdmissionInv, [AdmissionNext]_admissionVars PROVE AdmissionInv'
<1>1. EvidenceInv'
  BY EvidenceStep DEF AdmissionInv
<1>2. CASE UNCHANGED admissionVars
  BY <1>1, <1>2 DEF admissionVars, AdmissionInv, StartShape, StartIsFounded, Granted
<1>3. CASE AdmissionNext
  <2>1. ASSUME UNCHANGED startupVars PROVE StartShape' /\ StartIsFounded'
    <3>1. grants' = grants /\ start' = start /\ Granted' = Granted
      BY <2>1 DEF startupVars, Granted
    <3>2. StartShape'
      BY <3>1 DEF AdmissionInv, StartShape
    <3> QED BY <1>3, <3>1, <3>2, FoundedStays DEF AdmissionInv
  <2>2. CASE Evidence
    <3>1. UNCHANGED startupVars
      BY <2>2 DEF Evidence, MarketCloses, ListingDrops, TickFetches, TickInserts, TickRefreshes, TickFails, DayPasses
    <3> QED BY <1>1, <2>1, <3>1 DEF AdmissionInv
  <2>3. ASSUME NEW h, NEW u, GuardChanges(h, u) PROVE StartShape' /\ StartIsFounded'
    <3>1. grants' = grants /\ start' = start /\ Granted' = Granted
      BY <2>3 DEF GuardChanges, Granted
    <3>2. StartShape'
      BY <3>1 DEF AdmissionInv, StartShape
    <3> QED BY <1>3, <3>1, <3>2, FoundedStays DEF AdmissionInv
  <2>4. CASE Startup
    BY <1>1, <1>3, <2>3, <2>4, GrantKeeps, RevokeKeeps, StartReadsPromotionKeeps, StartReadsKeeps, StartDecidesKeeps,
       StartEndsKeeps DEF Startup, AdmissionInv
  <2> QED BY <1>3, <2>2, <2>4 DEF AdmissionNext
<1> QED BY <1>2, <1>3

\* As many markets are decided as there are rows: none is counted twice.
LEMMA RowsAreMarkets ==
  ASSUME EvidenceInv
  PROVE  Cardinality({r.market : r \in clusters}) = Cardinality(clusters)
<1> DEFINE markets == {r.market : r \in clusters}
           f == [r \in clusters |-> r.market]
<1>1. \A r, q \in clusters : q.market = r.market => q = r
  BY DEF EvidenceInv, DecidedOnce
<1>2. f \in Bijection(clusters, markets)
  BY <1>1 DEF Bijection, Injection, IsInjective, Surjection
<1>3. ExistsBijection(clusters, markets)
  BY <1>2 DEF ExistsBijection
<1> QED BY <1>3, FS_Bijection DEF EvidenceInv, EvidenceShape

LEMMA AdmissionInvInit == ASSUME AdmissionInit PROVE AdmissionInv
<1>1. IsFiniteSet({}) /\ Cardinality({}) = 0
  BY FS_EmptySet
<1>2. EvidenceInv
  BY <1>1 DEF AdmissionInit, EvidenceInv, EvidenceShape, DecidedOnce, BaselineIsOld, ClusterRows
<1>3. Granted = {} /\ grants \in [Granted -> [signer : {"owner", "other"}, expires : Nat, revoked : BOOLEAN]]
  BY DEF AdmissionInit, Granted
<1>4. start = [pc |-> "down", promo |-> 0, at |-> 0, g2 |-> FALSE, admitted |-> FALSE]
  BY DEF AdmissionInit, Down
<1>5. 0 \in Nat /\ \A g \in Granted : g <= 0
  BY <1>3
<1>6. StartShape /\ StartIsFounded
  BY <1>3, <1>4, <1>5 DEF StartShape, StartIsFounded, StartPlaces
<1> QED BY <1>2, <1>6 DEF AdmissionInv

LEMMA AdmissionInvMeans == ASSUME AdmissionInv PROVE AdmittedOnEvidence
BY RowsAreMarkets DEF AdmissionInv, StartIsFounded, AdmittedOnEvidence

\* Whoever is admitted has a promotion of the owner and enough markets, each counted
\* once, on every behaviour of the plane.
THEOREM AdmittedHaveEvidence == PlaneSpec => []AdmittedOnEvidence
<1>1. PlaneInit => AdmissionInv
  BY AdmissionInvInit DEF PlaneInit
<1>2. AdmissionInv /\ [PlaneNext]_planeVars => AdmissionInv'
  BY AdmissionSteps, AdmissionInvStep
<1>3. AdmissionInv => AdmittedOnEvidence
  BY AdmissionInvMeans
<1> QED BY <1>1, <1>2, <1>3, PTL DEF PlaneSpec

\* The same where the collection of evidence, grants, revocations and starts all
\* interleave, which the runs check apart from each other.
THEOREM AdmittedWhileCollecting ==
  AdmissionInit /\ [][AdmissionNext]_admissionVars => []AdmittedOnEvidence
<1>1. AdmissionInit => AdmissionInv
  BY AdmissionInvInit
<1>2. AdmissionInv /\ [AdmissionNext]_admissionVars => AdmissionInv'
  BY AdmissionInvStep
<1>3. AdmissionInv => AdmittedOnEvidence
  BY AdmissionInvMeans
<1> QED BY <1>1, <1>2, <1>3, PTL


-----------------------------------------------------------------------------
(***************************************************************************)
(* LiveFeed: the book follows the venue.                                   *)
(***************************************************************************)

\* The book after one message.
AfterMessage(b, message) == IF message.kind = "market" THEN b ELSE ApplyFrame(b, message)

IsWire(w) == \E wireSet : w \in Seq(wireSet)

\* Once all that is under way has arrived, message by message, the book is the venue's.
ArrivesAtVenue ==
    \E states : /\ states[0] = book
                /\ \A i \in 1..Len(wire) : states[i] = AfterMessage(states[i - 1], wire[i])
                /\ states[Len(wire)] = [ready |-> TRUE, levels |-> lob]

FeedInv == IsWire(wire) /\ (socket = "open" => ArrivesAtVenue)

LEMMA FeedSteps == ASSUME [PlaneNext]_planeVars PROVE [FeedNext]_feedVars
BY DEF PlaneNext, planeVars, Group1, Group2, Group3, Group4, Group5

LEMMA NothingIsWire == IsWire(<<>>)
<1>1. <<>> \in Seq({})
  BY EmptySeq
<1> QED BY <1>1 DEF IsWire

LEMMA WireGrows ==
  ASSUME NEW w, IsWire(w), NEW message
  PROVE  /\ IsWire(Append(w, message)) /\ Len(w) \in Nat /\ Len(Append(w, message)) = Len(w) + 1
         /\ \A i \in 1..Len(w) : Append(w, message)[i] = w[i]
         /\ Append(w, message)[Len(w) + 1] = message
<1>1. PICK wireSet : w \in Seq(wireSet)
  BY DEF IsWire
<1> DEFINE more == wireSet \cup {message}
<1>2. w \in Seq(more) /\ message \in more
  BY <1>1, SeqMonotonic
<1> HIDE DEF more
<1> QED BY <1>2, AppendProperties, LenProperties DEF IsWire

LEMMA WireShrinks ==
  ASSUME NEW w, IsWire(w), w # <<>>
  PROVE  /\ IsWire(Tail(w)) /\ Len(w) \in Nat \ {0} /\ Len(Tail(w)) = Len(w) - 1 /\ Head(w) = w[1]
         /\ \A i \in 1..Len(Tail(w)) : Tail(w)[i] = w[i + 1]
<1>1. PICK wireSet : w \in Seq(wireSet)
  BY DEF IsWire
<1> QED BY <1>1, HeadTailProperties, EmptySeq, LenProperties DEF IsWire

\* A message that leads from the venue's book to the venue's next book.
LEMMA SendingKeeps ==
  ASSUME IsWire(wire), ArrivesAtVenue, NEW message, wire' = Append(wire, message), book' = book,
         AfterMessage([ready |-> TRUE, levels |-> lob], message) = [ready |-> TRUE, levels |-> lob']
  PROVE  ArrivesAtVenue'
<1>1. PICK states : /\ states[0] = book
                    /\ \A i \in 1..Len(wire) : states[i] = AfterMessage(states[i - 1], wire[i])
                    /\ states[Len(wire)] = [ready |-> TRUE, levels |-> lob]
  BY DEF ArrivesAtVenue
<1> DEFINE more == [i \in Nat |-> IF i <= Len(wire) THEN states[i] ELSE [ready |-> TRUE, levels |-> lob']]
<1>2. /\ Len(wire) \in Nat /\ Len(wire') = Len(wire) + 1 /\ wire'[Len(wire) + 1] = message
      /\ \A i \in 1..Len(wire) : wire'[i] = wire[i]
  BY WireGrows
<1>3. /\ \A i \in 0..Len(wire) : more[i] = states[i]
      /\ more[Len(wire) + 1] = [ready |-> TRUE, levels |-> lob']
  BY <1>2
<1> HIDE DEF more
<1>4. ASSUME NEW i \in 1..Len(wire') PROVE more[i] = AfterMessage(more[i - 1], wire'[i])
  <2>1. CASE i \in 1..Len(wire)
    <3>1. i - 1 \in 0..Len(wire) /\ i \in 0..Len(wire)
      BY <1>2, <2>1
    <3> QED BY <1>1, <1>2, <1>3, <2>1, <3>1
  <2>2. CASE i = Len(wire) + 1
    <3>1. i - 1 = Len(wire) /\ Len(wire) \in 0..Len(wire)
      BY <1>2, <2>2
    <3>2. more[i - 1] = [ready |-> TRUE, levels |-> lob]
      BY <1>1, <1>3, <3>1
    <3> QED BY <1>2, <1>3, <2>2, <3>2
  <2> QED BY <1>2, <2>1, <2>2
<1>5. more[0] = book'
  BY <1>1, <1>2, <1>3
<1> QED BY <1>2, <1>3, <1>4, <1>5 DEF ArrivesAtVenue

LEMMA VenueBookChangesKeeps == ASSUME FeedInv, NEW p, VenueBookChanges(p) PROVE FeedInv'
<1>1. /\ lob' = (IF p \in lob THEN lob \ {p} ELSE lob \cup {p}) /\ UNCHANGED <<socket, book>>
      /\ wire' = Sent([kind |-> "delta", level |-> p, gone |-> p \in lob])
  BY DEF VenueBookChanges
<1>2. CASE socket = "open"
  <2> DEFINE message == [kind |-> "delta", level |-> p, gone |-> p \in lob]
             b == [ready |-> TRUE, levels |-> lob]
  <2>1. message.kind = "delta" /\ message.level = p /\ (message.gone <=> p \in lob)
    OBVIOUS
  <2>2. AfterMessage(b, message) = [b EXCEPT !.levels = IF message.gone THEN @ \ {p} ELSE @ \cup {p}]
    BY <2>1 DEF AfterMessage, ApplyFrame
  <2>3. wire' = Append(wire, message)
    BY <1>1, <1>2 DEF Sent
  <2>4. AfterMessage(b, message) = [ready |-> TRUE, levels |-> lob']
    <3>1. lob' = IF message.gone THEN lob \ {p} ELSE lob \cup {p}
      BY <1>1, <2>1
    <3> HIDE DEF message
    <3> QED BY <2>2, <3>1
  <2> HIDE DEF message
  <2>5. IsWire(wire) /\ ArrivesAtVenue
    BY <1>2 DEF FeedInv
  <2>6. ArrivesAtVenue'
    BY <1>1, <2>3, <2>4, <2>5, SendingKeeps
  <2>7. IsWire(wire')
    BY <2>3, <2>5, WireGrows
  <2> QED BY <2>6, <2>7 DEF FeedInv
<1>3. CASE socket # "open"
  BY <1>1, <1>3 DEF Sent, FeedInv
<1> QED BY <1>2, <1>3

LEMMA VenueRuleChangesKeeps == ASSUME FeedInv, NEW v, VenueRuleChanges(v) PROVE FeedInv'
<1> DEFINE message == [kind |-> "market", rule |-> v]
<1>1. socket = "open" /\ wire' = Append(wire, message) /\ UNCHANGED <<socket, book, lob>>
  BY DEF VenueRuleChanges
<1>2. AfterMessage([ready |-> TRUE, levels |-> lob], message) = [ready |-> TRUE, levels |-> lob']
  BY <1>1 DEF AfterMessage
<1> HIDE DEF message
<1> QED BY <1>1, <1>2, SendingKeeps, WireGrows DEF FeedInv

LEMMA MessageArrivesKeeps == ASSUME FeedInv, MessageArrives PROVE FeedInv'
<1>1. socket = "open" /\ wire # <<>> /\ wire' = Tail(wire) /\ UNCHANGED <<socket, lob>>
  BY DEF MessageArrives
<1>2. /\ IsWire(wire') /\ Len(wire) \in Nat \ {0} /\ Len(wire') = Len(wire) - 1 /\ Head(wire) = wire[1]
      /\ \A i \in 1..Len(wire') : wire'[i] = wire[i + 1]
  BY <1>1, WireShrinks DEF FeedInv
<1>3. book' = AfterMessage(book, wire[1])
  BY <1>2 DEF MessageArrives, AfterMessage
<1>4. PICK states : /\ states[0] = book
                    /\ \A i \in 1..Len(wire) : states[i] = AfterMessage(states[i - 1], wire[i])
                    /\ states[Len(wire)] = [ready |-> TRUE, levels |-> lob]
  BY <1>1 DEF FeedInv, ArrivesAtVenue
<1> DEFINE later == [i \in Nat |-> states[i + 1]]
<1>5. \A i \in Nat : later[i] = states[i + 1]
  OBVIOUS
<1> HIDE DEF later
<1>6. later[0] = book'
  <2>1. 1 \in 1..Len(wire) /\ 1 - 1 = 0 /\ 0 + 1 = 1
    BY <1>2
  <2> QED BY <1>3, <1>4, <1>5, <2>1
<1>7. ASSUME NEW i \in 1..Len(wire') PROVE later[i] = AfterMessage(later[i - 1], wire'[i])
  <2>1. i + 1 \in 1..Len(wire) /\ (i + 1) - 1 = i /\ (i - 1) + 1 = i /\ i \in Nat /\ i - 1 \in Nat
    BY <1>2
  <2>2. later[i] = states[i + 1] /\ later[i - 1] = states[i]
    BY <1>5, <2>1
  <2>3. states[i + 1] = AfterMessage(states[(i + 1) - 1], wire[i + 1])
    BY <1>4, <2>1
  <2> QED BY <1>2, <2>1, <2>2, <2>3
<1>8. later[Len(wire')] = [ready |-> TRUE, levels |-> lob']
  BY <1>1, <1>2, <1>4, <1>5
<1> QED BY <1>1, <1>2, <1>6, <1>7, <1>8 DEF FeedInv, ArrivesAtVenue

LEMMA OpensKeeps == ASSUME FeedInv, Opens PROVE FeedInv'
<1> DEFINE message == [kind |-> "snapshot", levels |-> lob]
           states == [i \in Nat |-> IF i = 0 THEN book ELSE [ready |-> TRUE, levels |-> lob]]
<1>1. wire' = <<message>> /\ UNCHANGED <<lob, book>>
  BY DEF Opens
<1>2. AfterMessage(book, message) = [ready |-> TRUE, levels |-> lob]
  BY DEF AfterMessage, ApplyFrame
<1>3. states[0] = book /\ states[1] = [ready |-> TRUE, levels |-> lob]
  OBVIOUS
<1> HIDE DEF message, states
<1>4. <<message>> \in Seq({message}) /\ Len(<<message>>) = 1 /\ <<message>>[1] = message
  OBVIOUS
<1>5. \A i \in 1..Len(wire') : states[i] = AfterMessage(states[i - 1], wire'[i])
  <2>1. ASSUME NEW i \in 1..Len(wire') PROVE i = 1
    BY <1>1, <1>4
  <2>2. states[1] = AfterMessage(states[1 - 1], wire'[1])
    <3>1. 1 - 1 = 0 /\ wire'[1] = message
      BY <1>1, <1>4
    <3> QED BY <1>2, <1>3, <3>1
  <2> QED BY <2>1, <2>2
<1> QED BY <1>1, <1>3, <1>4, <1>5 DEF FeedInv, IsWire, ArrivesAtVenue

\* Every other step of the connection closes it, or leaves it and its wire alone.
LEMMA ConnectionKeeps ==
  ASSUME FeedInv, UNCHANGED <<lob, book>>,
         \/ socket' # "open" /\ wire' = <<>>
         \/ UNCHANGED <<socket, wire>>
  PROVE  FeedInv'
BY NothingIsWire DEF FeedInv, ArrivesAtVenue

LEMMA FeedInvStep == ASSUME FeedInv, [FeedNext]_feedVars PROVE FeedInv'
<1>1. CASE UNCHANGED feedVars
  BY <1>1, ConnectionKeeps DEF feedVars
<1>2. CASE FeedStarts
  BY <1>2, ConnectionKeeps DEF FeedStarts, Connects
<1>3. CASE SocketDrops
  BY <1>3, ConnectionKeeps DEF SocketDrops
<1>4. CASE CloseEventArrives
  BY <1>4, ConnectionKeeps DEF CloseEventArrives
<1>5. CASE ReconnectFires
  <2>1. \/ socket' # "open" /\ wire' = <<>>
        \/ UNCHANGED <<socket, wire>>
    BY <1>5 DEF ReconnectFires, Connects
  <2> QED BY <1>5, <2>1, ConnectionKeeps DEF ReconnectFires
<1>6. CASE FeedStops
  BY <1>6, ConnectionKeeps DEF FeedStops, ClosesSocket
<1>7. ASSUME NEW from, TimeoutFires(from) PROVE FeedInv'
  <2>1. \/ socket' # "open" /\ wire' = <<>>
        \/ UNCHANGED <<socket, wire>>
    BY <1>7 DEF TimeoutFires, ClosesSocket
  <2> QED BY <1>7, <2>1, ConnectionKeeps DEF TimeoutFires
<1> QED BY <1>1, <1>2, <1>3, <1>4, <1>5, <1>6, <1>7, OpensKeeps, VenueBookChangesKeeps, VenueRuleChangesKeeps,
           MessageArrivesKeeps DEF FeedNext

\* While a socket is open and nothing is under way on it, the book is the venue's,
\* whatever was lost with earlier connections.
THEOREM BookIsVenues == PlaneSpec => []BookFollowsVenue
<1>1. PlaneInit => FeedInv
  BY NothingIsWire DEF PlaneInit, FeedInit, FeedInv
<1>2. FeedInv /\ [PlaneNext]_planeVars => FeedInv'
  BY FeedSteps, FeedInvStep
<1>3. FeedInv => BookFollowsVenue
  <2>1. ASSUME FeedInv, socket = "open", wire = <<>> PROVE book.levels = lob
    <3>1. Len(wire) = 0
      BY <2>1, EmptySeq
    <3> QED BY <2>1, <3>1 DEF FeedInv, ArrivesAtVenue
  <2> QED BY <2>1 DEF BookFollowsVenue
<1> QED BY <1>1, <1>2, <1>3, PTL DEF PlaneSpec

-----------------------------------------------------------------------------
(***************************************************************************)
(* Upkeep: a restore that nobody disturbed brings one moment back.         *)
(***************************************************************************)

HomeFiles == {"env", "keystore", "latch", "wallets"}

UpkeepShape ==
    /\ home \in [HomeFiles -> Int] /\ home["latch"] # Missing
    /\ DOMAIN directory = {"files", "manifest"} /\ directory.files \in [Files -> Int]
    /\ moved \in [home : Nat, directory : Nat, owner : Nat]
    /\ DOMAIN backup = {"at", "runs", "encrypt", "wrote", "of", "seen"} /\ backup.at \in 0..5 /\ backup.seen \in Nat
    /\ DOMAIN restore = {"at", "runs", "manifest", "did", "home", "directory"}
    /\ restore.home \in Nat /\ restore.directory \in Nat

\* What is listed of the moment a backup began is what was there, or a table that
\* could not be read.
OfOneMoment(lists, moment) ==
    /\ "env" \in DOMAIN lists => lists["env"] = moment["env"]
    /\ "keystore" \in DOMAIN lists => lists["keystore"] = moment["keystore"]
    /\ "latch" \in DOMAIN lists => lists["latch"] \in {Unexported, moment["latch"]}

\* Until something else changes the home directory a backup sees what it began with.
BackupIsOfOneMoment ==
    backup.at # 0 =>
        /\ backup.seen <= moved.home
        /\ moved.home = backup.seen => home = backup.of /\ OfOneMoment(backup.wrote, backup.of)
        /\ backup.at = 5 => "latch" \in DOMAIN backup.wrote

\* A manifest that lists the settings is that of a backup that came to its end.
ManifestIsOfOneMoment(m) ==
    /\ ~m.torn => OfOneMoment(m.lists, m.of)
    /\ "env" \in DOMAIN m.lists => "latch" \in DOMAIN m.lists

\* Until something else writes to either directory, a restore copies what it verified.
RestoreCopies ==
    /\ restore.home <= moved.home /\ restore.directory <= moved.directory
    /\ restore.at # Idle =>
          /\ ManifestIsOfOneMoment(restore.manifest)
          /\ restore.directory = moved.directory => directory.manifest = restore.manifest /\ Restorable(directory)
          /\ restore.home = moved.home /\ restore.directory = moved.directory /\ ~restore.manifest.torn
                => \A f \in restore.did : home[f] = restore.manifest.of[f]

UpkeepInv ==
    UpkeepShape /\ BackupIsOfOneMoment /\ ManifestIsOfOneMoment(directory.manifest) /\ RestoreCopies

LEMMA UpkeepSteps == ASSUME [PlaneNext]_planeVars PROVE [UpkeepNext]_upkeepVars
BY DEF PlaneNext, planeVars, Group1, Group2, Group3, Group4, Group5, UpkeepNext

LEMMA BackupNames ==
  /\ BackupOrder[1] = "env" /\ BackupOrder[2] = "keystore" /\ BackupOrder[3] = "wallets" /\ BackupOrder[4] = "latch"
  /\ \A i : i \in DOMAIN BackupOrder <=> i \in 1..4
  /\ Len(BackupOrder) = 4
BY DEF BackupOrder

\* A step that leaves the home directory, the backup and the counter alone.
LEMMA BackupStays ==
  ASSUME BackupIsOfOneMoment, UNCHANGED <<home, backup>>, moved'.home = moved.home
  PROVE  BackupIsOfOneMoment'
BY DEF BackupIsOfOneMoment

\* A change to the home directory ends what a backup may say of one moment.
LEMMA BackupIsLate ==
  ASSUME UpkeepShape, BackupIsOfOneMoment, backup' = backup, moved'.home = moved.home + 1
  PROVE  BackupIsOfOneMoment'
<1>1. moved.home \in Nat /\ backup.seen \in Nat
  BY DEF UpkeepShape
<1> QED BY <1>1 DEF BackupIsOfOneMoment

\* A write to either directory by somebody else ends what a restore may say.
LEMMA RestoreIsDisturbed ==
  ASSUME UpkeepShape, RestoreCopies, restore' = restore,
         \/ moved'.home = moved.home + 1 /\ moved'.directory = moved.directory /\ directory' = directory
         \/ moved'.home = moved.home /\ moved'.directory = moved.directory + 1
  PROVE  RestoreCopies'
<1>1. {moved.home, moved.directory, restore.home, restore.directory} \subseteq Nat
  BY DEF UpkeepShape
<1> QED BY <1>1 DEF RestoreCopies

LEMMA RestoreStays ==
  ASSUME RestoreCopies, UNCHANGED <<home, directory, restore, moved>>
  PROVE  RestoreCopies'
BY DEF RestoreCopies

LEMMA BackupStartsKeeps ==
  ASSUME UpkeepInv, NEW encrypt, NEW passphrase, BackupStarts(encrypt, passphrase) PROVE UpkeepInv'
<1>1. /\ backup' = [at |-> 1, runs |-> backup.runs + 1, encrypt |-> encrypt, wrote |-> << >>, of |-> home, seen |-> moved.home]
      /\ UNCHANGED <<home, directory, restore, moved>>
  BY DEF BackupStarts
<1>2. DOMAIN <<>> = {}
  OBVIOUS
<1>3. /\ DOMAIN backup' = {"at", "runs", "encrypt", "wrote", "of", "seen"} /\ backup'.at = 1 /\ backup'.seen = moved.home
      /\ backup'.of = home /\ DOMAIN backup'.wrote = {}
  BY <1>1, <1>2
<1>4. UpkeepShape'
  BY <1>1, <1>3 DEF UpkeepInv, UpkeepShape
<1>5. BackupIsOfOneMoment'
  BY <1>1, <1>3 DEF UpkeepInv, UpkeepShape, BackupIsOfOneMoment, OfOneMoment
<1> QED BY <1>1, <1>4, <1>5, RestoreStays DEF UpkeepInv

LEMMA BackupCutShortKeeps == ASSUME UpkeepInv, BackupCutShort PROVE UpkeepInv'
<1>1. backup' = [backup EXCEPT !.at = 0, !.wrote = << >>, !.of = FirstHome] /\ UNCHANGED <<home, directory, restore, moved>>
  BY DEF BackupCutShort
<1>2. DOMAIN backup' = DOMAIN backup /\ backup'.at = 0 /\ backup'.seen = backup.seen
  BY <1>1 DEF UpkeepInv, UpkeepShape
<1>3. UpkeepShape'
  BY <1>1, <1>2 DEF UpkeepInv, UpkeepShape
<1>4. BackupIsOfOneMoment'
  BY <1>2 DEF BackupIsOfOneMoment
<1> QED BY <1>1, <1>3, <1>4, RestoreStays DEF UpkeepInv

LEMMA BackupEndsKeeps == ASSUME UpkeepInv, BackupEnds PROVE UpkeepInv'
<1> DEFINE manifest == [lists |-> backup.wrote, of |-> backup.of, torn |-> moved.home # backup.seen]
<1>1. /\ backup.at = 5 /\ backup' = [backup EXCEPT !.at = 0, !.wrote = << >>, !.of = FirstHome]
      /\ directory' = [directory EXCEPT !.manifest = manifest]
      /\ moved' = [moved EXCEPT !.directory = @ + 1] /\ UNCHANGED <<home, restore>>
  BY BackupNames DEF BackupEnds
<1>2. /\ manifest.lists = backup.wrote /\ manifest.of = backup.of
      /\ ~manifest.torn => moved.home = backup.seen
  OBVIOUS
<1> HIDE DEF manifest
<1>3. /\ DOMAIN directory' = DOMAIN directory /\ directory'.files = directory.files /\ directory'.manifest = manifest
      /\ DOMAIN backup' = DOMAIN backup /\ backup'.at = 0 /\ backup'.seen = backup.seen
      /\ moved' \in [home : Nat, directory : Nat, owner : Nat] /\ moved'.home = moved.home /\ moved'.directory = moved.directory + 1
  BY <1>1 DEF UpkeepInv, UpkeepShape
<1>4. UpkeepShape'
  BY <1>1, <1>3 DEF UpkeepInv, UpkeepShape
<1>5. BackupIsOfOneMoment'
  BY <1>3 DEF BackupIsOfOneMoment
<1>6. ManifestIsOfOneMoment(manifest)
  BY <1>1, <1>2 DEF UpkeepInv, BackupIsOfOneMoment, ManifestIsOfOneMoment
<1>7. RestoreCopies'
  BY <1>1, <1>3, RestoreIsDisturbed DEF UpkeepInv
<1> QED BY <1>3, <1>4, <1>5, <1>6, <1>7 DEF UpkeepInv

\* A file is written, with what the home directory has or with what says it could not be read.
LEMMA FileWritten ==
  ASSUME UpkeepInv, NEW name \in Files, NEW content \in Int,
         backup.at \in 1..4, directory' = [directory EXCEPT !.files[name] = content],
         backup' = [backup EXCEPT !.at = @ + 1,
                    !.wrote = [f \in DOMAIN @ \cup {name} |-> IF f = name THEN content ELSE @[f]]],
         moved' = [moved EXCEPT !.directory = @ + 1], UNCHANGED <<home, restore>>,
         name \in {"env", "keystore"} => content = home[name],
         name = "latch" => content \in {Unexported, home["latch"]},
         backup.at = 4 => name = "latch"
  PROVE  UpkeepInv'
<1> DEFINE wrote == [f \in DOMAIN backup.wrote \cup {name} |-> IF f = name THEN content ELSE backup.wrote[f]]
<1>1. /\ DOMAIN wrote = {name} \cup DOMAIN backup.wrote /\ wrote[name] = content
      /\ \A f \in DOMAIN backup.wrote : f # name => wrote[f] = backup.wrote[f]
  OBVIOUS
<1>2. backup' = [backup EXCEPT !.at = backup.at + 1, !.wrote = wrote]
  OBVIOUS
<1> HIDE DEF wrote
<1>3. /\ DOMAIN backup' = DOMAIN backup /\ backup'.at = backup.at + 1 /\ backup'.wrote = wrote /\ backup'.of = backup.of
      /\ backup'.seen = backup.seen
  BY <1>2 DEF UpkeepInv, UpkeepShape
<1>4. directory' = [directory EXCEPT !.files = [directory.files EXCEPT ![name] = content]]
  OBVIOUS
<1>5. /\ DOMAIN directory' = DOMAIN directory /\ directory'.files \in [Files -> Int] /\ directory'.manifest = directory.manifest
  BY <1>4 DEF UpkeepInv, UpkeepShape
<1>6. moved' \in [home : Nat, directory : Nat, owner : Nat] /\ moved'.home = moved.home /\ moved'.directory = moved.directory + 1
  BY DEF UpkeepInv, UpkeepShape
<1>7. UpkeepShape'
  BY <1>3, <1>5, <1>6 DEF UpkeepInv, UpkeepShape
<1>8. BackupIsOfOneMoment'
  <2>1. backup.at # 0 /\ backup.at \in Nat
    OBVIOUS
  <2>2. moved.home = backup.seen => OfOneMoment(wrote, backup.of)
    BY <1>1, <2>1 DEF UpkeepInv, BackupIsOfOneMoment, OfOneMoment
  <2>3. backup'.at = 5 => "latch" \in DOMAIN wrote
    BY <1>1, <1>3, <2>1
  <2> QED BY <1>3, <1>6, <2>1, <2>2, <2>3 DEF UpkeepInv, BackupIsOfOneMoment
<1>9. RestoreCopies'
  BY <1>6, RestoreIsDisturbed DEF UpkeepInv
<1> QED BY <1>5, <1>7, <1>8, <1>9 DEF UpkeepInv

LEMMA BackupWritesKeeps == ASSUME UpkeepInv, NEW dbUp, BackupWrites(dbUp) PROVE UpkeepInv'
<1> DEFINE source == BackupOrder[backup.at]
           name == IF source = "env" /\ ~backup.encrypt THEN "redacted" ELSE source
           content == IF source \in {"wallets", "latch"} /\ ~dbUp THEN Unexported ELSE home[source]
<1>1. /\ backup.at \in 1..4 /\ UNCHANGED <<home, restore>>
      /\ IF content = Missing
         THEN UNCHANGED <<directory, moved>> /\ backup' = [backup EXCEPT !.at = @ + 1]
         ELSE /\ directory' = [directory EXCEPT !.files[name] = content]
              /\ backup' = [backup EXCEPT !.at = @ + 1,
                    !.wrote = [f \in DOMAIN @ \cup {name} |-> IF f = name THEN content ELSE @[f]]]
              /\ moved' = [moved EXCEPT !.directory = @ + 1]
  BY BackupNames DEF BackupWrites
<1>2. /\ source \in {"env", "keystore", "wallets", "latch"}
      /\ backup.at = 4 <=> source = "latch"
  <2>1. backup.at = 1 \/ backup.at = 2 \/ backup.at = 3 \/ backup.at = 4
    BY <1>1
  <2> QED BY <2>1, BackupNames
<1> HIDE DEF source
<1>3. name \in Files /\ (name \in {"env", "keystore", "latch"} => name = source) /\ (source = "latch" => name = "latch")
  BY <1>2 DEF Files
<1>4. /\ content \in Int
      /\ name \in {"env", "keystore"} => content = home[name]
      /\ name = "latch" => content \in {Unexported, home["latch"]}
      /\ source = "latch" => content # Missing
  <2>1. source \in HomeFiles
    BY <1>2 DEF HomeFiles
  <2> QED BY <1>2, <1>3, <2>1 DEF UpkeepInv, UpkeepShape, Unexported, Missing
<1> HIDE DEF name, content
<1>5. CASE content # Missing
  BY <1>1, <1>2, <1>3, <1>4, <1>5, FileWritten
<1>6. CASE content = Missing
  <2>1. backup' = [backup EXCEPT !.at = @ + 1] /\ UNCHANGED <<home, directory, restore, moved>>
    BY <1>1, <1>6
  <2>2. /\ DOMAIN backup' = DOMAIN backup /\ backup'.at = backup.at + 1 /\ backup'.wrote = backup.wrote
        /\ backup'.of = backup.of /\ backup'.seen = backup.seen /\ backup.at \in 1..3
    BY <1>1, <1>2, <1>4, <1>6, <2>1 DEF UpkeepInv, UpkeepShape
  <2>3. UpkeepShape'
    BY <2>1, <2>2 DEF UpkeepInv, UpkeepShape
  <2>4. BackupIsOfOneMoment'
    BY <2>1, <2>2 DEF UpkeepInv, BackupIsOfOneMoment
  <2> QED BY <2>1, <2>3, <2>4, RestoreStays DEF UpkeepInv
<1> QED BY <1>5, <1>6

LEMMA RestoreStartsKeeps == ASSUME UpkeepInv, RestoreStarts PROVE UpkeepInv'
<1>1. /\ restore' = [at |-> "env", runs |-> restore.runs + 1, manifest |-> directory.manifest, did |-> {},
                     home |-> moved.home, directory |-> moved.directory]
      /\ Restorable(directory) /\ UNCHANGED <<home, directory, backup, moved>>
  BY DEF RestoreStarts
<1>2. /\ DOMAIN restore' = {"at", "runs", "manifest", "did", "home", "directory"}
      /\ restore'.manifest = directory.manifest /\ restore'.did = {} /\ restore'.home = moved.home
      /\ restore'.directory = moved.directory
  BY <1>1
<1>3. UpkeepShape'
  BY <1>1, <1>2 DEF UpkeepInv, UpkeepShape
<1>4. RestoreCopies'
  BY <1>1, <1>2 DEF UpkeepInv, UpkeepShape, RestoreCopies
<1> QED BY <1>1, <1>3, <1>4, BackupStays DEF UpkeepInv

\* A file is brought back: from what is listed, as long as nobody writes beside it.
LEMMA FileBroughtBack ==
  ASSUME UpkeepInv, restore.at # Idle, NEW name \in {"env", "keystore", "latch"}, NEW after, Writes(name, directory.files[name], after),
         UNCHANGED <<directory, backup>>, name = "latch" => directory.files[name] >= 0,
         restore.directory = moved.directory => name \in DOMAIN restore.manifest.lists
  PROVE  UpkeepInv'
<1>1. /\ home' = [home EXCEPT ![name] = directory.files[name]] /\ moved' = [moved EXCEPT !.home = @ + 1]
      /\ restore' = [restore EXCEPT !.at = after, !.home = @ + 1, !.did = @ \cup {name}]
  BY DEF Writes
<1>2. directory.files[name] \in Int /\ name \in HomeFiles
  BY DEF UpkeepInv, UpkeepShape, HomeFiles, Files
<1>3. /\ DOMAIN restore' = DOMAIN restore /\ restore'.manifest = restore.manifest /\ restore'.did = restore.did \cup {name}
      /\ restore'.home = restore.home + 1 /\ restore'.directory = restore.directory
  BY <1>1 DEF UpkeepInv, UpkeepShape
<1>4. moved' \in [home : Nat, directory : Nat, owner : Nat] /\ moved'.home = moved.home + 1 /\ moved'.directory = moved.directory
  BY <1>1 DEF UpkeepInv, UpkeepShape
<1>5. /\ home' \in [HomeFiles -> Int] /\ home'[name] = directory.files[name] /\ home'["latch"] # Missing
      /\ \A f \in HomeFiles : f # name => home'[f] = home[f]
  <2>1. home' \in [HomeFiles -> Int] /\ \A f \in HomeFiles : home'[f] = IF f = name THEN directory.files[name] ELSE home[f]
    BY <1>1, <1>2 DEF UpkeepInv, UpkeepShape
  <2>2. "latch" \in HomeFiles /\ home["latch"] # Missing
    BY DEF UpkeepInv, UpkeepShape, HomeFiles
  <2>3. home'["latch"] # Missing
    BY <1>2, <2>1, <2>2 DEF Missing
  <2> QED BY <1>2, <2>1, <2>3
<1>6. UpkeepShape'
  BY <1>3, <1>4, <1>5 DEF UpkeepInv, UpkeepShape
<1>7. BackupIsOfOneMoment'
  BY <1>4, BackupIsLate DEF UpkeepInv
<1>8. {moved.home, moved.directory, restore.home, restore.directory} \subseteq Nat
  BY DEF UpkeepInv, UpkeepShape
<1>9. RestoreCopies'
  <2>1. /\ ManifestIsOfOneMoment(restore'.manifest)
        /\ restore'.directory = moved'.directory => directory'.manifest = restore'.manifest /\ Restorable(directory)'
    <3>1. Restorable(directory)' <=> Restorable(directory)
      BY DEF Restorable, Verified
    <3> QED BY <1>3, <1>4, <3>1 DEF UpkeepInv, RestoreCopies
  <2>2. ASSUME restore'.home = moved'.home, restore'.directory = moved'.directory, ~restore'.manifest.torn, NEW f \in restore'.did
        PROVE  home'[f] = restore'.manifest.of[f]
    <3>1. restore.home = moved.home /\ restore.directory = moved.directory /\ ~restore.manifest.torn
      BY <1>3, <1>4, <1>8, <2>2
    <3>2. CASE f = name
      <4>1. name \in DOMAIN restore.manifest.lists /\ directory.manifest = restore.manifest /\ Restorable(directory)
        BY <3>1 DEF UpkeepInv, RestoreCopies
      <4>2. directory.files[name] = restore.manifest.lists[name]
        BY <4>1 DEF Restorable, Verified
      <4>3. OfOneMoment(restore.manifest.lists, restore.manifest.of)
        BY <3>1 DEF UpkeepInv, RestoreCopies, ManifestIsOfOneMoment
      <4>4. directory.files[name] = restore.manifest.of[name]
        BY <1>2, <4>1, <4>2, <4>3 DEF OfOneMoment, Unexported
      <4> QED BY <1>3, <1>5, <3>2, <4>4
    <3>3. CASE f # name
      <4>1. f \in restore.did /\ home[f] = restore.manifest.of[f]
        BY <1>3, <2>2, <3>1, <3>3 DEF UpkeepInv, RestoreCopies
      <4>2. home'[f] = home[f]
        BY <1>1, <3>3, <1>5, <4>1 DEF UpkeepInv, UpkeepShape
      <4> QED BY <1>3, <4>1, <4>2
    <3> QED BY <3>2, <3>3
  <2>3. restore'.home <= moved'.home /\ restore'.directory <= moved'.directory
    BY <1>3, <1>4, <1>8 DEF UpkeepInv, RestoreCopies
  <2> QED BY <2>1, <2>2, <2>3 DEF RestoreCopies
<1> QED BY <1>6, <1>7, <1>9 DEF UpkeepInv

LEMMA FileLeftOut ==
  ASSUME UpkeepInv, NEW after, restore' = [restore EXCEPT !.at = after], restore.at # Idle \/ after = Idle,
         UNCHANGED <<home, directory, backup, moved>>
  PROVE  UpkeepInv'
<1>1. /\ DOMAIN restore' = DOMAIN restore /\ restore'.manifest = restore.manifest /\ restore'.did = restore.did
      /\ restore'.home = restore.home /\ restore'.directory = restore.directory /\ restore'.at = after
  BY DEF UpkeepInv, UpkeepShape
<1>2. UpkeepShape'
  BY <1>1 DEF UpkeepInv, UpkeepShape
<1>3. RestoreCopies'
  BY <1>1 DEF UpkeepInv, RestoreCopies
<1> QED BY <1>2, <1>3, BackupStays DEF UpkeepInv

LEMMA RestoreStepKeeps == ASSUME UpkeepInv, RestoreStep PROVE UpkeepInv'
<1>0. UNCHANGED <<directory, backup>> /\ {"env", "keystore", "latch", "wallets", "done"} \cap {Idle} = {}
  BY DEF RestoreStep, Idle
<1>1. CASE RestoreEnv
  <2>1. restore.at = "env" /\ Writes("env", directory.files["env"], "keystore")
    BY <1>1 DEF RestoreEnv
  <2>2. restore.directory = moved.directory => "env" \in DOMAIN restore.manifest.lists
    BY <1>0, <2>1 DEF UpkeepInv, RestoreCopies, Restorable
  <2> QED BY <1>0, <2>1, <2>2, FileBroughtBack
<1>2. CASE RestoreKeystore
  <2>1. CASE "keystore" \in DOMAIN restore.manifest.lists
    BY <1>0, <1>2, <2>1, FileBroughtBack DEF RestoreKeystore
  <2>2. CASE "keystore" \notin DOMAIN restore.manifest.lists
    BY <1>0, <1>2, <2>2, FileLeftOut DEF RestoreKeystore, LeavesOut
  <2> QED BY <2>1, <2>2
<1>3. ASSUME NEW dbUp, RestoreLatch(dbUp) PROVE UpkeepInv'
  <2>1. CASE dbUp /\ directory.files["latch"] >= 0
    <3>1. restore.directory = moved.directory => "latch" \in DOMAIN restore.manifest.lists
      BY <1>0, <1>3 DEF RestoreLatch, UpkeepInv, RestoreCopies, Restorable, ManifestIsOfOneMoment
    <3> QED BY <1>0, <1>3, <2>1, <3>1, FileBroughtBack DEF RestoreLatch
  <2>2. CASE ~(dbUp /\ directory.files["latch"] >= 0)
    BY <1>0, <1>3, <2>2, FileLeftOut DEF RestoreLatch, LeavesOut
  <2> QED BY <2>1, <2>2
<1>4. CASE RestoreWallets
  BY <1>0, <1>4, FileLeftOut DEF RestoreWallets, LeavesOut
<1> QED BY <1>1, <1>2, <1>3, <1>4 DEF RestoreStep

LEMMA RestoreCutShortKeeps == ASSUME UpkeepInv, RestoreCutShort PROVE UpkeepInv'
BY FileLeftOut DEF RestoreCutShort

LEMMA ChangesKeeps == ASSUME UpkeepInv, NEW changed, Changes(changed) PROVE UpkeepInv'
<1>1. /\ moved' = [moved EXCEPT !.owner = @ + 1, !.home = @ + 1]
      /\ home' = [f \in DOMAIN home |-> IF f \in changed THEN moved.owner + 1 ELSE home[f]]
      /\ UNCHANGED <<directory, backup, restore>>
  BY DEF Changes
<1>2. /\ moved' \in [home : Nat, directory : Nat, owner : Nat] /\ moved.owner \in Nat
      /\ moved'.home = moved.home + 1 /\ moved'.directory = moved.directory
  <2>1. moved \in [home : Nat, directory : Nat, owner : Nat]
    BY DEF UpkeepInv, UpkeepShape
  <2>2. moved' = [home |-> moved.home + 1, directory |-> moved.directory, owner |-> moved.owner + 1]
    BY <1>1, <2>1
  <2> QED BY <2>1, <2>2
<1>3. home' \in [HomeFiles -> Int] /\ home'["latch"] # Missing
  <2>1. home' = [f \in HomeFiles |-> IF f \in changed THEN moved.owner + 1 ELSE home[f]] /\ home \in [HomeFiles -> Int]
        /\ home["latch"] # Missing /\ "latch" \in HomeFiles
    BY <1>1 DEF UpkeepInv, UpkeepShape, HomeFiles
  <2> QED BY <1>2, <2>1 DEF Missing
<1>4. UpkeepShape'
  BY <1>1, <1>2, <1>3 DEF UpkeepInv, UpkeepShape
<1>5. BackupIsOfOneMoment'
  BY <1>1, <1>2, BackupIsLate DEF UpkeepInv
<1>6. RestoreCopies'
  BY <1>1, <1>2, RestoreIsDisturbed DEF UpkeepInv
<1> QED BY <1>1, <1>4, <1>5, <1>6 DEF UpkeepInv

LEMMA UpkeepInvStep == ASSUME UpkeepInv, [UpkeepNext]_upkeepVars PROVE UpkeepInv'
<1>1. ASSUME UNCHANGED <<home, directory, backup, restore, moved>> PROVE UpkeepInv'
  <2>1. UpkeepShape'
    BY <1>1 DEF UpkeepInv, UpkeepShape
  <2> QED BY <1>1, <2>1, BackupStays, RestoreStays DEF UpkeepInv
<1>2. CASE UNCHANGED upkeepVars
  BY <1>1, <1>2 DEF upkeepVars
<1>3. CASE Updating
  BY <1>1, <1>3 DEF Updating, Publish, UpdateStep
<1>4. CASE Keeping
  BY <1>4, BackupStartsKeeps, BackupWritesKeeps, BackupEndsKeeps, BackupCutShortKeeps, RestoreStartsKeeps, RestoreStepKeeps,
     RestoreCutShortKeeps, ChangesKeeps DEF Keeping, Meanwhile
<1> QED BY <1>2, <1>3, <1>4 DEF UpkeepNext

LEMMA UpkeepInvInit == ASSUME UpkeepInit PROVE UpkeepInv
<1>1. DOMAIN <<>> = {}
  OBVIOUS
<1>2. home \in [HomeFiles -> Int] /\ home["latch"] = 0
  BY DEF UpkeepInit, FirstHome, HomeFiles, Missing
<1>3. /\ DOMAIN directory = {"files", "manifest"} /\ directory.files \in [Files -> Int]
      /\ directory.manifest = NoManifest /\ DOMAIN NoManifest.lists = {}
  BY <1>1 DEF UpkeepInit, NoManifest, Missing
<1>4. UpkeepShape
  BY <1>2, <1>3 DEF UpkeepInit, UpkeepShape, Missing
<1>5. BackupIsOfOneMoment
  BY DEF UpkeepInit, BackupIsOfOneMoment
<1>6. ManifestIsOfOneMoment(directory.manifest)
  BY <1>3 DEF ManifestIsOfOneMoment, OfOneMoment
<1>7. RestoreCopies
  BY DEF UpkeepInit, RestoreCopies
<1> QED BY <1>4, <1>5, <1>6, <1>7 DEF UpkeepInv

\* A restore beside which nobody wrote leaves what it brought back as it was together at
\* one moment, whatever earlier backups left in the directory or broke off.
THEOREM RestoreBringsOneMoment == PlaneSpec => []RestoreIsWhole
<1>1. PlaneInit => UpkeepInv
  BY UpkeepInvInit DEF PlaneInit
<1>2. UpkeepInv /\ [PlaneNext]_planeVars => UpkeepInv'
  BY UpkeepSteps, UpkeepInvStep
<1>3. UpkeepInv => RestoreIsWhole
  <2>1. "done" # Idle
    BY DEF Idle
  <2> QED BY <2>1 DEF UpkeepInv, RestoreCopies, RestoreIsWhole
<1> QED BY <1>1, <1>2, <1>3, PTL DEF PlaneSpec

-----------------------------------------------------------------------------
(***************************************************************************)
(* Telegram: a change runs once, on its owner's word.                      *)
(***************************************************************************)

Words == {"read", "change", "yes", "closed"}

TelegramShape ==
    /\ chat \in Seq([user : TgUsers, kind : Words])
    /\ confirmed \in 0..Len(chat)
    /\ DOMAIN bot = {"booted", "offset", "batch", "at", "allowed"} /\ bot.booted \in BOOLEAN
    /\ bot.offset \in 1..Len(chat) + 1 /\ bot.at \in 0..Len(chat)
    /\ bot.batch \in Seq(Nat) /\ \A k \in 1..Len(bot.batch) : bot.batch[k] \in 1..Len(chat)
    /\ DOMAIN session = {"pending", "hits"}
    /\ DOMAIN session.pending = TgUsers
    /\ \A u \in TgUsers : /\ DOMAIN session.pending[u] = {"asked", "late"}
                          /\ session.pending[u].asked \in 0..Len(chat)
    /\ ran \in Seq([user : TgUsers, asked : Nat, by : Nat])
    /\ \A k \in 1..Len(ran) : ran[k].asked \in 1..Len(chat) /\ ran[k].by \in 1..Len(chat)

\* The message that is routed next.
Ahead == IF bot.offset > 1 THEN bot.offset ELSE confirmed + 1

\* A batch goes on where the bot is and ends within the page that follows what is
\* confirmed; a bot that just started is nowhere.
PollsInOrder ==
    /\ ~bot.booted => bot.offset = 1 /\ bot.batch = << >>
    /\ bot.at # 0 => bot.offset = bot.at + 1 /\ bot.at <= confirmed + PageSize
    /\ bot.offset = 1 => bot.at = 0 /\ \A u \in TgUsers : session.pending[u].asked = 0
    /\ bot.offset > 1 => bot.offset > confirmed
    /\ \A k \in 1..Len(bot.batch) : bot.batch[k] = Ahead + k - 1 /\ bot.batch[k] <= confirmed + PageSize

\* What was run lies behind, and in the first page a bot that starts learns of.
RanLiesBehind ==
    /\ \A k \in 1..Len(ran) :
          /\ chat[ran[k].asked] = [user |-> ran[k].user, kind |-> "change"]
          /\ chat[ran[k].by] = [user |-> ran[k].user, kind |-> "yes"]
          /\ ran[k].asked < ran[k].by
          /\ \A i \in ran[k].asked + 1..ran[k].by - 1 : chat[i].user = ran[k].user => i \in unheard
          /\ ran[k].by <= confirmed + PageSize
          /\ bot.booted => ran[k].by < Ahead
          /\ bot.at # 0 => ran[k].by < bot.at
    /\ \A j, k \in 1..Len(ran) : j # k => ran[j].asked # ran[k].asked /\ ran[j].by # ran[k].by

\* What waits for a YES was asked by its user, and since then nothing else was heard
\* of that user but the message in hand.
PendingWasAsked ==
    \A u \in TgUsers : session.pending[u].asked # 0 =>
        /\ chat[session.pending[u].asked] = [user |-> u, kind |-> "change"]
        /\ session.pending[u].asked < bot.offset /\ session.pending[u].asked # bot.at
        /\ \A i \in session.pending[u].asked + 1..bot.offset - 1 :
              chat[i].user = u => i \in unheard \/ i = bot.at
        /\ \A k \in 1..Len(ran) : ran[k].asked # session.pending[u].asked

TelegramInv == TelegramShape /\ PollsInOrder /\ RanLiesBehind /\ PendingWasAsked

LEMMA TelegramSteps == ASSUME [PlaneNext]_planeVars PROVE [TelegramNext]_telegramVars
BY DEF PlaneNext, planeVars, Group1, Group2, Group3, Group4, Group5

LEMMA Numbers0 ==
  ASSUME TelegramShape
  PROVE  /\ Len(chat) \in Nat /\ confirmed \in Nat /\ confirmed <= Len(chat) /\ PageSize \in Nat /\ PageSize > 0
         /\ bot.offset \in Nat /\ bot.offset >= 1 /\ bot.offset <= Len(chat) + 1
         /\ bot.at \in Nat /\ bot.at <= Len(chat)
         /\ Len(bot.batch) \in Nat /\ \A k \in 1..Len(bot.batch) : bot.batch[k] \in 1..Len(chat)
         /\ Ahead \in Nat /\ Ahead >= 1
         /\ Len(ran) \in Nat /\ \A k \in 1..Len(ran) : /\ ran[k].asked \in 1..Len(chat) /\ ran[k].by \in 1..Len(chat)
                                                      /\ ran[k].user \in TgUsers
         /\ \A u \in TgUsers : session.pending[u].asked \in 0..Len(chat)
<1>1. Len(chat) \in Nat /\ confirmed \in Nat /\ confirmed <= Len(chat) /\ PageSize \in Nat /\ PageSize > 0
  BY TelegramAssumption DEF TelegramShape
<1>2. bot.offset \in Nat /\ bot.offset >= 1 /\ bot.offset <= Len(chat) + 1 /\ bot.at \in Nat /\ bot.at <= Len(chat)
  BY <1>1 DEF TelegramShape
<1>3. Len(bot.batch) \in Nat /\ \A k \in 1..Len(bot.batch) : bot.batch[k] \in 1..Len(chat)
  BY DEF TelegramShape
<1>4. Len(ran) \in Nat /\ \A k \in 1..Len(ran) : /\ ran[k].asked \in 1..Len(chat) /\ ran[k].by \in 1..Len(chat)
                                                /\ ran[k].user \in TgUsers
  <2>1. ran \in Seq([user : TgUsers, asked : Nat, by : Nat])
    BY DEF TelegramShape
  <2>2. ASSUME NEW k \in 1..Len(ran) PROVE ran[k] \in [user : TgUsers, asked : Nat, by : Nat]
    BY <2>1, ElementOfSeq
  <2>3. ASSUME NEW k \in 1..Len(ran) PROVE ran[k].user \in TgUsers
    BY <2>2
  <2>4. Len(ran) \in Nat
    BY <2>1, LenProperties
  <2> QED BY <2>3, <2>4 DEF TelegramShape
<1>5. \A u \in TgUsers : session.pending[u].asked \in 0..Len(chat)
  BY DEF TelegramShape
<1>6. Ahead \in Nat /\ Ahead >= 1
  BY <1>1, <1>2 DEF Ahead
<1> QED BY <1>1, <1>2, <1>3, <1>4, <1>5, <1>6

LEMMA RanIsBehind ==
  ASSUME TelegramInv, NEW k \in 1..Len(ran)
  PROVE  /\ ran[k].by \in Nat /\ ran[k].by >= 1 /\ ran[k].by <= Len(chat) /\ ran[k].by <= confirmed + PageSize
         /\ bot.booted => ran[k].by < Ahead
         /\ bot.at # 0 => ran[k].by < bot.at
         /\ ran[k].asked \in Nat /\ ran[k].asked < ran[k].by
<1>1. ran[k].by \in 1..Len(chat) /\ ran[k].asked \in 1..Len(chat) /\ Len(chat) \in Nat
  BY Numbers0 DEF TelegramInv
<1>2. RanLiesBehind
  BY DEF TelegramInv
<1>3. /\ ran[k].by <= confirmed + PageSize
      /\ bot.booted => ran[k].by < Ahead
      /\ bot.at # 0 => ran[k].by < bot.at
      /\ ran[k].asked < ran[k].by
  BY <1>2 DEF RanLiesBehind
<1> QED BY <1>1, <1>3

LEMMA PendingIsBehind ==
  ASSUME TelegramInv, NEW v \in TgUsers, session.pending[v].asked # 0
  PROVE  /\ session.pending[v].asked \in 1..Len(chat) /\ session.pending[v].asked \in Nat
         /\ session.pending[v].asked < bot.offset /\ session.pending[v].asked # bot.at
         /\ bot.offset > 1
<1>1. session.pending[v].asked \in 0..Len(chat) /\ Len(chat) \in Nat /\ bot.offset \in Nat
  BY Numbers0 DEF TelegramInv
<1>2. session.pending[v].asked < bot.offset /\ session.pending[v].asked # bot.at
  BY DEF TelegramInv, PendingWasAsked
<1> QED BY <1>1, <1>2

\* A new message changes nothing about those before it.
LEMMA UserSaysKeeps ==
  ASSUME TelegramInv, NEW u \in TgUsers, NEW kind \in Words, UserSays(u, kind) PROVE TelegramInv'
<1> DEFINE m == [user |-> u, kind |-> kind]
<1>1. /\ chat' = Append(chat, m) /\ m \in [user : TgUsers, kind : Words]
      /\ UNCHANGED <<confirmed, bot, session, ran, unheard>>
  BY DEF UserSays
<1>2. /\ chat' \in Seq([user : TgUsers, kind : Words]) /\ Len(chat') = Len(chat) + 1
      /\ \A i \in 1..Len(chat) : chat'[i] = chat[i]
  BY <1>1 DEF TelegramInv, TelegramShape
<1>3. TelegramShape'
  <2>1. confirmed \in 0..Len(chat) + 1 /\ bot.offset \in 1..Len(chat) + 2 /\ bot.at \in 0..Len(chat) + 1
    BY Numbers0 DEF TelegramInv
  <2>2. \A n \in 1..Len(chat) : n \in 1..Len(chat)'
    BY <1>2, Numbers0 DEF TelegramInv
  <2>3. \A n \in 0..Len(chat) : n \in 0..Len(chat)'
    BY <1>2, Numbers0 DEF TelegramInv
  <2>4. \A k \in 1..Len(bot.batch) : bot.batch[k] \in 1..Len(chat)'
    BY <2>2 DEF TelegramInv, TelegramShape
  <2>5. \A v \in TgUsers : session.pending[v].asked \in 0..Len(chat)'
    BY <2>3 DEF TelegramInv, TelegramShape
  <2>6. \A k \in 1..Len(ran) : ran[k].asked \in 1..Len(chat)' /\ ran[k].by \in 1..Len(chat)'
    BY <2>2 DEF TelegramInv, TelegramShape
  <2> QED BY <1>1, <1>2, <2>1, <2>4, <2>5, <2>6 DEF TelegramInv, TelegramShape
<1>4. PollsInOrder'
  BY <1>1 DEF TelegramInv, PollsInOrder, Ahead
<1>5. RanLiesBehind'
  <2>1. ASSUME NEW k \in 1..Len(ran)
        PROVE  /\ chat'[ran[k].asked] = chat[ran[k].asked] /\ chat'[ran[k].by] = chat[ran[k].by]
               /\ \A i \in ran[k].asked + 1..ran[k].by - 1 : chat'[i] = chat[i]
    <3>1. ran[k].asked \in 1..Len(chat) /\ ran[k].by \in 1..Len(chat) /\ Len(chat) \in Nat
      BY Numbers0 DEF TelegramInv
    <3>2. \A i \in ran[k].asked + 1..ran[k].by - 1 : i \in 1..Len(chat)
      BY <3>1
    <3> QED BY <1>2, <3>1, <3>2
  <2>2. ran' = ran /\ confirmed' = confirmed /\ bot' = bot /\ unheard' = unheard /\ Ahead' = Ahead
    BY <1>1 DEF Ahead
  <2> QED BY <2>1, <2>2 DEF TelegramInv, RanLiesBehind
<1>6. PendingWasAsked'
  <2> SUFFICES ASSUME NEW v \in TgUsers, session.pending[v].asked # 0
               PROVE  /\ chat'[session.pending[v].asked] = [user |-> v, kind |-> "change"]
                      /\ session.pending[v].asked < bot.offset /\ session.pending[v].asked # bot.at
                      /\ \A i \in session.pending[v].asked + 1..bot.offset - 1 :
                            chat'[i].user = v => i \in unheard \/ i = bot.at
                      /\ \A k \in 1..Len(ran) : ran[k].asked # session.pending[v].asked
    BY <1>1 DEF PendingWasAsked
  <2>1. session.pending[v].asked \in 1..Len(chat) /\ bot.offset - 1 <= Len(chat) /\ bot.offset \in Nat /\ Len(chat) \in Nat
    BY Numbers0 DEF TelegramInv
  <2>2. \A i \in session.pending[v].asked + 1..bot.offset - 1 : chat'[i] = chat[i]
    BY <1>2, <2>1
  <2> QED BY <1>2, <2>1, <2>2 DEF TelegramInv, PendingWasAsked
<1> QED BY <1>3, <1>4, <1>5, <1>6 DEF TelegramInv

\* The page that is fetched is what comes next, as far as a page reaches.
LEMMA PageIs ==
  ASSUME TelegramInv
  PROVE  /\ Page \in Seq(Nat)
         /\ \A k \in 1..Len(Page) : /\ Page[k] = Ahead + k - 1 /\ Page[k] \in 1..Len(chat)
                                    /\ Page[k] <= Ahead - 1 + PageSize
         /\ Page # << >> => Last(Page) \in Nat /\ Last(Page) >= Ahead /\ Last(Page) <= Len(chat)
                            /\ (Last(Page) = Len(chat) \/ Last(Page) = Ahead - 1 + PageSize)
         /\ Page = << >> => Len(chat) < Ahead
<1> DEFINE upto == Ahead + PageSize - 1
           n == (IF upto < Len(chat) THEN upto ELSE Len(chat)) - Ahead + 1
<1>1. Page = [i \in 1..n |-> Ahead + i - 1]
  BY DEF Page, Ahead
<1>2. Ahead \in Nat /\ Ahead >= 1 /\ Len(chat) \in Nat /\ PageSize \in Nat /\ PageSize > 0
  BY Numbers0 DEF TelegramInv
<1>3. n \in Int
  BY <1>2
<1>4. CASE n > 0
  <2> HIDE DEF n
  <2>1. n \in Nat
    BY <1>3, <1>4
  <2>2. \A i \in 1..n : Ahead + i - 1 \in Nat
    BY <1>2, <2>1
  <2>3. Page \in Seq(Nat) /\ Len(Page) = n
    BY <1>1, <2>1, <2>2
  <2>4. \A k \in 1..n : Page[k] = Ahead + k - 1
    BY <1>1
  <2>5. n <= Len(chat) - Ahead + 1 /\ n <= PageSize /\ (n = PageSize \/ n = Len(chat) - Ahead + 1)
    BY <1>2 DEF n
  <2>6. Page # << >> /\ Last(Page) = Ahead + n - 1
    BY <1>4, <2>1, <2>3, <2>4 DEF Last
  <2> QED BY <1>2, <1>4, <2>1, <2>3, <2>4, <2>5, <2>6
<1>5. CASE ~(n > 0)
  <2>1. 1..n = 1..0
    BY <1>3, <1>5
  <2>2. Page = [i \in 1..0 |-> Ahead + i - 1]
    BY <1>1, <2>1
  <2>3. Page = << >>
    BY <2>2
  <2>4. Len(chat) < Ahead
    BY <1>2, <1>5
  <2> QED BY <2>3, <2>4
<1> QED BY <1>4, <1>5

LEMMA FetchesKeeps == ASSUME TelegramInv, Fetches PROVE TelegramInv'
<1>1. /\ bot.batch = << >> /\ bot.at = 0
      /\ confirmed' = IF bot.offset > 1 THEN bot.offset - 1 ELSE confirmed
      /\ bot' = IF bot.booted THEN [bot EXCEPT !.batch = Page] ELSE OnBoot(Page)
      /\ UNCHANGED <<chat, session, ran, unheard>>
  BY DEF Fetches
<1>2. DOMAIN bot = {"booted", "offset", "batch", "at", "allowed"} /\ bot.booted \in BOOLEAN
  BY DEF TelegramInv, TelegramShape
<1>3. PICK page : page = Page
  OBVIOUS
<1>4. /\ page \in Seq(Nat) /\ Len(page) \in Nat
      /\ \A k \in 1..Len(page) : /\ page[k] = Ahead + k - 1 /\ page[k] \in 1..Len(chat)
                                 /\ page[k] <= Ahead - 1 + PageSize
      /\ page # << >> => Last(page) \in Nat /\ Last(page) >= Ahead /\ Last(page) <= Len(chat)
                         /\ (Last(page) = Len(chat) \/ Last(page) = Ahead - 1 + PageSize)
      /\ page = << >> => Len(chat) < Ahead
  BY <1>3, PageIs
<1>5. CASE bot.booted
  <2>1. /\ DOMAIN bot' = {"booted", "offset", "batch", "at", "allowed"} /\ bot'.booted = bot.booted
        /\ bot'.offset = bot.offset /\ bot'.at = 0 /\ bot'.batch = page
    BY <1>1, <1>2, <1>3, <1>5
  <2>2. Ahead' = Ahead /\ confirmed' = Ahead - 1 /\ confirmed' \in 0..Len(chat) /\ bot.offset \in Nat
    <3>1. confirmed' = Ahead - 1
      BY <1>1, Numbers0 DEF Ahead, TelegramInv
    <3> QED BY <1>1, <2>1, <3>1, Numbers0 DEF Ahead, TelegramInv
  <2>3. TelegramShape'
    BY <1>1, <1>4, <1>5, <2>1, <2>2 DEF TelegramInv, TelegramShape
  <2>4. PollsInOrder'
    BY <1>1, <1>4, <1>5, <2>1, <2>2, Numbers0 DEF TelegramInv, PollsInOrder, Ahead
  <2>5. RanLiesBehind'
    <3>1. \A k \in 1..Len(ran) : ran[k].by < Ahead /\ ran[k].by \in Nat /\ ran[k].by <= confirmed' + PageSize
      <4> TAKE k \in 1..Len(ran)
      <4>1. ran[k].by < Ahead /\ ran[k].by \in Nat
        BY <1>5, RanIsBehind
      <4>2. Ahead \in Nat /\ PageSize \in Nat /\ PageSize > 0
        BY Numbers0 DEF TelegramInv
      <4>3. confirmed' = Ahead - 1
        BY <2>2
      <4> QED BY <4>1, <4>2, <4>3
    <3> QED BY <1>1, <2>1, <2>2, <3>1 DEF TelegramInv, RanLiesBehind
  <2>6. PendingWasAsked'
    BY <1>1, <2>1 DEF TelegramInv, PendingWasAsked
  <2> QED BY <2>3, <2>4, <2>5, <2>6 DEF TelegramInv
<1>6. CASE ~bot.booted
  <2>1. bot.offset = 1 /\ Ahead = confirmed + 1 /\ confirmed' = confirmed /\ \A u \in TgUsers : session.pending[u].asked = 0
    BY <1>1, <1>6 DEF TelegramInv, PollsInOrder, Ahead
  <2>2. /\ DOMAIN bot' = {"booted", "offset", "batch", "at", "allowed"} /\ bot'.booted = TRUE
        /\ bot'.offset = (IF page = << >> THEN 1 ELSE Last(page) + 1) /\ bot'.at = 0 /\ bot'.batch = << >>
    BY <1>1, <1>2, <1>3, <1>6, <2>1 DEF OnBoot
  <2>3. Ahead' = IF page = << >> THEN Ahead ELSE Last(page) + 1
    BY <1>4, <2>1, <2>2, Numbers0 DEF Ahead, TelegramInv
  <2>4. TelegramShape'
    <3>1. bot'.offset \in 1..Len(chat) + 1
      BY <1>4, <2>2, Numbers0 DEF TelegramInv
    <3>2. bot'.batch \in Seq(Nat) /\ 1..Len(bot'.batch) = {}
      BY <2>2
    <3> QED BY <1>1, <2>1, <2>2, <3>1, <3>2, Numbers0 DEF TelegramInv, TelegramShape
  <2>5. PollsInOrder'
    <3>1. bot'.offset > 1 => bot'.offset > confirmed'
      BY <1>4, <2>1, <2>2, Numbers0 DEF TelegramInv
    <3>2. 1..Len(bot'.batch) = {}
      BY <2>2
    <3> QED BY <1>1, <2>1, <2>2, <3>1, <3>2 DEF PollsInOrder
  <2>6. RanLiesBehind'
    <3>1. \A k \in 1..Len(ran) : ran[k].by < Ahead'
      <4> TAKE k \in 1..Len(ran)
      <4>1. ran[k].by <= Len(chat) /\ ran[k].by <= confirmed + PageSize /\ ran[k].by \in Nat
        BY RanIsBehind
      <4>2. Len(chat) \in Nat /\ confirmed \in Nat /\ PageSize \in Nat
        BY Numbers0 DEF TelegramInv
      <4>3. CASE page = << >>
        <5>1. Ahead' = Ahead /\ Len(chat) < Ahead /\ Ahead = confirmed + 1
          BY <1>4, <2>1, <2>3, <4>3
        <5> QED BY <4>1, <4>2, <5>1
      <4>4. CASE page # << >>
        <5>1. PICK last \in Nat : last = Last(page)
          BY <1>4, <4>4
        <5>2. /\ Ahead' = last + 1 /\ Ahead = confirmed + 1
              /\ last = Len(chat) \/ last = Ahead - 1 + PageSize
          BY <1>4, <2>1, <2>3, <4>4, <5>1
        <5> QED BY <4>1, <4>2, <5>1, <5>2
      <4> QED BY <4>3, <4>4
    <3> QED BY <1>1, <2>1, <2>2, <3>1 DEF TelegramInv, RanLiesBehind
  <2>7. PendingWasAsked'
    BY <1>1, <2>1 DEF PendingWasAsked
  <2> QED BY <2>4, <2>5, <2>6, <2>7 DEF TelegramInv
<1> QED BY <1>2, <1>5, <1>6

LEMMA TakesKeeps == ASSUME TelegramInv, Takes PROVE TelegramInv'
<1> DEFINE id == Head(bot.batch)
           u == chat[id].user
           ok == session.hits[u] < PerMinute
<1>1. /\ bot.batch # << >> /\ bot.at = 0
      /\ session' = IF ok THEN [session EXCEPT !.hits[u] = @ + 1] ELSE session
      /\ unheard' = IF ok THEN unheard ELSE unheard \cup {id}
      /\ bot' = [bot EXCEPT !.offset = id + 1, !.batch = Tail(@), !.at = IF ok THEN id ELSE 0,
                            !.allowed = u = Owner \/ u \in allowlist]
      /\ UNCHANGED <<chat, confirmed, ran>>
  BY DEF Takes
<1>2. /\ DOMAIN bot = {"booted", "offset", "batch", "at", "allowed"} /\ bot.booted \in BOOLEAN
      /\ DOMAIN session = {"pending", "hits"} /\ bot.batch \in Seq(Nat)
  BY DEF TelegramInv, TelegramShape
<1>3. /\ bot.booted /\ id = Ahead /\ id \in 1..Len(chat) /\ id <= confirmed + PageSize
      /\ Len(bot.batch) \in Nat /\ Len(bot.batch) >= 1
  <2>1. Len(bot.batch) \in Nat /\ Len(bot.batch) >= 1 /\ id = bot.batch[1]
    BY <1>1, <1>2
  <2>2. bot.batch[1] = Ahead + 1 - 1 /\ bot.batch[1] <= confirmed + PageSize
    BY <2>1 DEF TelegramInv, PollsInOrder
  <2>3. bot.batch[1] \in 1..Len(chat)
    BY <2>1, Numbers0 DEF TelegramInv
  <2>4. bot.booted
    BY <1>1 DEF TelegramInv, PollsInOrder
  <2> QED BY <2>1, <2>2, <2>3, <2>4, Numbers0 DEF TelegramInv
<1>4. /\ DOMAIN bot' = {"booted", "offset", "batch", "at", "allowed"} /\ bot'.booted = bot.booted
      /\ bot'.offset = id + 1 /\ bot'.at = (IF ok THEN id ELSE 0) /\ bot'.batch = Tail(bot.batch)
  BY <1>1, <1>2
<1>5. session'.pending = session.pending /\ DOMAIN session' = {"pending", "hits"}
  BY <1>1, <1>2
<1>6. /\ bot'.batch \in Seq(Nat) /\ Len(bot'.batch) = Len(bot.batch) - 1
      /\ \A k \in 1..Len(bot'.batch) : bot'.batch[k] = bot.batch[k + 1] /\ k + 1 \in 1..Len(bot.batch)
  BY <1>1, <1>2, <1>3, <1>4, HeadTailProperties
<1> HIDE DEF id, u, ok
<1>7. Ahead' = Ahead + 1 /\ id \in Nat /\ id >= 1
  BY <1>3, <1>4 DEF Ahead
<1>8. TelegramShape'
  <2>1. \A k \in 1..Len(bot'.batch) : bot'.batch[k] \in 1..Len(chat)
    BY <1>6, Numbers0 DEF TelegramInv
  <2>2. bot'.offset \in 1..Len(chat) + 1 /\ bot'.at \in 0..Len(chat)
    BY <1>3, <1>4, Numbers0 DEF TelegramInv
  <2> QED BY <1>1, <1>2, <1>4, <1>5, <1>6, <2>1, <2>2 DEF TelegramInv, TelegramShape
<1>9. PollsInOrder'
  <2>1. \A k \in 1..Len(bot'.batch) : bot'.batch[k] = Ahead' + k - 1 /\ bot'.batch[k] <= confirmed + PageSize
    <3> SUFFICES ASSUME NEW k \in 1..Len(bot'.batch)
                 PROVE  bot'.batch[k] = Ahead' + k - 1 /\ bot'.batch[k] <= confirmed + PageSize
      OBVIOUS
    <3>1. k + 1 \in 1..Len(bot.batch) /\ bot'.batch[k] = bot.batch[k + 1]
      BY <1>6
    <3>2. bot.batch[k + 1] = Ahead + (k + 1) - 1 /\ bot.batch[k + 1] <= confirmed + PageSize
      BY <3>1 DEF TelegramInv, PollsInOrder
    <3> QED BY <1>3, <1>6, <1>7, <3>1, <3>2, Numbers0 DEF TelegramInv
  <2>2. bot'.offset > 1 /\ bot'.offset > confirmed /\ bot'.booted
    BY <1>3, <1>4, <1>7, Numbers0 DEF TelegramInv, PollsInOrder, Ahead
  <2> QED BY <1>1, <1>3, <1>4, <1>7, <2>1, <2>2 DEF PollsInOrder
<1>10. RanLiesBehind'
  <2>1. \A k \in 1..Len(ran) : ran[k].by < Ahead /\ ran[k].by \in Nat
    BY <1>3, RanIsBehind
  <2>2. unheard \subseteq unheard'
    BY <1>1
  <2>3. \A k \in 1..Len(ran) : ran[k].by < Ahead' /\ (bot'.at # 0 => ran[k].by < bot'.at)
    BY <1>3, <1>4, <1>7, <2>1, Numbers0 DEF TelegramInv
  <2> QED BY <1>1, <2>2, <2>3 DEF TelegramInv, RanLiesBehind
<1>11. PendingWasAsked'
  <2> SUFFICES ASSUME NEW v \in TgUsers, session.pending[v].asked # 0
               PROVE  /\ chat[session.pending[v].asked] = [user |-> v, kind |-> "change"]
                      /\ session.pending[v].asked < bot'.offset /\ session.pending[v].asked # bot'.at
                      /\ \A i \in session.pending[v].asked + 1..bot'.offset - 1 :
                            chat[i].user = v => i \in unheard' \/ i = bot'.at
                      /\ \A k \in 1..Len(ran) : ran[k].asked # session.pending[v].asked
    BY <1>1, <1>5 DEF PendingWasAsked
  <2>1. bot.offset > 1
    BY PendingIsBehind
  <2>2. id = bot.offset
    BY <1>3, <2>1 DEF Ahead
  <2>3. session.pending[v].asked \in Nat /\ session.pending[v].asked < bot.offset /\ bot.offset \in Nat
    BY PendingIsBehind, Numbers0 DEF TelegramInv
  <2>4. ASSUME NEW i \in session.pending[v].asked + 1..bot'.offset - 1, chat[i].user = v
        PROVE  i \in unheard' \/ i = bot'.at
    <3>1. CASE i = id
      BY <1>1, <1>4, <3>1
    <3>2. CASE i # id
      <4>1. i \in session.pending[v].asked + 1..bot.offset - 1
        BY <1>4, <2>2, <2>3, <3>2
      <4>2. i # 0
        BY <2>3
      <4> QED BY <1>1, <2>4, <4>1, <4>2 DEF TelegramInv, PendingWasAsked
    <3> QED BY <3>1, <3>2
  <2>5. session.pending[v].asked # bot'.at
    BY <1>4, <2>2, <2>3
  <2> QED BY <1>4, <2>2, <2>3, <2>4, <2>5 DEF TelegramInv, PendingWasAsked
<1> QED BY <1>8, <1>9, <1>10, <1>11 DEF TelegramInv

\* The message in hand is at its end and nothing else changed hands.
LEMMA HandsDown ==
  ASSUME TelegramInv, bot.at # 0, bot' = [bot EXCEPT !.at = 0, !.allowed = FALSE], UNCHANGED <<chat, confirmed>>
  PROVE  /\ DOMAIN bot' = {"booted", "offset", "batch", "at", "allowed"} /\ bot'.booted = bot.booted
         /\ bot'.offset = bot.offset /\ bot'.at = 0 /\ bot'.batch = bot.batch
         /\ Ahead' = Ahead /\ bot.offset = bot.at + 1 /\ Ahead = bot.at + 1 /\ bot.at <= confirmed + PageSize
         /\ bot.at \in 1..Len(chat) /\ chat[bot.at].user \in TgUsers
<1>1. DOMAIN bot = {"booted", "offset", "batch", "at", "allowed"}
  BY DEF TelegramInv, TelegramShape
<1>2. /\ DOMAIN bot' = {"booted", "offset", "batch", "at", "allowed"} /\ bot'.booted = bot.booted
      /\ bot'.offset = bot.offset /\ bot'.at = 0 /\ bot'.batch = bot.batch
  BY <1>1
<1>3. bot.offset = bot.at + 1 /\ bot.at <= confirmed + PageSize
  BY DEF TelegramInv, PollsInOrder
<1>4. bot.at \in 1..Len(chat)
  BY Numbers0 DEF TelegramInv
<1>5. Ahead' = Ahead /\ Ahead = bot.at + 1
  BY <1>2, <1>3, <1>4 DEF Ahead
<1>6. chat \in Seq([user : TgUsers, kind : Words])
  BY DEF TelegramInv, TelegramShape
<1>7. chat[bot.at] \in [user : TgUsers, kind : Words]
  BY <1>4, <1>6, ElementOfSeq
<1> QED BY <1>2, <1>3, <1>4, <1>5, <1>7

LEMMA RoutesYesKeeps == ASSUME TelegramInv, RoutesYes PROVE TelegramInv'
<1>1. PICK u : u = chat[bot.at].user
  OBVIOUS
<1>2. PICK p : p = session.pending[u]
  OBVIOUS
<1> DEFINE entry == [user |-> u, asked |-> p.asked, by |-> bot.at]
           runs == bot.allowed /\ p.asked # 0 /\ ~p.late
<1>3. /\ bot.at # 0 /\ chat[bot.at].kind = "yes"
      /\ session' = IF bot.allowed THEN [session EXCEPT !.pending[u] = NoPending] ELSE session
      /\ ran' = IF runs THEN Append(ran, entry) ELSE ran
      /\ unheard' = IF bot.allowed THEN unheard ELSE unheard \cup {bot.at}
      /\ bot' = [bot EXCEPT !.at = 0, !.allowed = FALSE]
      /\ UNCHANGED <<chat, confirmed>>
  BY <1>1, <1>2 DEF RoutesYes, TakeConfirm
<1>4. /\ DOMAIN bot' = {"booted", "offset", "batch", "at", "allowed"} /\ bot'.booted = bot.booted
      /\ bot'.offset = bot.offset /\ bot'.at = 0 /\ bot'.batch = bot.batch
      /\ Ahead' = Ahead /\ bot.offset = bot.at + 1 /\ Ahead = bot.at + 1 /\ bot.at <= confirmed + PageSize
      /\ bot.at \in 1..Len(chat) /\ u \in TgUsers
  BY <1>1, <1>3, HandsDown
<1>5. /\ DOMAIN session = {"pending", "hits"} /\ DOMAIN session.pending = TgUsers
      /\ \A v \in TgUsers : /\ DOMAIN session.pending[v] = {"asked", "late"}
                            /\ session.pending[v].asked \in 0..Len(chat)
  BY DEF TelegramInv, TelegramShape
<1>6. /\ DOMAIN session' = {"pending", "hits"} /\ DOMAIN session'.pending = TgUsers
      /\ \A v \in TgUsers : session'.pending[v] = IF v = u /\ bot.allowed THEN NoPending ELSE session.pending[v]
  BY <1>3, <1>4, <1>5
<1>7. \A v \in TgUsers : /\ DOMAIN session'.pending[v] = {"asked", "late"}
                         /\ session'.pending[v].asked \in {0, session.pending[v].asked}
  BY <1>5, <1>6 DEF NoPending
<1>8. chat[bot.at] = [user |-> u, kind |-> "yes"]
  <2>1. chat \in Seq([user : TgUsers, kind : Words])
    BY DEF TelegramInv, TelegramShape
  <2>2. chat[bot.at] \in [user : TgUsers, kind : Words]
    BY <1>4, <2>1, ElementOfSeq
  <2> QED BY <1>1, <1>3, <2>2
<1>9. runs => /\ p.asked \in 1..Len(chat) /\ p.asked < bot.at /\ chat[p.asked] = [user |-> u, kind |-> "change"]
              /\ \A i \in p.asked + 1..bot.at - 1 : chat[i].user = u => i \in unheard
              /\ \A k \in 1..Len(ran) : ran[k].asked # p.asked
  <2> SUFFICES ASSUME runs
               PROVE  /\ p.asked \in 1..Len(chat) /\ p.asked < bot.at /\ chat[p.asked] = [user |-> u, kind |-> "change"]
                      /\ \A i \in p.asked + 1..bot.at - 1 : chat[i].user = u => i \in unheard
                      /\ \A k \in 1..Len(ran) : ran[k].asked # p.asked
    OBVIOUS
  <2>1. session.pending[u].asked # 0 /\ session.pending[u].asked = p.asked
    BY <1>2
  <2>2. p.asked \in 1..Len(chat) /\ p.asked < bot.at
    BY <1>4, <2>1, PendingIsBehind
  <2>3. /\ chat[p.asked] = [user |-> u, kind |-> "change"]
        /\ \A i \in p.asked + 1..bot.offset - 1 : chat[i].user = u => i \in unheard \/ i = bot.at
        /\ \A k \in 1..Len(ran) : ran[k].asked # p.asked
    BY <1>4, <2>1 DEF TelegramInv, PendingWasAsked
  <2>4. \A i \in p.asked + 1..bot.at - 1 : i \in p.asked + 1..bot.offset - 1 /\ i # bot.at
    BY <1>4, <2>2
  <2> QED BY <2>2, <2>3, <2>4
<1> HIDE DEF runs
<1>10. /\ ran' \in Seq([user : TgUsers, asked : Nat, by : Nat]) /\ Len(ran) \in Nat
       /\ Len(ran') = Len(ran) + (IF runs THEN 1 ELSE 0)
       /\ \A k \in 1..Len(ran') : \/ k \in 1..Len(ran) /\ ran'[k] = ran[k]
                                  \/ k = Len(ran) + 1 /\ runs /\ ran'[k] = entry
  <2>1. ran \in Seq([user : TgUsers, asked : Nat, by : Nat])
    BY DEF TelegramInv, TelegramShape
  <2>2. CASE runs
    <3>1. entry \in [user : TgUsers, asked : Nat, by : Nat]
      BY <1>4, <1>9, <2>2
    <3> HIDE DEF entry
    <3>2. ran' = Append(ran, entry)
      BY <1>3, <2>2
    <3> QED BY <2>1, <2>2, <3>1, <3>2, AppendProperties
  <2>3. CASE ~runs
    BY <1>3, <2>1, <2>3, LenProperties
  <2> QED BY <2>2, <2>3
<1>11. TelegramShape'
  <2>1. \A v \in TgUsers : session'.pending[v].asked \in 0..Len(chat)
    BY <1>5, <1>7, Numbers0 DEF TelegramInv
  <2>2. ASSUME NEW k \in 1..Len(ran') PROVE ran'[k].asked \in 1..Len(chat) /\ ran'[k].by \in 1..Len(chat)
    <3>1. CASE k \in 1..Len(ran) /\ ran'[k] = ran[k]
      BY <3>1 DEF TelegramInv, TelegramShape
    <3>2. CASE runs /\ ran'[k] = entry
      <4>1. ran'[k].asked = p.asked /\ ran'[k].by = bot.at
        BY <3>2
      <4> QED BY <1>4, <1>9, <3>2, <4>1
    <3> QED BY <1>10, <3>1, <3>2
  <2>3. /\ bot'.offset \in 1..Len(chat) + 1 /\ bot'.at \in 0..Len(chat) /\ bot'.booted \in BOOLEAN
        /\ bot'.batch \in Seq(Nat) /\ \A k \in 1..Len(bot'.batch) : bot'.batch[k] \in 1..Len(chat)
    BY <1>4, Numbers0 DEF TelegramInv, TelegramShape
  <2>4. chat' \in Seq([user : TgUsers, kind : Words]) /\ chat' = chat /\ confirmed' \in 0..Len(chat)
    BY <1>3 DEF TelegramInv, TelegramShape
  <2> QED BY <1>4, <1>6, <1>7, <1>10, <2>1, <2>2, <2>3, <2>4 DEF TelegramShape
<1>12. PollsInOrder'
  BY <1>3, <1>4, <1>7 DEF TelegramInv, PollsInOrder
<1>13. unheard \subseteq unheard'
  BY <1>3
<1>14. RanLiesBehind'
  <2>1. ASSUME NEW k \in 1..Len(ran')
        PROVE  /\ chat[ran'[k].asked] = [user |-> ran'[k].user, kind |-> "change"]
               /\ chat[ran'[k].by] = [user |-> ran'[k].user, kind |-> "yes"]
               /\ ran'[k].asked < ran'[k].by
               /\ \A i \in ran'[k].asked + 1..ran'[k].by - 1 : chat[i].user = ran'[k].user => i \in unheard'
               /\ ran'[k].by <= confirmed + PageSize
               /\ ran'[k].by < Ahead
    <3>1. CASE k \in 1..Len(ran) /\ ran'[k] = ran[k]
      <4>1. ran[k].by < Ahead
        BY <1>3, <1>4, <3>1, RanIsBehind
      <4> QED BY <1>13, <3>1, <4>1 DEF TelegramInv, RanLiesBehind
    <3>2. CASE runs /\ ran'[k] = entry
      BY <1>4, <1>8, <1>9, <1>13, <3>2
    <3> QED BY <1>10, <3>1, <3>2
  <2>2. ASSUME NEW j \in 1..Len(ran'), NEW k \in 1..Len(ran'), j # k
        PROVE  ran'[j].asked # ran'[k].asked /\ ran'[j].by # ran'[k].by
    <3>1. CASE j \in 1..Len(ran) /\ k \in 1..Len(ran) /\ ran'[j] = ran[j] /\ ran'[k] = ran[k]
      BY <2>2, <3>1 DEF TelegramInv, RanLiesBehind
    <3>2. CASE j \in 1..Len(ran) /\ ran'[j] = ran[j] /\ runs /\ ran'[k] = entry
      <4>1. ran[j].by < bot.at /\ ran[j].asked # p.asked /\ ran[j].by \in Nat
        BY <1>3, <1>9, <3>2, RanIsBehind
      <4> QED BY <1>4, <3>2, <4>1
    <3>3. CASE k \in 1..Len(ran) /\ ran'[k] = ran[k] /\ runs /\ ran'[j] = entry
      <4>1. ran[k].by < bot.at /\ ran[k].asked # p.asked /\ ran[k].by \in Nat
        BY <1>3, <1>9, <3>3, RanIsBehind
      <4> QED BY <1>4, <3>3, <4>1
    <3> QED BY <1>10, <2>2, <3>1, <3>2, <3>3
  <2>3. chat' = chat /\ confirmed' = confirmed /\ bot'.at = 0 /\ Ahead' = Ahead
    BY <1>3, <1>4
  <2> QED BY <2>1, <2>2, <2>3 DEF RanLiesBehind
<1>15. PendingWasAsked'
  <2> SUFFICES ASSUME NEW v \in TgUsers, session'.pending[v].asked # 0
               PROVE  /\ chat[session'.pending[v].asked] = [user |-> v, kind |-> "change"]
                      /\ session'.pending[v].asked < bot.offset /\ session'.pending[v].asked # 0
                      /\ \A i \in session'.pending[v].asked + 1..bot.offset - 1 :
                            chat[i].user = v => i \in unheard'
                      /\ \A k \in 1..Len(ran') : ran'[k].asked # session'.pending[v].asked
    BY <1>3, <1>4 DEF PendingWasAsked
  <2>1. session'.pending[v] = session.pending[v] /\ ~(v = u /\ bot.allowed)
    BY <1>6 DEF NoPending
  <2>2. /\ chat[session.pending[v].asked] = [user |-> v, kind |-> "change"]
        /\ session.pending[v].asked < bot.offset
        /\ \A i \in session.pending[v].asked + 1..bot.offset - 1 :
              chat[i].user = v => i \in unheard \/ i = bot.at
        /\ \A k \in 1..Len(ran) : ran[k].asked # session.pending[v].asked
    BY <2>1 DEF TelegramInv, PendingWasAsked
  <2>3. \A i \in session.pending[v].asked + 1..bot.offset - 1 : chat[i].user = v => i \in unheard'
    <3>1. chat[bot.at].user = v => bot.at \in unheard'
      BY <1>1, <1>3, <2>1
    <3> QED BY <1>13, <2>2, <3>1
  <2>4. runs => p.asked # session.pending[v].asked
    <3>1. runs => v # u
      BY <2>1 DEF runs
    <3> QED BY <1>9, <2>2, <3>1
  <2>5. \A k \in 1..Len(ran') : ran'[k].asked # session.pending[v].asked
    <3> TAKE k \in 1..Len(ran')
    <3>1. CASE k \in 1..Len(ran) /\ ran'[k] = ran[k]
      BY <2>2, <3>1
    <3>2. CASE runs /\ ran'[k] = entry
      BY <2>4, <3>2
    <3> QED BY <1>10, <3>1, <3>2
  <2>6. session.pending[v].asked # 0
    BY <2>1
  <2> QED BY <2>1, <2>2, <2>3, <2>5, <2>6
<1> QED BY <1>11, <1>12, <1>14, <1>15 DEF TelegramInv

LEMMA RoutesOtherKeeps == ASSUME TelegramInv, RoutesOther PROVE TelegramInv'
<1>1. PICK u : u = chat[bot.at].user
  OBVIOUS
<1> DEFINE asks == bot.allowed /\ chat[bot.at].kind = "change"
<1>2. /\ bot.at # 0
      /\ session' = [session EXCEPT !.pending[u] = IF asks THEN [asked |-> bot.at, late |-> FALSE] ELSE NoPending]
      /\ bot' = [bot EXCEPT !.at = 0, !.allowed = FALSE]
      /\ UNCHANGED <<chat, confirmed, ran, unheard>>
  BY <1>1 DEF RoutesOther
<1>3. /\ DOMAIN bot' = {"booted", "offset", "batch", "at", "allowed"} /\ bot'.booted = bot.booted
      /\ bot'.offset = bot.offset /\ bot'.at = 0 /\ bot'.batch = bot.batch
      /\ Ahead' = Ahead /\ bot.offset = bot.at + 1 /\ Ahead = bot.at + 1 /\ bot.at <= confirmed + PageSize
      /\ bot.at \in 1..Len(chat) /\ u \in TgUsers
  BY <1>1, <1>2, HandsDown
<1>4. /\ DOMAIN session = {"pending", "hits"} /\ DOMAIN session.pending = TgUsers
      /\ \A v \in TgUsers : /\ DOMAIN session.pending[v] = {"asked", "late"}
                            /\ session.pending[v].asked \in 0..Len(chat)
  BY DEF TelegramInv, TelegramShape
<1>5. asks => chat[bot.at] = [user |-> u, kind |-> "change"]
  <2>1. chat \in Seq([user : TgUsers, kind : Words])
    BY DEF TelegramInv, TelegramShape
  <2>2. chat[bot.at] \in [user : TgUsers, kind : Words]
    BY <1>3, <2>1, ElementOfSeq
  <2> QED BY <1>1, <2>2
<1> HIDE DEF asks
<1>6. /\ DOMAIN session' = {"pending", "hits"} /\ DOMAIN session'.pending = TgUsers
      /\ \A v \in TgUsers : session'.pending[v] = IF v # u THEN session.pending[v]
                                                 ELSE IF asks THEN [asked |-> bot.at, late |-> FALSE] ELSE NoPending
  BY <1>2, <1>3, <1>4
<1>7. \A v \in TgUsers : /\ DOMAIN session'.pending[v] = {"asked", "late"}
                         /\ session'.pending[v].asked \in {0, session.pending[v].asked, bot.at}
                         /\ session'.pending[v].asked \in 0..Len(chat)
  <2> TAKE v \in TgUsers
  <2>1. Len(chat) \in Nat /\ bot.at \in 0..Len(chat) /\ 0 \in 0..Len(chat)
    BY <1>3, Numbers0 DEF TelegramInv
  <2>2. CASE v # u
    BY <1>4, <1>6, <2>2
  <2>3. CASE v = u /\ asks
    <3>1. session'.pending[v] = [asked |-> bot.at, late |-> FALSE]
      BY <1>6, <2>3
    <3> QED BY <2>1, <3>1
  <2>4. CASE v = u /\ ~asks
    <3>1. session'.pending[v] = NoPending
      BY <1>6, <2>4
    <3> QED BY <2>1, <3>1 DEF NoPending
  <2> QED BY <2>2, <2>3, <2>4
<1>8. TelegramShape'
  <2>1. /\ bot'.offset \in 1..Len(chat) + 1 /\ bot'.at \in 0..Len(chat) /\ bot'.booted \in BOOLEAN
        /\ bot'.batch \in Seq(Nat) /\ \A k \in 1..Len(bot'.batch) : bot'.batch[k] \in 1..Len(chat)
    BY <1>3, Numbers0 DEF TelegramInv, TelegramShape
  <2>2. /\ chat \in Seq([user : TgUsers, kind : Words]) /\ confirmed \in 0..Len(chat)
        /\ ran \in Seq([user : TgUsers, asked : Nat, by : Nat])
        /\ \A k \in 1..Len(ran) : ran[k].asked \in 1..Len(chat) /\ ran[k].by \in 1..Len(chat)
    BY DEF TelegramInv, TelegramShape
  <2> QED BY <1>2, <1>3, <1>6, <1>7, <2>1, <2>2 DEF TelegramShape
<1>9. PollsInOrder'
  BY <1>2, <1>3, <1>7 DEF TelegramInv, PollsInOrder
<1>10. RanLiesBehind'
  <2>1. \A k \in 1..Len(ran) : ran[k].by < Ahead
    <3> TAKE k \in 1..Len(ran)
    <3> QED BY <1>2, <1>3, RanIsBehind
  <2> QED BY <1>2, <1>3, <2>1 DEF TelegramInv, RanLiesBehind
<1>11. PendingWasAsked'
  <2> SUFFICES ASSUME NEW v \in TgUsers, session'.pending[v].asked # 0
               PROVE  /\ chat[session'.pending[v].asked] = [user |-> v, kind |-> "change"]
                      /\ session'.pending[v].asked < bot.offset /\ session'.pending[v].asked # 0
                      /\ \A i \in session'.pending[v].asked + 1..bot.offset - 1 :
                            chat[i].user = v => i \in unheard
                      /\ \A k \in 1..Len(ran) : ran[k].asked # session'.pending[v].asked
    BY <1>2, <1>3 DEF PendingWasAsked
  <2>1. CASE v = u
    <3>1. asks /\ session'.pending[v].asked = bot.at
      BY <1>6, <2>1 DEF NoPending
    <3>2. \A i \in bot.at + 1..bot.offset - 1 : FALSE
      BY <1>3
    <3>3. ASSUME NEW k \in 1..Len(ran) PROVE ran[k].asked # bot.at
      BY <1>2, <1>3, RanIsBehind
    <3> QED BY <1>3, <1>5, <2>1, <3>1, <3>2, <3>3
  <2>2. CASE v # u
    <3>1. session'.pending[v] = session.pending[v]
      BY <1>6, <2>2
    <3> QED BY <1>1, <2>2, <3>1 DEF TelegramInv, PendingWasAsked
  <2> QED BY <2>1, <2>2
<1> QED BY <1>8, <1>9, <1>10, <1>11 DEF TelegramInv

\* The clock takes nothing back that was asked for.
LEMMA ClockKeepsTelegram ==
  ASSUME TelegramInv, UNCHANGED <<chat, confirmed, bot, ran, unheard>>,
         DOMAIN session' = {"pending", "hits"}, DOMAIN session'.pending = TgUsers,
         \A v \in TgUsers : DOMAIN session'.pending[v] = {"asked", "late"}
                            /\ session'.pending[v].asked = session.pending[v].asked
  PROVE  TelegramInv'
<1>1. TelegramShape'
  BY DEF TelegramInv, TelegramShape
<1>2. PollsInOrder'
  BY DEF TelegramInv, PollsInOrder, Ahead
<1>3. RanLiesBehind'
  BY DEF TelegramInv, RanLiesBehind, Ahead
<1>4. PendingWasAsked'
  BY DEF TelegramInv, PendingWasAsked
<1> QED BY <1>1, <1>2, <1>3, <1>4 DEF TelegramInv

LEMMA MinutePassesKeeps == ASSUME TelegramInv, MinutePasses PROVE TelegramInv'
<1>1. session' = [session EXCEPT !.hits = FreshSession.hits] /\ UNCHANGED <<chat, confirmed, bot, ran, unheard>>
  BY DEF MinutePasses
<1>2. /\ DOMAIN session = {"pending", "hits"} /\ DOMAIN session.pending = TgUsers
      /\ \A v \in TgUsers : DOMAIN session.pending[v] = {"asked", "late"}
  BY DEF TelegramInv, TelegramShape
<1>3. DOMAIN session' = {"pending", "hits"} /\ session'.pending = session.pending
  BY <1>1, <1>2
<1> QED BY <1>1, <1>2, <1>3, ClockKeepsTelegram

LEMMA ConfirmExpiresKeeps == ASSUME TelegramInv, NEW u \in TgUsers, ConfirmExpires(u) PROVE TelegramInv'
<1>1. session' = [session EXCEPT !.pending[u].late = TRUE] /\ UNCHANGED <<chat, confirmed, bot, ran, unheard>>
  BY DEF ConfirmExpires
<1>2. /\ DOMAIN session = {"pending", "hits"} /\ DOMAIN session.pending = TgUsers
      /\ \A v \in TgUsers : DOMAIN session.pending[v] = {"asked", "late"}
  BY DEF TelegramInv, TelegramShape
<1>3. /\ DOMAIN session' = {"pending", "hits"} /\ DOMAIN session'.pending = TgUsers
      /\ \A v \in TgUsers : DOMAIN session'.pending[v] = {"asked", "late"}
                            /\ session'.pending[v].asked = session.pending[v].asked
  BY <1>1, <1>2
<1> QED BY <1>1, <1>3, ClockKeepsTelegram

\* A bot that dies forgets what waited for a YES; the first page it learns of
\* reaches beyond every message it had run.
LEMMA BotDiesKeeps == ASSUME TelegramInv, BotDies PROVE TelegramInv'
<1>1. bot' = Boot /\ session' = FreshSession /\ UNCHANGED <<chat, confirmed, ran, unheard>>
  BY DEF BotDies
<1>2. /\ DOMAIN bot' = {"booted", "offset", "batch", "at", "allowed"} /\ bot'.booted = FALSE
      /\ bot'.offset = 1 /\ bot'.at = 0 /\ bot'.batch = << >>
  BY <1>1 DEF Boot
<1>3. /\ DOMAIN session' = {"pending", "hits"} /\ DOMAIN session'.pending = TgUsers
      /\ \A v \in TgUsers : session'.pending[v] = NoPending
  BY <1>1 DEF FreshSession
<1>4. \A v \in TgUsers : DOMAIN session'.pending[v] = {"asked", "late"} /\ session'.pending[v].asked = 0
  BY <1>3 DEF NoPending
<1>5. bot'.batch \in Seq(Nat) /\ 1..Len(bot'.batch) = {}
  BY <1>2
<1>6. TelegramShape'
  <2>1. /\ bot'.offset \in 1..Len(chat) + 1 /\ bot'.at \in 0..Len(chat)
        /\ \A v \in TgUsers : session'.pending[v].asked \in 0..Len(chat)
    BY <1>2, <1>4, Numbers0 DEF TelegramInv
  <2>3. bot'.booted \in BOOLEAN
    BY <1>2
  <2>2. /\ chat \in Seq([user : TgUsers, kind : Words]) /\ confirmed \in 0..Len(chat)
        /\ ran \in Seq([user : TgUsers, asked : Nat, by : Nat])
        /\ \A k \in 1..Len(ran) : ran[k].asked \in 1..Len(chat) /\ ran[k].by \in 1..Len(chat)
    BY DEF TelegramInv, TelegramShape
  <2> QED BY <1>1, <1>2, <1>3, <1>4, <1>5, <2>1, <2>2, <2>3 DEF TelegramShape
<1>7. PollsInOrder'
  BY <1>2, <1>4, <1>5 DEF PollsInOrder
<1>8. RanLiesBehind'
  BY <1>1, <1>2 DEF TelegramInv, RanLiesBehind
<1>9. PendingWasAsked'
  BY <1>4 DEF PendingWasAsked
<1> QED BY <1>6, <1>7, <1>8, <1>9 DEF TelegramInv

LEMMA TelegramUntouched ==
  ASSUME TelegramInv, UNCHANGED <<chat, confirmed, bot, session, ran, unheard>> PROVE TelegramInv'
<1>1. /\ DOMAIN session = {"pending", "hits"} /\ DOMAIN session.pending = TgUsers
      /\ \A v \in TgUsers : DOMAIN session.pending[v] = {"asked", "late"}
  BY DEF TelegramInv, TelegramShape
<1> QED BY <1>1, ClockKeepsTelegram

LEMMA TelegramStarts == ASSUME TelegramInit PROVE TelegramInv
<1>1. /\ chat = << >> /\ confirmed = 0 /\ bot = Boot /\ session = FreshSession /\ ran = << >>
  BY DEF TelegramInit
<1>2. /\ DOMAIN bot = {"booted", "offset", "batch", "at", "allowed"} /\ bot.booted = FALSE
      /\ bot.offset = 1 /\ bot.at = 0 /\ bot.batch = << >>
  BY <1>1 DEF Boot
<1>3. /\ DOMAIN session = {"pending", "hits"} /\ DOMAIN session.pending = TgUsers
      /\ \A v \in TgUsers : session.pending[v] = NoPending
  BY <1>1 DEF FreshSession
<1>4. \A v \in TgUsers : DOMAIN session.pending[v] = {"asked", "late"} /\ session.pending[v].asked = 0
  BY <1>3 DEF NoPending
<1>5. bot.batch \in Seq(Nat) /\ 1..Len(bot.batch) = {}
  BY <1>2
<1>6. /\ chat \in Seq([user : TgUsers, kind : Words]) /\ Len(chat) = 0
      /\ ran \in Seq([user : TgUsers, asked : Nat, by : Nat]) /\ 1..Len(ran) = {}
  BY <1>1
<1>7. TelegramShape
  <2>1. /\ bot.offset \in 1..Len(chat) + 1 /\ bot.at \in 0..Len(chat)
        /\ confirmed \in 0..Len(chat) /\ \A v \in TgUsers : session.pending[v].asked \in 0..Len(chat)
    BY <1>1, <1>2, <1>4, <1>6
  <2>2. bot.booted \in BOOLEAN
    BY <1>2
  <2> QED BY <1>2, <1>3, <1>4, <1>5, <1>6, <2>1, <2>2 DEF TelegramShape
<1>8. PollsInOrder
  BY <1>2, <1>4, <1>5 DEF PollsInOrder
<1>9. RanLiesBehind
  BY <1>6 DEF RanLiesBehind
<1>10. PendingWasAsked
  BY <1>4 DEF PendingWasAsked
<1> QED BY <1>7, <1>8, <1>9, <1>10 DEF TelegramInv

LEMMA TelegramInvStep == ASSUME TelegramInv, [TelegramNext]_telegramVars PROVE TelegramInv'
<1>1. ASSUME NEW s \in Sayings, UserSays(s[1], s[2]) PROVE TelegramInv'
  <2>1. s[1] \in TgUsers /\ s[2] \in Words
    BY TelegramAssumption DEF Words
  <2> QED BY <1>1, <2>1, UserSaysKeeps
<1>2. ASSUME NEW i \in DOMAIN pairing, CodeExpires(i) \/ Approves(i) PROVE TelegramInv'
  BY <1>2, TelegramUntouched DEF CodeExpires, Approves
<1>3. CASE AllowsDirectly(Guest) \/ Revokes(Guest) \/ OperatorGoesOn
  BY <1>3, TelegramUntouched DEF AllowsDirectly, Revokes, OperatorGoesOn
<1>4. CASE UNCHANGED telegramVars
  BY <1>4, TelegramUntouched DEF telegramVars
<1> QED BY <1>1, <1>2, <1>3, <1>4, FetchesKeeps, TakesKeeps, RoutesYesKeeps, RoutesOtherKeeps,
           MinutePassesKeeps, ConfirmExpiresKeeps, BotDiesKeeps DEF TelegramNext

LEMMA TelegramConfirms == ASSUME TelegramInv PROVE ConfirmedOnce
<1>1. ran \in Seq([user : TgUsers, asked : Nat, by : Nat])
  BY DEF TelegramInv, TelegramShape
<1>2. DOMAIN ran = 1..Len(ran)
  BY <1>1
<1> QED BY <1>2 DEF TelegramInv, RanLiesBehind, ConfirmedOnce

-----------------------------------------------------------------------------
(***************************************************************************)
(* Terminal: a key does what the screen says.                              *)
(***************************************************************************)

LEMMA TerminalSteps == ASSUME [PlaneNext]_planeVars PROVE [TerminalNext]_terminalVars
BY DEF PlaneNext, planeVars, Group1, Group2, Group3, Group4, Group5

\* What is typed without anything between is the buffer, and names the option under
\* the cursor if it names one.
MenuFollowsKeys ==
    /\ DOMAIN menu = {"cursor", "buffer"} /\ menu.cursor \in Int /\ menu.buffer \in Nat
    /\ typed \in Nat \cup {Interfered}
    /\ typed = 0 <=> menu.buffer = 0
    /\ typed \in Nat => typed = menu.buffer
    /\ typed \in 1..Options => menu.cursor = typed
    /\ console = "menu" => menu.cursor \in 1..Options
    /\ console # "menu" => menu = NoMenu /\ typed = 0

TerminalInv == MenuFollowsKeys /\ TerminalIsHandedOn

\* Outside of a menu there is none.
LEMMA AwayFromMenu ==
  ASSUME TerminalInv, menu' = NoMenu, typed' = 0, console' # "menu" PROVE MenuFollowsKeys'
BY TerminalAssumption DEF MenuFollowsKeys, NoMenu, Interfered

LEMMA MenuOnlyMoves ==
  ASSUME TerminalInv, console = "menu", UNCHANGED <<console, readline, asking, keys, follower>>
  PROVE  TerminalIsHandedOn'
BY DEF TerminalInv, TerminalIsHandedOn

LEMMA ArrowPressedKeeps == ASSUME TerminalInv, NEW way \in {-1, 1}, ArrowPressed(way) PROVE TerminalInv'
<1>1. /\ console = "menu" /\ typed' = Heard(0)
      /\ menu' = [menu EXCEPT !.cursor = ((@ - 1 + way + Options) % Options) + 1]
      /\ UNCHANGED <<console, readline, asking, keys, follower>>
  BY DEF ArrowPressed
<1>2. DOMAIN menu = {"cursor", "buffer"} /\ menu.cursor \in 1..Options /\ Options \in Nat /\ Options > 0
  BY <1>1, TerminalAssumption DEF TerminalInv, MenuFollowsKeys
<1>3. DOMAIN menu' = {"cursor", "buffer"} /\ menu'.buffer = menu.buffer
      /\ menu'.cursor = ((menu.cursor - 1 + way + Options) % Options) + 1
  BY <1>1, <1>2
<1>4. (menu.cursor - 1 + way + Options) % Options \in 0..Options - 1
  BY <1>2
<1>5. menu'.cursor \in 1..Options
  BY <1>2, <1>3, <1>4
<1>6. typed' = (IF typed \in {Interfered, 0} THEN typed ELSE Interfered)
  BY <1>1 DEF Heard
<1>7. MenuFollowsKeys'
  BY <1>1, <1>2, <1>3, <1>5, <1>6 DEF TerminalInv, MenuFollowsKeys, Interfered
<1> QED BY <1>1, <1>7, MenuOnlyMoves DEF TerminalInv

LEMMA DigitPressedKeeps == ASSUME TerminalInv, NEW d \in MenuDigits, DigitPressed(d) PROVE TerminalInv'
<1> DEFINE buffer == Joined(menu.buffer, d)
<1>1. /\ console = "menu" /\ typed' = Heard(d)
      /\ menu' = IF d = 0 THEN menu ELSE [cursor |-> DigitBufferTarget(buffer, menu.cursor), buffer |-> buffer]
      /\ UNCHANGED <<console, readline, asking, keys, follower>>
  BY DEF DigitPressed
<1>2. d \in 0..9
  BY TerminalAssumption
<1>3. CASE d = 0
  <2>1. typed' = (IF typed \in {Interfered, 0} THEN typed ELSE Interfered)
    BY <1>1, <1>3 DEF Heard
  <2>2. menu' = menu
    BY <1>1, <1>3
  <2>3. MenuFollowsKeys'
    BY <1>1, <2>1, <2>2, TerminalAssumption DEF TerminalInv, MenuFollowsKeys, Interfered
  <2> QED BY <1>1, <2>3, MenuOnlyMoves DEF TerminalInv
<1>4. CASE d # 0
  <2>1. menu.buffer \in Nat
    BY DEF TerminalInv, MenuFollowsKeys
  <2>2. buffer \in Nat /\ buffer # 0
    BY <1>2, <1>4, <2>1 DEF Joined
  <2>3. typed' = (IF typed = Interfered THEN typed ELSE buffer)
    BY <1>1, <1>4 DEF Heard, TerminalInv, MenuFollowsKeys, Interfered
  <2> HIDE DEF buffer
  <2>4. /\ DOMAIN menu' = {"cursor", "buffer"} /\ menu'.buffer = buffer
        /\ menu'.cursor = IF buffer \in 1..Options THEN buffer ELSE menu.cursor
    BY <1>1, <1>4 DEF DigitBufferTarget
  <2>5. MenuFollowsKeys'
    BY <1>1, <2>2, <2>3, <2>4, TerminalAssumption DEF TerminalInv, MenuFollowsKeys, Interfered
  <2> QED BY <1>1, <2>5, MenuOnlyMoves DEF TerminalInv
<1> QED BY <1>3, <1>4

LEMMA DigitsPauseKeeps == ASSUME TerminalInv, DigitsPause PROVE TerminalInv'
<1>1. /\ console = "menu" /\ menu' = [menu EXCEPT !.buffer = 0] /\ typed' = 0
      /\ UNCHANGED <<console, readline, asking, keys, follower>>
  BY DEF DigitsPause, BufferEmptied
<1>2. DOMAIN menu' = {"cursor", "buffer"} /\ menu'.buffer = 0 /\ menu'.cursor = menu.cursor
  BY <1>1 DEF TerminalInv, MenuFollowsKeys
<1>3. MenuFollowsKeys'
  BY <1>1, <1>2 DEF TerminalInv, MenuFollowsKeys, Interfered
<1> QED BY <1>1, <1>3, MenuOnlyMoves DEF TerminalInv

\* A choice opens a menu, or the numbered list where there is none.
LEMMA ChoiceAskedKeeps == ASSUME TerminalInv, NEW b \in BOOLEAN, ChoiceAsked(b) PROVE TerminalInv'
<1>1. CASE console' = "menu" /\ menu' = [cursor |-> 1, buffer |-> 0]
  <2>1. typed' = 0 /\ console = "command" /\ keys' = [raw |-> TRUE, muted |-> FALSE] /\ follower' = follower
    BY <1>1 DEF ChoiceAsked, Dispatching, QuestionAsked, TerminalInv, MenuFollowsKeys
  <2>2. MenuFollowsKeys'
    BY <1>1, <2>1, TerminalAssumption DEF MenuFollowsKeys, Interfered
  <2> QED BY <1>1, <2>1, <2>2 DEF TerminalInv, TerminalIsHandedOn
<1>2. CASE ~b /\ QuestionAsked("numbered", FALSE) /\ UNCHANGED menu
  <2>1. /\ typed' = 0 /\ menu' = NoMenu /\ console = "command" /\ console' = "numbered"
        /\ keys' = [raw |-> FALSE, muted |-> FALSE] /\ follower' = follower
    BY <1>2 DEF ChoiceAsked, Dispatching, QuestionAsked, TerminalInv, MenuFollowsKeys
  <2>2. MenuFollowsKeys'
    BY <2>1, AwayFromMenu
  <2> QED BY <2>1, <2>2 DEF TerminalInv, TerminalIsHandedOn
<1> QED BY <1>1, <1>2 DEF ChoiceAsked

\* Every question but that of a menu: what is pressed reaches a line.
LEMMA AwayKeeps ==
  ASSUME TerminalInv, console # "menu", console' # "menu", UNCHANGED <<menu, typed>>, TerminalIsHandedOn'
  PROVE  TerminalInv'
BY AwayFromMenu DEF TerminalInv, MenuFollowsKeys

LEMMA QuestionsKeep ==
  ASSUME TerminalInv,
         \/ LineLost \/ Interrupted \/ InputEnds \/ FollowAnswered \/ PromptShown
         \/ \E b \in BOOLEAN : PromptAnswered(b) \/ NumberAnswered(b)
  PROVE  TerminalInv'
<1>1. console \in Questions \cup {"idle"} /\ console' # "menu" /\ UNCHANGED <<menu, typed>>
  BY DEF LineLost, Interrupted, InputEnds, FollowAnswered, PromptShown, PromptAnswered, NumberAnswered, Returns,
         Questions, Quits, QuestionAsked
<1>2. TerminalIsHandedOn'
  BY DEF LineLost, Interrupted, InputEnds, FollowAnswered, PromptShown, PromptAnswered, NumberAnswered, Returns,
         Questions, Quits, QuestionAsked, SessionCloses, TerminalInv, TerminalIsHandedOn
<1> QED BY <1>1, <1>2, AwayKeeps DEF Questions

LEMMA CommandsKeep ==
  ASSUME TerminalInv,
         \/ ConsoleLeft \/ CommandReturns \/ RunRefused \/ AgentStops
         \/ \E b \in BOOLEAN : SetupReturns(b) \/ AgentStarted(b) \/ AgentsKilled(b)
         \/ \E by \in {"interval", "child"} : LogsFollowed(by)
  PROVE  TerminalInv'
<1>1. console \in {"command", "chosen", "agent"} /\ console' # "menu" /\ UNCHANGED <<menu, typed>>
  BY DEF ConsoleLeft, CommandReturns, RunRefused, AgentStops, SetupReturns, AgentStarted, AgentsKilled, LogsFollowed,
         Dispatching, Quits, QuestionAsked
<1>2. TerminalIsHandedOn'
  BY DEF ConsoleLeft, CommandReturns, RunRefused, AgentStops, SetupReturns, AgentStarted, AgentsKilled, LogsFollowed,
         Dispatching, Quits, QuestionAsked, SessionCloses, TerminalInv, TerminalIsHandedOn
<1> QED BY <1>1, <1>2, AwayKeeps

LEMMA MenuEnds == ASSUME TerminalInv, OptionPicked \/ MenuCancelled PROVE TerminalInv'
<1>1. menu' = NoMenu /\ typed' = 0 /\ console' # "menu"
  BY DEF OptionPicked, MenuCancelled, MenuDone, QuestionAsked
<1>2. TerminalIsHandedOn'
  BY DEF OptionPicked, MenuCancelled, MenuDone, QuestionAsked, TerminalInv, TerminalIsHandedOn
<1> QED BY <1>1, <1>2, AwayFromMenu DEF TerminalInv

LEMMA TerminalInvStep == ASSUME TerminalInv, [TerminalNext]_terminalVars PROVE TerminalInv'
<1>1. CASE UNCHANGED terminalVars
  BY <1>1 DEF terminalVars, TerminalInv, MenuFollowsKeys, TerminalIsHandedOn
<1>2. CASE \/ PromptShown \/ LineLost \/ Interrupted \/ InputEnds \/ FollowAnswered
           \/ \E b \in BOOLEAN : PromptAnswered(b) \/ NumberAnswered(b)
  BY <1>2, QuestionsKeep
<1>3. CASE \/ ConsoleLeft \/ CommandReturns \/ RunRefused \/ AgentStops
           \/ \E b \in BOOLEAN : SetupReturns(b) \/ AgentStarted(b) \/ AgentsKilled(b)
           \/ \E by \in {"interval", "child"} : LogsFollowed(by)
  BY <1>3, CommandsKeep
<1>4. ASSUME NEW b \in BOOLEAN, ChoiceAsked(b) PROVE TerminalInv'
  BY <1>4, ChoiceAskedKeeps
<1>5. CASE OptionPicked \/ MenuCancelled
  BY <1>5, MenuEnds
<1>6. CASE DigitsPause
  BY <1>6, DigitsPauseKeeps
<1>7. ASSUME NEW way \in {-1, 1}, ArrowPressed(way) PROVE TerminalInv'
  BY <1>7, ArrowPressedKeeps
<1>8. ASSUME NEW d \in MenuDigits, DigitPressed(d) PROVE TerminalInv'
  BY <1>8, DigitPressedKeeps
<1> QED BY <1>1, <1>2, <1>3, <1>4, <1>5, <1>6, <1>7, <1>8 DEF TerminalNext

LEMMA TerminalStarts == ASSUME TerminalInit PROVE TerminalInv
BY DEF TerminalInit, TerminalInv, MenuFollowsKeys, TerminalIsHandedOn, NoMenu, Interfered

\* The page that is shown reaches the cursor, wherever that is.
LEMMA CursorIsShown ==
  ASSUME NEW c \in 1..Options PROVE c - FirstShown(c) \in 0..PerPage - 1
<1>1. Options \in Nat /\ PerPage \in Nat /\ PerPage > 0
  BY TerminalAssumption
<1>2. PICK h \in Nat : h = PerPage \div 2 /\ 2 * h <= PerPage /\ PerPage <= 2 * h + 1
  BY <1>1
<1> QED BY <1>1, <1>2 DEF FirstShown

LEMMA KeysHeard == ASSUME TerminalInv PROVE KeysAreHeard
<1>1. console = "menu" => menu.cursor - FirstShown(menu.cursor) \in 0..PerPage - 1
  BY CursorIsShown DEF TerminalInv, MenuFollowsKeys
<1>2. typed \in 1..Options => menu.cursor = typed
  BY DEF TerminalInv, MenuFollowsKeys
<1> QED BY <1>1, <1>2 DEF KeysAreHeard, TypedIsPointedAt, TerminalInv

-----------------------------------------------------------------------------
(***************************************************************************)
(* OwnerStream: the quota holds, and every trade is in one digest.         *)
(***************************************************************************)

LEMMA StreamSteps == ASSUME [PlaneNext]_planeVars PROVE [StreamNext]_streamVars
BY DEF PlaneNext, planeVars, Group1, Group2, Group3, Group4, Group5

\* What the emitter notes is what it started, as far as the last minute reaches.
NotesAreTrue ==
    /\ clock \in Clock /\ sentAt \in [Clock -> Nat] /\ started \in [Clock -> Nat]
    /\ \A t \in Clock : t > clock - Minute => started[t] = sentAt[t]
    /\ Total(Recent(sentAt), MaxClock) <= PerMinuteCap

\* The window holds the trades that no digest has counted.
TradesAreCounted ==
    /\ DOMAIN window = {"evaluated", "trades", "scanned"} /\ window.trades \in Nat
    /\ DOMAIN done = {"steps", "trades", "passes", "scanned"} /\ done.trades \in Nat
    /\ digested.trades \in Nat /\ EveryTradeInOneDigest

StreamInv == NotesAreTrue /\ TradesAreCounted

LEMMA RecentIs ==
  ASSUME NotesAreTrue
  PROVE  /\ Recent(sentAt) \in [Clock -> Nat] /\ Recent(started) = Recent(sentAt)
         /\ Total(Recent(sentAt), MaxClock) \in Nat /\ MaxClock \in Nat /\ Minute \in Nat /\ PerMinuteCap \in Nat
<1>1. MaxClock \in Nat /\ Minute \in Nat /\ PerMinuteCap \in Nat
  BY StreamAssumption
<1>2. Recent(sentAt) \in [Clock -> Nat] /\ Recent(started) = Recent(sentAt)
  BY DEF NotesAreTrue, Recent
<1>3. \A t \in 1..MaxClock : Recent(sentAt)[t] \in Nat
  BY <1>2 DEF Clock
<1> QED BY <1>1, <1>2, <1>3, TotalCovers

\* Over the quota nothing is started; below it one request is noted and started.
LEMMA EmitKeeps == ASSUME NotesAreTrue, Emit, UNCHANGED clock PROVE NotesAreTrue'
<1>1. PICK recent : recent = Recent(sentAt)
  OBVIOUS
<1>2. /\ recent \in [Clock -> Nat] /\ Recent(started) = recent /\ Total(recent, MaxClock) \in Nat
      /\ MaxClock \in Nat /\ Minute \in Nat /\ PerMinuteCap \in Nat /\ clock \in Clock /\ clock \in 1..MaxClock
  BY <1>1, RecentIs DEF NotesAreTrue, Clock
<1>3. \A t \in Clock : recent[t] = IF t > clock - Minute THEN sentAt[t] ELSE 0
  BY <1>1 DEF Recent
<1>4. CASE Total(recent, MaxClock) >= PerMinuteCap
  <2>1. sentAt' = recent /\ started' = started
    BY <1>1, <1>4 DEF Emit
  <2>2. \A t \in Clock : t > clock - Minute => started[t] = recent[t]
    BY <1>3 DEF NotesAreTrue
  <2>3. Recent(sentAt)' = recent
    <3>1. Recent(sentAt)' = [t \in Clock |-> IF t > clock - Minute THEN recent[t] ELSE 0]
      BY <2>1 DEF Recent, Clock
    <3>2. \A t \in Clock : (IF t > clock - Minute THEN recent[t] ELSE 0) = recent[t]
      BY <1>3
    <3> QED BY <1>2, <3>1, <3>2
  <2>4. Total(recent, MaxClock) <= PerMinuteCap
    BY <1>1 DEF NotesAreTrue
  <2>5. Total(Recent(sentAt), MaxClock)' <= PerMinuteCap
    BY <2>3, <2>4
  <2>6. started \in [Clock -> Nat]
    BY DEF NotesAreTrue
  <2> QED BY <1>2, <2>1, <2>2, <2>5, <2>6 DEF NotesAreTrue, Clock
<1>5. CASE ~(Total(recent, MaxClock) >= PerMinuteCap)
  <2>1. sentAt' = [recent EXCEPT ![clock] = @ + 1] /\ started' = [recent EXCEPT ![clock] = @ + 1]
    BY <1>1, <1>2, <1>5 DEF Emit, Started
  <2>2. sentAt' \in [Clock -> Nat] /\ started' = sentAt'
    BY <1>2, <2>1
  <2>3. PICK now : now = Recent(sentAt)'
    OBVIOUS
  <2>4. \A t \in 1..MaxClock : /\ recent[t] \in Int /\ now[t] \in Int
                              /\ now[t] <= recent[t] + (IF t = clock THEN 1 ELSE 0)
    <3>1. now = [t \in Clock |-> IF t > clock - Minute THEN sentAt'[t] ELSE 0]
      BY <2>3 DEF Recent, Clock
    <3>2. \A t \in Clock : sentAt'[t] = recent[t] + (IF t = clock THEN 1 ELSE 0)
      BY <1>2, <2>1
    <3> QED BY <1>2, <3>1, <3>2 DEF Clock
  <2>5. Total(now, MaxClock) <= Total(recent, MaxClock) + 1
    <3>1. 1 \in Int
      OBVIOUS
    <3> QED BY <1>2, <2>4, <3>1, TotalGrowsAtOne, Zenon
  <2>6. Total(now, MaxClock) \in Int
    BY <1>2, <2>4, TotalType
  <2>7. Total(now, MaxClock) <= PerMinuteCap
    BY <1>2, <1>5, <2>5, <2>6
  <2>8. Total(Recent(sentAt), MaxClock)' <= PerMinuteCap
    BY <2>3, <2>7
  <2> QED BY <1>2, <2>2, <2>8 DEF NotesAreTrue, Clock
<1> QED BY <1>4, <1>5

\* A request of a minute ago no longer counts.
LEMMA TimePassesKeeps == ASSUME StreamInv, TimePasses PROVE StreamInv'
<1>1. /\ clock < MaxClock /\ clock' = clock + 1
      /\ UNCHANGED <<sentAt, started, window, done, digested>>
  BY DEF TimePasses
<1>2. NotesAreTrue
  BY DEF StreamInv
<1>3. /\ clock \in 1..MaxClock /\ MaxClock \in Nat /\ Minute \in Nat /\ PerMinuteCap \in Nat
      /\ Total(Recent(sentAt), MaxClock) \in Nat /\ Total(Recent(sentAt), MaxClock) <= PerMinuteCap
  BY <1>2, RecentIs DEF NotesAreTrue, Clock
<1>4. PICK recent : recent = Recent(sentAt)
  OBVIOUS
<1>5. PICK now : now = Recent(sentAt)'
  OBVIOUS
<1>6. \A t \in 1..MaxClock : now[t] \in Int /\ recent[t] \in Int /\ now[t] <= recent[t]
  <2>1. now = [t \in Clock |-> IF t > clock' - Minute THEN sentAt[t] ELSE 0]
    BY <1>1, <1>5 DEF Recent, Clock
  <2>2. recent = [t \in Clock |-> IF t > clock - Minute THEN sentAt[t] ELSE 0]
    BY <1>4 DEF Recent
  <2>3. \A t \in 1..MaxClock : sentAt[t] \in Nat
    BY <1>2 DEF NotesAreTrue, Clock
  <2> QED BY <1>1, <1>3, <2>1, <2>2, <2>3 DEF Clock
<1>7. Total(now, MaxClock) <= Total(recent, MaxClock) /\ Total(now, MaxClock) \in Int
  BY <1>3, <1>6, TotalMonotone, TotalType
<1>8. Total(now, MaxClock) <= PerMinuteCap
  BY <1>3, <1>4, <1>7
<1>9. Total(Recent(sentAt), MaxClock)' <= PerMinuteCap
  BY <1>5, <1>8
<1>10. \A t \in Clock : t > clock' - Minute => started[t] = sentAt[t]
  BY <1>1, <1>2, <1>3 DEF NotesAreTrue, Clock
<1>11. NotesAreTrue'
  BY <1>1, <1>2, <1>3, <1>9, <1>10 DEF NotesAreTrue, Clock
<1>12. TradesAreCounted'
  BY <1>1 DEF StreamInv, TradesAreCounted, EveryTradeInOneDigest
<1> QED BY <1>11, <1>12 DEF StreamInv

LEMMA NotesUntouched == ASSUME NotesAreTrue, UNCHANGED <<clock, sentAt, started>> PROVE NotesAreTrue'
BY DEF NotesAreTrue, Clock, Recent

LEMMA TradesUntouched == ASSUME TradesAreCounted, UNCHANGED <<window, done, digested>> PROVE TradesAreCounted'
BY DEF TradesAreCounted, EveryTradeInOneDigest

LEMMA StepCompletesKeeps == ASSUME StreamInv, NEW traded \in BOOLEAN, StepCompletes(traded) PROVE StreamInv'
<1>1. PICK n \in {0, 1} : n = IF traded THEN 1 ELSE 0
  OBVIOUS
<1>2. /\ done' = [done EXCEPT !.steps = @ + 1, !.trades = @ + n]
      /\ window' = [window EXCEPT !.evaluated = @ + 1, !.trades = @ + n]
      /\ UNCHANGED <<clock, sentAt, started, digested>>
  BY <1>1 DEF StepCompletes
<1>3. TradesAreCounted
  BY DEF StreamInv
<1>4. /\ DOMAIN window' = {"evaluated", "trades", "scanned"} /\ window'.trades = window.trades + n
      /\ DOMAIN done' = {"steps", "trades", "passes", "scanned"} /\ done'.trades = done.trades + n
  BY <1>2, <1>3 DEF TradesAreCounted
<1>5. TradesAreCounted'
  BY <1>2, <1>3, <1>4 DEF TradesAreCounted, EveryTradeInOneDigest
<1> QED BY <1>2, <1>5, NotesUntouched DEF StreamInv

LEMMA PassReportedKeeps == ASSUME StreamInv, PassReported(1) PROVE StreamInv'
<1>1. /\ window' = [window EXCEPT !.scanned = @ + 1]
      /\ done' = [done EXCEPT !.passes = @ + 1, !.scanned = @ + 1]
      /\ UNCHANGED <<clock, sentAt, started, digested>>
  BY DEF PassReported
<1>2. TradesAreCounted
  BY DEF StreamInv
<1>3. /\ DOMAIN window' = {"evaluated", "trades", "scanned"} /\ window'.trades = window.trades
      /\ DOMAIN done' = {"steps", "trades", "passes", "scanned"} /\ done'.trades = done.trades
  BY <1>1, <1>2 DEF TradesAreCounted
<1>4. TradesAreCounted'
  BY <1>1, <1>2, <1>3 DEF TradesAreCounted, EveryTradeInOneDigest
<1> QED BY <1>1, <1>4, NotesUntouched DEF StreamInv

\* The digest counts the window and empties it in one turn.
LEMMA DigestGoesKeeps == ASSUME StreamInv, DigestGoes PROVE StreamInv'
<1>1. /\ Emit /\ UNCHANGED <<clock, done>> /\ window' = NoWindow
      /\ digested'.trades = digested.trades + window.trades
  BY DEF DigestGoes, DigestOf
<1>2. NotesAreTrue'
  BY <1>1, EmitKeeps DEF StreamInv
<1>3. DOMAIN window' = {"evaluated", "trades", "scanned"} /\ window'.trades = 0
  BY <1>1 DEF NoWindow
<1>4. TradesAreCounted'
  BY <1>1, <1>3 DEF StreamInv, TradesAreCounted, EveryTradeInOneDigest
<1> QED BY <1>2, <1>4 DEF StreamInv

LEMMA StreamInvStep == ASSUME StreamInv, [StreamNext]_streamVars PROVE StreamInv'
<1>1. ASSUME AlertGoes \/ \E gate \in GateWords : GateShown(gate) PROVE StreamInv'
  <2>1. Emit /\ UNCHANGED <<clock, window, done, digested>>
    BY <1>1 DEF AlertGoes, GateShown
  <2> QED BY <2>1, EmitKeeps, TradesUntouched DEF StreamInv
<1>2. ASSUME (\E ok \in BOOLEAN : TelegramAnswers(ok)) \/ UNCHANGED streamVars PROVE StreamInv'
  <2>1. UNCHANGED <<clock, sentAt, started, window, done, digested>>
    BY <1>2 DEF TelegramAnswers, streamVars
  <2> QED BY <2>1, NotesUntouched, TradesUntouched DEF StreamInv
<1> QED BY <1>1, <1>2, StepCompletesKeeps, PassReportedKeeps, DigestGoesKeeps, TimePassesKeeps DEF StreamNext

LEMMA StreamStarts == ASSUME StreamInit PROVE StreamInv
<1>1. /\ clock = 1 /\ sentAt = [t \in Clock |-> 0] /\ started = sentAt /\ window = NoWindow
      /\ done = [steps |-> 0, trades |-> 0, passes |-> 0, scanned |-> 0]
      /\ digested = [trades |-> 0, scanned |-> 0]
  BY DEF StreamInit
<1>2. MaxClock \in Nat /\ MaxClock >= 1 /\ PerMinuteCap \in Nat
  BY StreamAssumption
<1>3. PICK recent : recent = Recent(sentAt)
  OBVIOUS
<1>4. \A t \in 1..MaxClock : recent[t] = 0
  BY <1>1, <1>3 DEF Recent, Clock
<1>5. Total(recent, MaxClock) = 0
  BY <1>2, <1>4, TotalOfZeros
<1>6. Total(Recent(sentAt), MaxClock) <= PerMinuteCap
  BY <1>2, <1>3, <1>5
<1>7. NotesAreTrue
  BY <1>1, <1>2, <1>6 DEF NotesAreTrue, Clock
<1>8. TradesAreCounted
  BY <1>1 DEF TradesAreCounted, EveryTradeInOneDigest, NoWindow
<1> QED BY <1>7, <1>8 DEF StreamInv

LEMMA OwnerTold == ASSUME StreamInv PROVE OwnerIsTold
<1>1. Recent(started) = Recent(sentAt)
  BY RecentIs DEF StreamInv
<1> QED BY <1>1 DEF StreamInv, NotesAreTrue, TradesAreCounted, OwnerIsTold, QuotaHolds

\* Between the owner and the agent nothing is lost or done twice: the invariant of
\* the plane's run, for every number of messages, deaths, ticks and keys.
THEOREM OwnerHeard == PlaneSpec => []OwnerIsHeard
<1> DEFINE Inv == TelegramInv /\ StreamInv /\ TerminalInv
<1>1. PlaneInit => Inv
  BY TelegramStarts, StreamStarts, TerminalStarts DEF PlaneInit
<1>2. Inv /\ [PlaneNext]_planeVars => Inv'
  BY TelegramSteps, StreamSteps, TerminalSteps, TelegramInvStep, StreamInvStep, TerminalInvStep
<1>3. Inv => OwnerIsHeard
  BY TelegramConfirms, OwnerTold, KeysHeard DEF OwnerIsHeard
<1> QED BY <1>1, <1>2, <1>3, PTL DEF PlaneSpec

-----------------------------------------------------------------------------
(***************************************************************************)
(* Wizard: the address told is that of the key .env holds.                 *)
(***************************************************************************)

LEMMA WizardSteps == ASSUME [PlaneNext]_planeVars PROVE [WizardNext]_wizardVars
BY DEF PlaneNext, planeVars, Group1, Group2, Group3, Group4, Group5

WizardShape ==
    /\ DOMAIN env = DOMAIN FirstEnv /\ DOMAIN terminal = {"reading", "read", "edits"}
    /\ DOMAIN terminal.read = DOMAIN FirstEnv
    /\ DOMAIN wizard = DOMAIN NoSession /\ wizard.step \in Steps
    /\ minted \in 0..Len(Minted)

\* A turn between its writes carries the key minted last, which nobody has read yet.
KeyIsCarried ==
    /\ saving # NotSaving => minted > 0 /\ saving.key = Minted[minted]
    /\ saving.from = "wizard" => wizard.step = "wallet_confirm"

InUse(n) == {Unset, Own} \cup {Minted[i] : i \in 1..n}

\* The key in .env was minted before the one on its way; a terminal that is in the
\* middle of an edit has not read the key that was told since.
KeysAreKnown ==
    /\ {env.key, terminal.read.key} \subseteq InUse(IF saving = NotSaving THEN minted ELSE minted - 1)
    /\ told # Unset /\ ~clobbered => env.key = told
    /\ told # Unset /\ terminal.reading => terminal.read.key # env.key

WizardInv == WizardShape /\ KeyIsCarried /\ KeysAreKnown

\* What a turn makes of a session is a session, and it never writes the key.
LEMMA TurnIsOrderly ==
  ASSUME DOMAIN env = DOMAIN FirstEnv, NEW s, DOMAIN s = DOMAIN NoSession, s.step \in Steps \ {"none"},
         NEW said, NEW fresh
  PROVE  LET turn == OnboardNext(s, said, fresh)
         IN  /\ DOMAIN turn.next = DOMAIN NoSession /\ turn.next.step \in Steps
             /\ DOMAIN turn.env = DOMAIN FirstEnv /\ turn.env.key = env.key
<1> DEFINE Orderly(turn) == /\ DOMAIN turn.next = DOMAIN NoSession /\ turn.next.step \in Steps
                            /\ DOMAIN turn.env = DOMAIN FirstEnv /\ turn.env.key = env.key
<1>1. /\ DOMAIN NoSession = {"step", "account", "signer", "cap"} /\ NoSession.step = "none"
      /\ DOMAIN FirstEnv = {"key", "address", "account", "funder", "mode", "cap", "loss", "passphrase"}
  BY DEF NoSession, FirstEnv
<1>2. Orderly(Stay(s)) /\ Orderly(Stay(NoSession))
  BY <1>1 DEF Stay, Steps
<1>3. \A there \in Steps : Orderly(Goto(s, there))
  BY <1>1 DEF Goto
<1>4. \A there \in Steps : Orderly(Goto([s EXCEPT !.signer = fresh], there))
  BY <1>1 DEF Goto
<1>5. \A value : /\ Orderly(Save(s, "account", [env EXCEPT !.mode = value]))
                 /\ Orderly(Save([s EXCEPT !.account = said], "funder", [env EXCEPT !.account = value]))
                 /\ Orderly(Save(s, "capital", [env EXCEPT !.funder = value]))
                 /\ Orderly(Save([s EXCEPT !.cap = value], "loss", [env EXCEPT !.cap = value]))
                 /\ Orderly(Save(NoSession, "none", [env EXCEPT !.loss = value]))
  BY <1>1 DEF Save, Steps
<1> HIDE DEF Orderly
<1>6. CASE s.step \in {"provider", "baseurl", "model"}
  <2>1. Orderly(Brain(s, said))
    BY <1>2, <1>3, <1>6 DEF Brain, Steps
  <2> QED BY <1>2, <1>6, <2>1 DEF OnboardNext, Orderly
<1>7. CASE s.step \in {"wallet", "wallet_confirm", "mode", "mode_confirm"}
  <2>1. Orderly(Wallet(s, said, fresh))
    BY <1>2, <1>3, <1>4, <1>5, <1>7 DEF Wallet, Steps
  <2> QED BY <1>2, <1>7, <2>1 DEF OnboardNext, Orderly
<1>8. CASE s.step \in {"account", "funder", "capital", "loss"}
  <2>1. Orderly(Bounds(s, said))
    BY <1>2, <1>5, <1>8 DEF Bounds
  <2> QED BY <1>2, <1>8, <2>1 DEF OnboardNext, Orderly
<1> QED BY <1>6, <1>7, <1>8 DEF Steps

\* Nothing about the keys changes, or the session alone.
LEMMA KeysUntouched ==
  ASSUME WizardInv, DOMAIN env' = DOMAIN FirstEnv, env'.key = env.key,
         DOMAIN wizard' = DOMAIN NoSession, wizard'.step \in Steps,
         saving' = NotSaving \/ (saving' = saving /\ wizard' = wizard),
         UNCHANGED <<told, minted, terminal, clobbered>>
  PROVE  WizardInv'
<1>1. WizardShape'
  BY DEF WizardInv, WizardShape, FirstEnv, NoSession
<1>2. KeyIsCarried'
  BY DEF WizardInv, KeyIsCarried, NotSaving
<1>3. InUse(minted - 1) \subseteq InUse(minted) /\ InUse(minted)' = InUse(minted) /\ InUse(minted - 1)' = InUse(minted - 1)
  <2>1. minted \in Nat
    BY WizardAssumption DEF WizardInv, WizardShape
  <2>2. 1..minted - 1 \subseteq 1..minted
    BY <2>1
  <2> QED BY <2>2 DEF InUse
<1>4. {env'.key, terminal'.read.key} \subseteq InUse(IF saving' = NotSaving THEN minted ELSE minted - 1)
  BY <1>3 DEF WizardInv, KeysAreKnown
<1>5. KeysAreKnown'
  BY <1>4 DEF WizardInv, KeysAreKnown, InUse
<1> QED BY <1>1, <1>2, <1>5 DEF WizardInv

LEMMA OnboardTurnKeeps == ASSUME WizardInv, NEW said, OnboardTurn(said) PROVE WizardInv'
<1> DEFINE s == IF wizard.step = "none" THEN Fresh0 ELSE wizard
           turn == IF wizard.step = "none" /\ said = "" THEN Stay(Fresh0) ELSE OnboardNext(s, said, Unset)
<1>1. /\ Serves /\ wizard' = turn.next /\ env' = turn.env
      /\ UNCHANGED <<saving, told, minted, terminal, clobbered>>
  BY DEF OnboardTurn
<1>2. DOMAIN env = DOMAIN FirstEnv /\ DOMAIN wizard = DOMAIN NoSession /\ wizard.step \in Steps
  BY DEF WizardInv, WizardShape
<1>3. DOMAIN Fresh0 = DOMAIN NoSession /\ Fresh0.step = "provider"
  BY DEF Fresh0, NoSession
<1>4. DOMAIN s = DOMAIN NoSession /\ s.step \in Steps \ {"none"}
  BY <1>2, <1>3 DEF Steps
<1> HIDE DEF s
<1>5. /\ DOMAIN turn.next = DOMAIN NoSession /\ turn.next.step \in Steps
      /\ DOMAIN turn.env = DOMAIN FirstEnv /\ turn.env.key = env.key
  <2>1. CASE wizard.step = "none" /\ said = ""
    BY <1>2, <1>3, <2>1 DEF Stay, Steps
  <2>2. CASE ~(wizard.step = "none" /\ said = "")
    <3>1. turn = OnboardNext(s, said, Unset)
      BY <2>2
    <3> DEFINE after == OnboardNext(s, said, Unset)
    <3>2. /\ DOMAIN after.next = DOMAIN NoSession /\ after.next.step \in Steps
          /\ DOMAIN after.env = DOMAIN FirstEnv /\ after.env.key = env.key
      BY <1>2, <1>4, TurnIsOrderly, Zenon
    <3> HIDE DEF turn, after
    <3>3. turn = after
      BY <3>1 DEF after
    <3> QED BY <3>2, <3>3
  <2> QED BY <2>1, <2>2
<1> HIDE DEF turn
<1> QED BY <1>1, <1>5, KeysUntouched DEF Serves

\* The key on its way is a new one.
LEMMA MintsKeeps ==
  ASSUME WizardInv, NEW from \in {"wizard", "wallet"}, Serves, MintsTo(from), from = "wizard" => wizard.step = "wallet_confirm",
         UNCHANGED <<env, wizard, told, terminal, clobbered>>
  PROVE  WizardInv'
<1>1. /\ saving = NotSaving /\ minted < Len(Minted) /\ minted' = minted + 1
      /\ saving' = [from |-> from, key |-> Minted[minted']]
  BY DEF Serves, MintsTo
<1>2. minted \in Nat /\ minted' \in 0..Len(Minted) /\ minted' - 1 = minted
  BY <1>1 DEF WizardInv, WizardShape
<1>3. WizardShape'
  BY <1>2 DEF WizardInv, WizardShape, FirstEnv, NoSession
<1>4. KeyIsCarried'
  BY <1>1, <1>2 DEF KeyIsCarried
<1>5. saving' # NotSaving
  BY <1>1 DEF NotSaving
<1>6. {env.key, terminal.read.key} \subseteq InUse(minted' - 1)
  BY <1>1, <1>2 DEF WizardInv, KeysAreKnown
<1>7. KeysAreKnown'
  BY <1>5, <1>6 DEF WizardInv, KeysAreKnown, InUse, NotSaving
<1> QED BY <1>3, <1>4, <1>7 DEF WizardInv

\* The key that is told is the one .env holds from then on; no terminal had read it.
LEMMA SavesKeeps ==
  ASSUME WizardInv, saving # NotSaving, saving' = NotSaving, told' = saving.key,
         DOMAIN env' = DOMAIN FirstEnv, env'.key = saving.key,
         DOMAIN wizard' = DOMAIN NoSession, wizard'.step \in Steps,
         UNCHANGED <<minted, terminal, clobbered>>
  PROVE  WizardInv'
<1>1. minted \in Nat /\ minted > 0 /\ minted <= Len(Minted) /\ saving.key = Minted[minted]
  BY DEF WizardInv, WizardShape, KeyIsCarried
<1>2. WizardShape'
  BY DEF WizardInv, WizardShape, FirstEnv, NoSession
<1>3. KeyIsCarried'
  BY DEF KeyIsCarried, NotSaving
<1>4. terminal.read.key \in InUse(minted - 1) /\ InUse(minted - 1) \subseteq InUse(minted) /\ saving.key \in InUse(minted)
  BY <1>1 DEF WizardInv, KeysAreKnown, InUse
<1>5. saving.key \notin InUse(minted - 1)
  <2>1. minted \in 1..Len(Minted) /\ minted \notin 1..minted - 1 /\ 1..minted - 1 \subseteq 1..Len(Minted)
    BY <1>1
  <2>2. \A i \in 1..minted - 1 : Minted[i] # Minted[minted]
    BY <2>1, WizardAssumption
  <2>3. Minted[minted] \notin {Unset, Own}
    BY <2>1, WizardAssumption
  <2> QED BY <1>1, <2>2, <2>3 DEF InUse
<1>6. terminal'.read.key # env'.key
  BY <1>4, <1>5
<1>7. {env'.key, terminal'.read.key} \subseteq InUse(minted)'
  BY <1>4 DEF InUse
<1>8. KeysAreKnown'
  BY <1>6, <1>7 DEF KeysAreKnown
<1> QED BY <1>2, <1>3, <1>8 DEF WizardInv

LEMMA WizardSavesKeeps == ASSUME WizardInv, WizardSaves \/ WalletSaves PROVE WizardInv'
<1>1. DOMAIN env = DOMAIN FirstEnv /\ DOMAIN wizard = DOMAIN NoSession /\ wizard.step \in Steps /\ "key" \in DOMAIN FirstEnv
  BY DEF WizardInv, WizardShape, FirstEnv
<1>2. CASE WizardSaves
  <2>1. /\ saving.from = "wizard" /\ saving' = NotSaving /\ env' = [env EXCEPT !.key = saving.key] /\ told' = saving.key
        /\ wizard' = OnboardNext(wizard, "ya", saving.key).next /\ UNCHANGED <<minted, terminal, clobbered>>
    BY <1>2 DEF WizardSaves, WizardWrites
  <2>2. wizard.step = "wallet_confirm"
    BY <2>1 DEF WizardInv, KeyIsCarried
  <2>3. DOMAIN wizard' = DOMAIN NoSession /\ wizard'.step \in Steps
    BY <1>1, <2>1, <2>2, TurnIsOrderly DEF Steps
  <2>4. DOMAIN env' = DOMAIN FirstEnv /\ env'.key = saving.key
    BY <1>1, <2>1
  <2>5. saving # NotSaving
    BY <2>1 DEF NotSaving
  <2> QED BY <2>1, <2>3, <2>4, <2>5, SavesKeeps
<1>3. CASE WalletSaves
  <2>1. /\ saving.from = "wallet" /\ saving' = NotSaving /\ told' = saving.key
        /\ env' = [env EXCEPT !.key = saving.key, !.address = saving.key] /\ UNCHANGED <<wizard, minted, terminal, clobbered>>
    BY <1>3 DEF WalletSaves
  <2>2. DOMAIN env' = DOMAIN FirstEnv /\ env'.key = saving.key
    BY <1>1, <2>1
  <2>3. saving # NotSaving
    BY <2>1 DEF NotSaving
  <2> QED BY <1>1, <2>1, <2>2, <2>3, SavesKeeps
<1> QED BY <1>2, <1>3

LEMMA TerminalReadsKeeps == ASSUME WizardInv, TerminalReads PROVE WizardInv'
<1>1. /\ DOMAIN terminal' = {"reading", "read", "edits"} /\ terminal'.read = env /\ told' = Unset
      /\ UNCHANGED <<env, wizard, saving, minted, clobbered>>
  BY DEF TerminalReads
<1>2. WizardShape'
  BY <1>1 DEF WizardInv, WizardShape, FirstEnv, NoSession
<1>3. KeyIsCarried'
  BY <1>1 DEF WizardInv, KeyIsCarried, NotSaving
<1>4. KeysAreKnown'
  BY <1>1 DEF WizardInv, KeysAreKnown, InUse, NotSaving
<1> QED BY <1>2, <1>3, <1>4 DEF WizardInv

LEMMA TerminalWritesKeeps == ASSUME WizardInv, TerminalWrites PROVE WizardInv'
<1>1. /\ terminal.reading /\ terminal' = [terminal EXCEPT !.reading = FALSE, !.read = FirstEnv]
      /\ env' = [terminal.read EXCEPT !.key = Own, !.address = Own, !.passphrase = TRUE]
      /\ clobbered' = (clobbered \/ env # terminal.read)
      /\ UNCHANGED <<wizard, saving, told, minted>>
  BY DEF TerminalWrites
<1>2. /\ DOMAIN terminal = {"reading", "read", "edits"} /\ DOMAIN terminal.read = DOMAIN FirstEnv
      /\ "key" \in DOMAIN FirstEnv /\ FirstEnv.key = Unset
  BY DEF WizardInv, WizardShape, FirstEnv
<1>3. /\ DOMAIN terminal' = {"reading", "read", "edits"} /\ terminal'.read = FirstEnv /\ terminal'.reading = FALSE
      /\ DOMAIN env' = DOMAIN FirstEnv /\ env'.key = Own
  BY <1>1, <1>2
<1>4. WizardShape'
  BY <1>1, <1>3 DEF WizardInv, WizardShape, FirstEnv, NoSession
<1>5. KeyIsCarried'
  BY <1>1 DEF WizardInv, KeyIsCarried, NotSaving
<1>6. told # Unset => clobbered'
  BY <1>1 DEF WizardInv, KeysAreKnown
<1>7. {env'.key, terminal'.read.key} \subseteq {Unset, Own}
  BY <1>2, <1>3
<1>8. KeysAreKnown'
  BY <1>1, <1>3, <1>6, <1>7 DEF KeysAreKnown, InUse
<1> QED BY <1>4, <1>5, <1>8 DEF WizardInv

LEMMA WizardInvStep == ASSUME WizardInv, [WizardNext]_wizardVars PROVE WizardInv'
<1>1. DOMAIN env = DOMAIN FirstEnv /\ DOMAIN wizard = DOMAIN NoSession /\ wizard.step \in Steps
  BY DEF WizardInv, WizardShape
<1>2. NoSession.step \in Steps
  BY DEF NoSession, Steps
<1>3. ASSUME WizardMints PROVE WizardInv'
  BY <1>3, MintsKeeps DEF WizardMints
<1>4. ASSUME WalletMints PROVE WizardInv'
  <2>1. CASE env.passphrase
    BY <1>4, <2>1, MintsKeeps DEF WalletMints
  <2>2. CASE ~env.passphrase
    BY <1>1, <1>4, <2>2, KeysUntouched DEF WalletMints
  <2> QED BY <2>1, <2>2
<1>5. ASSUME WalletAsks PROVE WizardInv'
  BY <1>1, <1>5, KeysUntouched DEF WalletAsks
<1>6. ASSUME TimeRunsOut PROVE WizardInv'
  BY <1>1, <1>2, <1>6, KeysUntouched DEF TimeRunsOut, Serves
<1>7. ASSUME BotRestarts PROVE WizardInv'
  BY <1>1, <1>2, <1>7, KeysUntouched DEF BotRestarts
<1>8. ASSUME UNCHANGED wizardVars PROVE WizardInv'
  BY <1>1, <1>8, KeysUntouched DEF wizardVars
<1> QED BY <1>3, <1>4, <1>5, <1>6, <1>7, <1>8, OnboardTurnKeeps, WizardSavesKeeps, TerminalReadsKeeps,
           TerminalWritesKeeps DEF WizardNext

LEMMA WizardStarts == ASSUME WizardInit PROVE WizardInv
<1>1. /\ env = FirstEnv /\ wizard = NoSession /\ saving = NotSaving /\ told = Unset /\ minted = 0
      /\ terminal = [reading |-> FALSE, read |-> FirstEnv, edits |-> 0]
  BY DEF WizardInit
<1>2. WizardShape
  BY <1>1 DEF WizardShape, NoSession, Steps, FirstEnv
<1>3. KeyIsCarried
  BY <1>1 DEF KeyIsCarried, NotSaving
<1>4. KeysAreKnown
  BY <1>1 DEF KeysAreKnown, InUse, FirstEnv
<1> QED BY <1>2, <1>3, <1>4 DEF WizardInv

LEMMA WizardTells == ASSUME WizardInv PROVE ToldKeyIsUsed
BY DEF WizardInv, KeysAreKnown, ToldKeyIsUsed

-----------------------------------------------------------------------------
(***************************************************************************)
(* Setup: what the questions ask for is what the start insists on.         *)
(***************************************************************************)

LEMMA SetupSteps == ASSUME [PlaneNext]_planeVars PROVE [SetupNext]_setupVars
BY DEF PlaneNext, planeVars, Group1, Group2, Group3, Group4, Group5

Differ(account, funder, signer) == account # funder /\ account # signer /\ funder # signer

\* Of a dialog: what it has been told so far.
AnswersAreSound ==
    /\ DOMAIN dialog = DOMAIN NoSetup
    /\ dialog.command = "onboard" =>
        /\ dialog.step \in {"mode", "addresses", "bounds", "write"} => dialog.key \in WalletKeys
        /\ dialog.step \in {"bounds", "write"} =>
              /\ dialog.account \in Addresses /\ dialog.funder \in Addresses
              /\ dialog.detected \/ Differ(dialog.account, dialog.funder, dialog.key)
        /\ dialog.step = "write" => dialog.cap \in Nat \ {0} /\ dialog.bps \in Nat \ {0}

\* What an onboarding leaves behind, and the addresses that it compared.
Onboarded ==
    /\ dotenv.sealed \in WalletKeys /\ dotenv.address = dotenv.sealed
    /\ dotenv.account \in Addresses /\ dotenv.funder \in Addresses
    /\ dotenv.cap \in Nat \ {0} /\ dotenv.loss \in Nat
    /\ ended.detected \/ Differ(dotenv.account, dotenv.funder, dotenv.sealed)

SetupInv ==
    /\ DOMAIN dotenv = DOMAIN BlankEnv /\ DOMAIN ended = {"said", "commands", "detected", "cap", "loss"}
    /\ AnswersAreSound
    /\ dialog.command = "onboard" /\ dialog.step \in {"check", "demo"} => Onboarded
    /\ ended.said = "onboarded" => Onboarded
    /\ ToldLimitsAreStored

LEMMA NoSetupIs ==
  /\ DOMAIN NoSetup = {"command", "step", "brain", "key", "account", "funder", "detected", "cap", "bps", "markets"}
  /\ NoSetup.command = "none" /\ NoSetup.command # "onboard"
  /\ DOMAIN BlankEnv = {"sealed", "address", "account", "funder", "raw", "creds", "provider", "cap", "loss", "markets"}
BY DEF NoSetup, BlankEnv, None

LEMMA DistinctIs == ASSUME NEW a, NEW b, NEW c PROVE Distinct(a, b, c) <=> Differ(a, b, c)
<1> USE DEF Differ
<1>1. CASE Differ(a, b, c)
  <2>1. IsFiniteSet({a}) /\ Cardinality({a}) = 1
    BY FS_Singleton
  <2>2. IsFiniteSet({a, b}) /\ Cardinality({a, b}) = 2
    <3>1. b \notin {a} /\ {a} \cup {b} = {a, b}
      BY <1>1
    <3> QED BY <2>1, <3>1, FS_AddElement
  <2>3. Cardinality({a, b, c}) = 3
    <3>1. c \notin {a, b} /\ {a, b} \cup {c} = {a, b, c}
      BY <1>1
    <3> QED BY <2>2, <3>1, FS_AddElement
  <2> QED BY <1>1, <2>3 DEF Distinct
<1>2. CASE ~Differ(a, b, c)
  <2>1. PICK x, y : {a, b, c} = {x, y}
    BY <1>2
  <2>2. IsFiniteSet({x}) /\ Cardinality({x}) = 1
    BY FS_Singleton
  <2>3. {x} \cup {y} = {x, y}
    OBVIOUS
  <2>4. Cardinality({x, y}) \in {1, 2}
    BY <2>2, <2>3, FS_AddElement
  <2> QED BY <1>2, <2>1, <2>4 DEF Distinct
<1> QED BY <1>1, <1>2

LEMMA LossCapIs ==
  ASSUME NEW cap \in Nat \ {0}, NEW bps \in Nat \ {0} PROVE LossCapOf(cap, bps) \in Nat
<1>1. cap * bps \in Nat
  OBVIOUS
<1>2. PICK product \in Nat : product = cap * bps
  BY <1>1
<1>3. PICK amount \in Nat : amount = product \div 10000
  OBVIOUS
<1>4. amount - (amount % 2) \in Nat
  OBVIOUS
<1> QED BY <1>2, <1>3, <1>4 DEF LossCapOf, Floored

\* The doctor asks no less of .env than the start.
LEMMA DoctorIsRight == DoctorProves
<1> SUFFICES ASSUME LivePreflight(dotenv, Sound) PROVE Starts(dotenv)
  BY DEF DoctorProves
<1>1. /\ BoundsPass(dotenv) /\ HasKey(dotenv) /\ Aligned(dotenv) /\ dotenv.address \in {None, SigningKey(dotenv)}
      /\ None \notin {dotenv.account, dotenv.funder} /\ dotenv.creds
      /\ Distinct(dotenv.account, dotenv.funder, SigningKey(dotenv))
  BY DEF LivePreflight, WalletVerified
<1>2. dotenv.account # dotenv.funder
  BY <1>1, DistinctIs DEF Differ
<1>3. PreflightPasses(dotenv)
  BY <1>1 DEF PreflightPasses
<1>4. RuntimeEnvPasses(dotenv)
  BY <1>1, <1>2 DEF RuntimeEnvPasses
<1> QED BY <1>1, <1>3, <1>4 DEF Starts

\* A question that is answered, and nothing written.
LEMMA DialogGoesOn ==
  ASSUME SetupInv, UNCHANGED <<dotenv, ended>>, AnswersAreSound',
         dialog'.command = "onboard" /\ dialog'.step \in {"check", "demo"} =>
             Onboarded
  PROVE  SetupInv'
BY DEF SetupInv, Onboarded, ToldLimitsAreStored

\* A dialog of another command, or of none.
LEMMA OthersKeep ==
  ASSUME SetupInv, DOMAIN dialog' = DOMAIN NoSetup, dialog'.command # "onboard", UNCHANGED <<dotenv, ended>>
  PROVE  SetupInv'
<1>1. AnswersAreSound'
  BY DEF AnswersAreSound
<1> QED BY <1>1, DialogGoesOn

LEMMA BeginsKeeps ==
  ASSUME SetupInv, Begins("onboard", "provider") \/ Begins("setup", "bounds") PROVE SetupInv'
<1>1. UNCHANGED dotenv /\ ended' = [ended EXCEPT !.commands = @ + 1]
  BY DEF Begins
<1>2. DOMAIN ended = {"said", "commands", "detected", "cap", "loss"}
  BY DEF SetupInv
<1>3. /\ DOMAIN ended' = {"said", "commands", "detected", "cap", "loss"} /\ ended'.said = ended.said
      /\ ended'.detected = ended.detected /\ ended'.cap = ended.cap /\ ended'.loss = ended.loss
  BY <1>1, <1>2
<1>4. DOMAIN dialog' = DOMAIN NoSetup /\ dialog'.step \in {"provider", "bounds"}
      /\ dialog'.command \in {"onboard", "setup"} /\ (dialog'.command = "onboard" => dialog'.step = "provider")
  BY NoSetupIs DEF Begins
<1>5. AnswersAreSound'
  BY <1>4 DEF AnswersAreSound
<1> QED BY <1>1, <1>3, <1>4, <1>5 DEF SetupInv, Onboarded, ToldLimitsAreStored

LEMMA CancelsKeeps == ASSUME SetupInv, Cancels PROVE SetupInv'
BY OthersKeep, NoSetupIs DEF Cancels

\* The provider, its key and whether it can be reached.
LEMMA BrainKeeps ==
  ASSUME SetupInv,
         \/ \E brain \in Brains : OnboardProvider(brain)
         \/ \E ready, goesOn \in BOOLEAN : OnboardKey(ready, goesOn) \/ OnboardReach(ready, goesOn)
         \/ \E wellFormed \in BOOLEAN : OnboardCustom(wellFormed)
  PROVE  SetupInv'
<1>1. DOMAIN dialog = DOMAIN NoSetup
  BY DEF SetupInv, AnswersAreSound
<1>2. UNCHANGED <<dotenv, ended>>
  BY DEF OnboardProvider, OnboardKey, OnboardReach, OnboardCustom
<1>3. \/ dialog' = NoSetup
      \/ \E brain : dialog' = [[dialog EXCEPT !.brain = brain] EXCEPT !.step = "key"]
      \/ dialog' = [[dialog EXCEPT !.brain = None] EXCEPT !.step = "wallet"]
      \/ dialog' = [dialog EXCEPT !.step = "reach"]
  BY DEF OnboardProvider, OnboardKey, OnboardReach, OnboardCustom, Answer, AsksNext
<1>4. \/ dialog' = NoSetup
      \/ DOMAIN dialog' = DOMAIN NoSetup /\ dialog'.step \in {"key", "wallet", "reach"}
  BY <1>1, <1>3, NoSetupIs
<1>5. AnswersAreSound'
  BY <1>4, NoSetupIs DEF AnswersAreSound
<1>6. ~(dialog'.command = "onboard" /\ dialog'.step \in {"check", "demo"})
  BY <1>4, NoSetupIs
<1> QED BY <1>2, <1>5, <1>6, DialogGoesOn

LEMMA OnboardAsksKeeps ==
  ASSUME SetupInv,
         \/ \E key \in WalletKeys : OnboardWallet(key)
         \/ OnboardMode
         \/ \E account, funder \in Addresses : OnboardAddresses(account, funder)
         \/ \E cap \in CapAnswers, bps \in BpsAnswers : OnboardBounds(cap, bps)
  PROVE  SetupInv'
<1>1. DOMAIN dialog = DOMAIN NoSetup /\ AnswersAreSound
  BY DEF SetupInv, AnswersAreSound
<1>2. UNCHANGED <<dotenv, ended>>
  BY DEF OnboardWallet, OnboardMode, OnboardAddresses, OnboardBounds
<1>3. ASSUME NEW key \in WalletKeys, OnboardWallet(key) PROVE AnswersAreSound' /\ dialog'.step = "mode"
  <2>1. dialog' = [[dialog EXCEPT !.key = key] EXCEPT !.step = "mode"]
    BY <1>3 DEF OnboardWallet, Answer
  <2>2. DOMAIN dialog' = DOMAIN NoSetup /\ dialog'.step = "mode" /\ dialog'.key = key
    BY <1>1, <2>1, NoSetupIs
  <2> QED BY <2>2 DEF AnswersAreSound
<1>4. ASSUME OnboardMode PROVE AnswersAreSound' /\ dialog'.step = "addresses"
  <2>1. dialog' = [dialog EXCEPT !.step = "addresses"] /\ dialog.command = "onboard" /\ dialog.step = "mode"
    BY <1>4 DEF OnboardMode, AsksNext, Answer, Asking
  <2>2. DOMAIN dialog' = DOMAIN NoSetup /\ dialog'.step = "addresses" /\ dialog'.key = dialog.key
    BY <1>1, <2>1, NoSetupIs
  <2> QED BY <1>1, <2>1, <2>2 DEF AnswersAreSound
<1>5. ASSUME NEW account \in Addresses, NEW funder \in Addresses, OnboardAddresses(account, funder)
      PROVE  AnswersAreSound' /\ dialog'.step = "bounds"
  <2>1. dialog.command = "onboard" /\ dialog.step = "addresses" /\ dialog.key \in WalletKeys
    BY <1>1, <1>5 DEF OnboardAddresses, Asking, AnswersAreSound
  <2>2. \/ dialog' = [[dialog EXCEPT !.account = account, !.funder = funder, !.detected = TRUE] EXCEPT !.step = "bounds"]
        \/ /\ dialog' = [[dialog EXCEPT !.account = account, !.funder = funder] EXCEPT !.step = "bounds"]
           /\ account # dialog.key /\ funder \notin {dialog.key, account}
    BY <1>5 DEF OnboardAddresses, Answer, TypedFunder
  <2>3. /\ DOMAIN dialog' = DOMAIN NoSetup /\ dialog'.step = "bounds" /\ dialog'.key = dialog.key
        /\ dialog'.account = account /\ dialog'.funder = funder
        /\ dialog'.detected = TRUE \/ Differ(account, funder, dialog.key)
    BY <1>1, <2>2, NoSetupIs DEF Differ
  <2> QED BY <2>1, <2>3 DEF AnswersAreSound
<1>6. ASSUME NEW cap \in CapAnswers, NEW bps \in BpsAnswers, OnboardBounds(cap, bps)
      PROVE  AnswersAreSound' /\ dialog'.step = "write"
  <2>1. dialog.command = "onboard" /\ dialog.step = "bounds"
    BY <1>6 DEF OnboardBounds, Asking
  <2>2. PICK c, b : c = Bounded(cap, StandardCap) /\ b = Bounded(bps, StandardBps)
    OBVIOUS
  <2>3. c \in Nat \ {0} /\ b \in Nat \ {0}
    BY <2>2, SetupAssumption DEF Bounded
  <2>4. dialog' = [[dialog EXCEPT !.cap = c, !.bps = b] EXCEPT !.step = "write"]
    BY <1>6, <2>2 DEF OnboardBounds, Answer
  <2>5. /\ DOMAIN dialog' = DOMAIN NoSetup /\ dialog'.step = "write" /\ dialog'.key = dialog.key
        /\ dialog'.account = dialog.account /\ dialog'.funder = dialog.funder /\ dialog'.detected = dialog.detected
        /\ dialog'.cap = c /\ dialog'.bps = b
    BY <1>1, <2>4, NoSetupIs
  <2> QED BY <1>1, <2>1, <2>3, <2>5 DEF AnswersAreSound
<1>7. AnswersAreSound' /\ dialog'.step \in {"mode", "addresses", "bounds", "write"}
  BY <1>3, <1>4, <1>5, <1>6
<1> QED BY <1>2, <1>7, DialogGoesOn

LEMMA OnboardWritesKeeps == ASSUME SetupInv, OnboardWrites PROVE SetupInv'
<1>1. /\ dialog.command = "onboard" /\ dialog.step = "write"
      /\ dotenv' = [dotenv EXCEPT !.sealed = dialog.key, !.address = dialog.key,
           !.account = dialog.account, !.funder = dialog.funder, !.provider = TRUE, !.markets = "auto",
           !.cap = dialog.cap, !.loss = LossCapOf(dialog.cap, dialog.bps)]
      /\ ended' = [ended EXCEPT !.said = None, !.detected = dialog.detected]
      /\ dialog' = [dialog EXCEPT !.step = "check"]
  BY DEF OnboardWrites, Asking, AsksNext, Answer
<1>2. /\ DOMAIN dialog = DOMAIN NoSetup /\ DOMAIN dotenv = DOMAIN BlankEnv
      /\ DOMAIN ended = {"said", "commands", "detected", "cap", "loss"}
      /\ dialog.key \in WalletKeys /\ dialog.account \in Addresses /\ dialog.funder \in Addresses
      /\ dialog.detected \/ Differ(dialog.account, dialog.funder, dialog.key)
      /\ dialog.cap \in Nat \ {0} /\ dialog.bps \in Nat \ {0}
  BY <1>1 DEF SetupInv, AnswersAreSound
<1>3. PICK loss \in Nat : loss = LossCapOf(dialog.cap, dialog.bps)
  BY <1>2, LossCapIs
<1>4. /\ DOMAIN dotenv' = DOMAIN BlankEnv /\ dotenv'.sealed = dialog.key /\ dotenv'.address = dialog.key
      /\ dotenv'.account = dialog.account /\ dotenv'.funder = dialog.funder
      /\ dotenv'.cap = dialog.cap /\ dotenv'.loss = loss
  BY <1>1, <1>2, <1>3, NoSetupIs
<1>5. DOMAIN ended' = {"said", "commands", "detected", "cap", "loss"} /\ ended'.said = "none" /\ ended'.detected = dialog.detected
  BY <1>1, <1>2 DEF None
<1>6. DOMAIN dialog' = DOMAIN NoSetup /\ dialog'.step = "check"
  BY <1>1, <1>2, NoSetupIs
<1>7. AnswersAreSound'
  BY <1>6 DEF AnswersAreSound
<1>8. Onboarded'
  BY <1>2, <1>3, <1>4, <1>5 DEF Onboarded, Addresses
<1> QED BY <1>4, <1>5, <1>7, <1>8 DEF SetupInv, ToldLimitsAreStored

\* The command ends on the .env it wrote.
LEMMA OnboardEndsKeeps ==
  ASSUME SetupInv, OnboardDemo \/ \E migrated, database, rpc \in BOOLEAN : OnboardChecks(migrated, database, rpc)
  PROVE  SetupInv'
<1>1. /\ dialog.command = "onboard" /\ dialog.step \in {"check", "demo"} /\ UNCHANGED dotenv
      /\ \/ dialog' = [dialog EXCEPT !.step = "demo"] /\ UNCHANGED ended
         \/ dialog' = NoSetup /\ ended' = [ended EXCEPT !.said = "onboarded"]
  BY DEF OnboardDemo, OnboardChecks, Asking, AsksNext, Answer, Ends
<1>2. Onboarded /\ DOMAIN dialog = DOMAIN NoSetup /\ DOMAIN ended = {"said", "commands", "detected", "cap", "loss"}
      /\ DOMAIN dotenv = DOMAIN BlankEnv
  BY <1>1 DEF SetupInv, AnswersAreSound
<1>3. CASE dialog' = [dialog EXCEPT !.step = "demo"] /\ UNCHANGED ended
  <2>1. DOMAIN dialog' = DOMAIN NoSetup /\ dialog'.step = "demo"
    BY <1>2, <1>3, NoSetupIs
  <2>2. AnswersAreSound'
    BY <2>1 DEF AnswersAreSound
  <2> QED BY <1>1, <1>2, <1>3, <2>2, DialogGoesOn
<1>4. CASE dialog' = NoSetup /\ ended' = [ended EXCEPT !.said = "onboarded"]
  <2>1. /\ DOMAIN ended' = {"said", "commands", "detected", "cap", "loss"} /\ ended'.said = "onboarded"
        /\ ended'.detected = ended.detected
    BY <1>2, <1>4
  <2>2. AnswersAreSound'
    BY <1>4, NoSetupIs DEF AnswersAreSound
  <2>3. Onboarded'
    BY <1>1, <1>2, <2>1 DEF Onboarded, Addresses
  <2> QED BY <1>1, <1>2, <1>4, <2>1, <2>2, <2>3, NoSetupIs DEF SetupInv, ToldLimitsAreStored
<1> QED BY <1>1, <1>3, <1>4

\* The questions of `setup`; what it writes takes back what was said before.
LEMMA SetupAsksKeeps ==
  ASSUME SetupInv, dialog.command = "setup", DOMAIN dialog' = DOMAIN NoSetup, dialog'.command = "setup",
         DOMAIN dotenv' = DOMAIN BlankEnv,
         \/ UNCHANGED <<dotenv, ended>>
         \/ ended' = [ended EXCEPT !.said = None, !.detected = FALSE]
  PROVE  SetupInv'
<1>1. CASE UNCHANGED <<dotenv, ended>>
  BY <1>1, OthersKeep
<1>2. CASE ended' = [ended EXCEPT !.said = None, !.detected = FALSE]
  <2>1. DOMAIN ended' = {"said", "commands", "detected", "cap", "loss"} /\ ended'.said = "none"
    BY <1>2 DEF SetupInv, None
  <2>2. AnswersAreSound'
    BY DEF AnswersAreSound
  <2> QED BY <2>1, <2>2 DEF SetupInv, ToldLimitsAreStored
<1> QED BY <1>1, <1>2

LEMMA SetupQuestionsKeep ==
  ASSUME SetupInv,
         \/ \E cap \in CapAnswers, bps \in BpsAnswers : SetupBounds(cap, bps)
         \/ \E markets : SetupMarkets(markets)
         \/ \E key \in WalletKeys : SetupWallet(key)
         \/ SetupKeepsWallet
         \/ \E entered \in BOOLEAN : SetupCreds(entered)
  PROVE  SetupInv'
<1>1. DOMAIN dialog = DOMAIN NoSetup /\ DOMAIN dotenv = DOMAIN BlankEnv
  BY DEF SetupInv, AnswersAreSound
<1> DEFINE Silent == UNCHANGED <<dotenv, ended>>
           Wrote == DOMAIN dotenv' = DOMAIN dotenv /\ ended' = [ended EXCEPT !.said = None, !.detected = FALSE]
           Next0(q) == dialog' = [dialog EXCEPT !.step = q]
<1>2. ASSUME NEW cap, NEW bps, SetupBounds(cap, bps)
      PROVE  dialog.command = "setup" /\ Silent /\ DOMAIN dialog' = DOMAIN NoSetup /\ dialog'.command = "setup"
  <2>1. PICK c, b : dialog' = [[dialog EXCEPT !.cap = c, !.bps = b] EXCEPT !.step = "markets"]
    BY <1>2 DEF SetupBounds, Answer
  <2>2. dialog.command = "setup" /\ Silent
    BY <1>2 DEF SetupBounds, Asking
  <2> QED BY <1>1, <2>1, <2>2, NoSetupIs
<1>3. ASSUME NEW markets, SetupMarkets(markets)
      PROVE  dialog.command = "setup" /\ Silent /\ DOMAIN dialog' = DOMAIN NoSetup /\ dialog'.command = "setup"
  <2>1. dialog' = [[dialog EXCEPT !.markets = markets] EXCEPT !.step = "wallet"]
    BY <1>3 DEF SetupMarkets, Answer
  <2>2. dialog.command = "setup" /\ Silent
    BY <1>3 DEF SetupMarkets, Asking
  <2> QED BY <1>1, <2>1, <2>2, NoSetupIs
<1>4. ASSUME NEW key, SetupWallet(key) PROVE dialog.command = "setup" /\ Wrote /\ Next0("creds")
  BY <1>4 DEF SetupWallet, Asking, AsksNext, Answer, WritesEnv
<1>5. ASSUME SetupKeepsWallet PROVE dialog.command = "setup" /\ Silent /\ Next0("creds")
  BY <1>5 DEF SetupKeepsWallet, Asking, AsksNext, Answer
<1>6. ASSUME NEW entered, SetupCreds(entered)
      PROVE  dialog.command = "setup" /\ (Silent \/ Wrote) /\ Next0("save")
  BY <1>6 DEF SetupCreds, Asking, AsksNext, Answer, WritesEnv
<1>7. ASSUME NEW q, dialog.command = "setup", Next0(q) PROVE DOMAIN dialog' = DOMAIN NoSetup /\ dialog'.command = "setup"
  BY <1>1, <1>7, NoSetupIs
<1>8. dialog.command = "setup" /\ (Silent \/ Wrote)
  BY <1>2, <1>3, <1>4, <1>5, <1>6
<1>9. DOMAIN dialog' = DOMAIN NoSetup /\ dialog'.command = "setup"
  BY <1>2, <1>3, <1>4, <1>5, <1>6, <1>7
<1> QED BY <1>1, <1>8, <1>9, SetupAsksKeeps

\* The limits told are those stored.
LEMMA SetupSavesKeeps == ASSUME SetupInv, SetupSaves PROVE SetupInv'
<1>1. /\ dotenv' = Stored(dotenv, dialog) /\ dialog' = NoSetup
      /\ ended' = [ended EXCEPT !.said = "saved", !.detected = FALSE, !.cap = dialog.cap,
                                !.loss = LossCapOf(dialog.cap, dialog.bps)]
  BY DEF SetupSaves
<1>2. DOMAIN dotenv = DOMAIN BlankEnv /\ DOMAIN ended = {"said", "commands", "detected", "cap", "loss"}
  BY DEF SetupInv
<1>3. /\ DOMAIN dotenv' = DOMAIN BlankEnv /\ dotenv'.cap = Bounded(dialog.cap, StandardCap)
      /\ dotenv'.loss = LossCapOf(Bounded(dialog.cap, StandardCap), dialog.bps)
  BY <1>1, <1>2, NoSetupIs DEF Stored
<1>4. /\ DOMAIN ended' = {"said", "commands", "detected", "cap", "loss"} /\ ended'.said = "saved"
      /\ ended'.cap = dialog.cap /\ ended'.loss = LossCapOf(dialog.cap, dialog.bps)
  BY <1>1, <1>2
<1>5. ToldLimitsAreStored'
  BY <1>3, <1>4 DEF ToldLimitsAreStored, Bounded
<1>6. AnswersAreSound'
  BY <1>1, NoSetupIs DEF AnswersAreSound
<1> QED BY <1>1, <1>3, <1>4, <1>5, <1>6, NoSetupIs DEF SetupInv

LEMMA SetKeyKeeps == ASSUME SetupInv, SetKey PROVE SetupInv'
<1>1. dialog.command = None /\ dotenv' = [dotenv EXCEPT !.provider = TRUE] /\ UNCHANGED <<dialog, ended>>
  BY DEF SetKey
<1>2. DOMAIN dotenv = DOMAIN BlankEnv
  BY DEF SetupInv
<1>3. /\ DOMAIN dotenv' = DOMAIN BlankEnv /\ dotenv'.sealed = dotenv.sealed /\ dotenv'.address = dotenv.address
      /\ dotenv'.account = dotenv.account /\ dotenv'.funder = dotenv.funder
      /\ dotenv'.cap = dotenv.cap /\ dotenv'.loss = dotenv.loss
  BY <1>1, <1>2, NoSetupIs
<1>4. Onboarded => Onboarded'
  BY <1>1, <1>3 DEF Onboarded, Addresses
<1>5. AnswersAreSound'
  BY <1>1 DEF SetupInv, AnswersAreSound, Addresses, NoSetup
<1> QED BY <1>1, <1>3, <1>4, <1>5 DEF SetupInv, ToldLimitsAreStored

LEMMA SetupInvStep == ASSUME SetupInv, [SetupNext]_setupVars PROVE SetupInv'
<1>1. CASE UNCHANGED setupVars
  <2>1. UNCHANGED <<dotenv, dialog, ended>>
    BY <1>1 DEF setupVars
  <2>2. AnswersAreSound'
    BY <2>1 DEF SetupInv, AnswersAreSound, Addresses, NoSetup
  <2> QED BY <2>1, <2>2, DialogGoesOn DEF SetupInv
<1> QED BY <1>1, BeginsKeeps, CancelsKeeps, BrainKeeps, OnboardAsksKeeps, OnboardWritesKeeps, OnboardEndsKeeps,
           SetupQuestionsKeep, SetupSavesKeeps, SetKeyKeeps DEF SetupNext

LEMMA SetupStarts == ASSUME SetupInit PROVE SetupInv
<1>1. /\ DOMAIN dotenv = DOMAIN BlankEnv /\ dialog = NoSetup
      /\ ended = [said |-> None, commands |-> 0, detected |-> FALSE, cap |-> 0, loss |-> 0]
  BY NoSetupIs DEF SetupInit
<1>2. AnswersAreSound
  BY <1>1, NoSetupIs DEF AnswersAreSound
<1>3. ended.said = "none" /\ DOMAIN ended = {"said", "commands", "detected", "cap", "loss"}
  BY <1>1 DEF None
<1> QED BY <1>1, <1>2, <1>3, NoSetupIs DEF SetupInv, ToldLimitsAreStored

LEMMA SetupLeads == ASSUME SetupInv PROVE SetupLeadsToStart
<1>1. ToldLimitsAreStored
  BY DEF SetupInv
<1>2. OnboardedStarts
  <2> SUFFICES ASSUME ended.said = "onboarded", dotenv.creds, Aligned(dotenv), ~ended.detected, dotenv.loss # 0
               PROVE  Starts(dotenv)
    BY DEF OnboardedStarts
  <2>1. Onboarded
    BY DEF SetupInv
  <2>2. HasKey(dotenv) /\ None \notin {dotenv.account, dotenv.funder} /\ BoundsPass(dotenv)
    BY <2>1, SetupAssumption DEF Onboarded, HasKey, Addresses, BoundsPass
  <2>3. Distinct(dotenv.account, dotenv.funder, dotenv.address) /\ dotenv.account # dotenv.funder
    BY <2>1, DistinctIs DEF Onboarded, Differ
  <2> QED BY <2>2, <2>3 DEF Starts, PreflightPasses, RuntimeEnvPasses
<1> QED BY <1>1, <1>2, DoctorIsRight DEF SetupLeadsToStart

\* What a setup tells its owner is what the next start finds: the invariant of the
\* plane's run, for any keys, addresses, bounds and number of commands.
THEOREM SetupTellsTruth == PlaneSpec => []SetupIsTrue
<1> DEFINE Inv == WizardInv /\ SetupInv
<1>1. PlaneInit => Inv
  BY WizardStarts, SetupStarts DEF PlaneInit
<1>2. Inv /\ [PlaneNext]_planeVars => Inv'
  BY WizardSteps, SetupSteps, WizardInvStep, SetupInvStep
<1>3. Inv => SetupIsTrue
  BY WizardTells, SetupLeads DEF SetupIsTrue
<1> QED BY <1>1, <1>2, <1>3, PTL DEF PlaneSpec

-----------------------------------------------------------------------------
(***************************************************************************)
(* One order from a quote to the executor                                  *)
(***************************************************************************)

\* What the gates let through, and what a permit then stands for.
PassedGates == UsableForecast(step.p) /\ Trades(step.side, step.p, step.ask, Floor) /\ SizeIntent(step.p, step.ask) > 0
PermitFits ==
  /\ permit.qty = SizeIntent(step.p, step.ask) /\ permit.price = step.ask
  /\ permit.cash = CashNeeded(permit.qty, step.ask) /\ permit.cash > 0
  /\ WithinCaps(permit.cash) /\ permit.cash <= Available
StepFields == {"pc", "p", "bid", "ask", "side", "q", "market", "portfolio", "size"}
OrderInv ==
  /\ DOMAIN step = StepFields /\ step.pc \in {"idle", "gate", "reserve", "build", "submit", "done"}
  /\ DOMAIN permit = {"qty", "cash", "price", "mode", "held"} /\ venue \in Venues
  /\ step.p \in Int /\ step.ask \in 0..Cents /\ step.bid \in 0..Cents /\ step.portfolio \in Nat
  /\ step.pc \in {"idle", "gate", "reserve"} => permit = NoPermit /\ sent = NoOrder
  /\ step.pc \in {"reserve", "build", "submit"} => PassedGates /\ step.size = SizeIntent(step.p, step.ask)
  /\ step.pc \in {"build", "submit"} => PermitFits /\ permit.held = permit.cash /\ sent = NoOrder
  /\ step.pc = "done" =>
       \/ permit = NoPermit /\ sent = NoOrder
       \/ /\ PassedGates /\ PermitFits /\ permit.held = permit.cash
          /\ sent = [size |-> permit.qty, price |-> permit.price] /\ step.portfolio + permit.cash <= MicroCap
       \/ /\ PassedGates /\ PermitFits /\ permit.held = 0 /\ sent = NoOrder
          /\ \/ venue # permit.mode \/ ~ModeAllowsSubmit
             \/ step.portfolio + permit.cash > MicroCap

LEMMA TimesGrows == ASSUME NEW a \in Nat, NEW b \in Nat, NEW c \in Nat, a <= b PROVE a * c <= b * c
<1>1. PICK d \in Nat : b = a + d
  <2>1. b - a \in Nat /\ b = a + (b - a)
    OBVIOUS
  <2> QED BY <2>1
<1>2. (a + d) * c = a * c + d * c /\ d * c \in Nat /\ a * c \in Nat
  OBVIOUS
<1> QED BY <1>1, <1>2

LEMMA DivIs ==
  ASSUME NEW a \in Nat, NEW b \in Nat \ {0}
  PROVE  a \div b \in Nat /\ (a \div b) * b <= a /\ a < (a \div b) * b + b
OBVIOUS

LEMMA DivAtLeast ==
  ASSUME NEW a \in Nat, NEW b \in Nat \ {0}, NEW k \in Nat, k * b <= a
  PROVE  k <= a \div b
<1>1. PICK d \in Nat : d = a \div b
  BY DivIs
<1>2. a < d * b + b
  BY <1>1, DivIs
<1>3. CASE k >= d + 1
  <2>1. (d + 1) * b <= k * b
    BY <1>3, TimesGrows
  <2>2. (d + 1) * b = d * b + b /\ d * b \in Nat /\ k * b \in Nat
    OBVIOUS
  <2> QED BY <1>2, <2>1, <2>2
<1> QED BY <1>1, <1>3

\* Rounding the shares down costs no more than rounding the stake down.
LEMMA SharesWithinStake ==
  ASSUME NEW a \in Nat, NEW b \in Nat \ {0}, NEW c \in Nat \ {0}, NEW k \in Nat, k <= a \div (b * c)
  PROVE  k * c <= a \div b
<1>1. b * c \in Nat \ {0}
  OBVIOUS
<1>2. PICK d \in Nat : d = a \div (b * c)
  BY <1>1, DivIs
<1>3. d * (b * c) <= a
  BY <1>1, <1>2, DivIs
<1>4. k * (b * c) <= d * (b * c)
  BY <1>1, <1>2, TimesGrows
<1>5. (k * c) * b = k * (b * c) /\ k * c \in Nat /\ k * (b * c) \in Nat /\ d * (b * c) \in Nat
  BY <1>1
<1>6. (k * c) * b <= a
  BY <1>3, <1>4, <1>5
<1> QED BY <1>5, <1>6, DivAtLeast

\* The cash of the intent is exact, and within a quarter of the Kelly stake.
LEMMA IntentFits ==
  ASSUME NEW p \in Int, NEW price \in 0..Cents, SizeIntent(p, price) > 0
  PROVE  /\ SizeIntent(p, price) \in Nat /\ CashNeeded(SizeIntent(p, price), price) \in Nat
         /\ CashNeeded(SizeIntent(p, price), price) <= KellyStake(p, price)
<1> DEFINE a == (p - price) * Bankroll
           b == 4 * (Cents - price)
<1>0. KellyShares(p, price) # 0
  BY DEF SizeIntent, Cents
<1>1. p > price /\ price > 0 /\ price < Cents /\ Bankroll \in Nat
  <2>1. ~(p <= price \/ price <= 0 \/ price >= Cents \/ Bankroll <= 0)
    BY <1>0 DEF KellyShares
  <2> QED BY <2>1, OrderPathAssumption DEF Cents
<1>2. KellyShares(p, price) = Least(a \div (b * price), 100) /\ KellyStake(p, price) = a \div b
  BY <1>0, <1>1 DEF KellyShares, KellyStake
<1>3. a \in Nat /\ b \in Nat \ {0} /\ price \in Nat \ {0}
  <2>1. p - price \in Nat /\ Cents - price \in Nat \ {0}
    BY <1>1 DEF Cents
  <2> QED BY <1>1, <2>1
<1> HIDE DEF a, b
<1>4. b * price \in Nat \ {0}
  BY <1>3
<1>5. a \div (b * price) \in Nat
  BY <1>3, <1>4, DivIs
<1>6. PICK k : k = KellyShares(p, price)
  OBVIOUS
<1>7. k \in Nat /\ k <= a \div (b * price)
  BY <1>2, <1>5, <1>6 DEF Least
<1>8. k * price <= a \div b
  BY <1>3, <1>7, SharesWithinStake
<1>9. SizeIntent(p, price) = 100 * k
  BY <1>6 DEF SizeIntent, Cents
<1>10. k * price \in Nat /\ (100 * k) * price = 100 * (k * price)
  BY <1>3, <1>7
<1>11. (100 * (k * price)) \div 100 = k * price
  BY <1>10
<1>12. CashNeeded(SizeIntent(p, price), price) = k * price
  BY <1>9, <1>10, <1>11 DEF CashNeeded, Cents
<1> QED BY <1>2, <1>7, <1>8, <1>9, <1>10, <1>12

\* A step may pass on only to the next of its stages.
LEMMA OrderInitKept == OrderInit => OrderInv
<1> SUFFICES ASSUME OrderInit PROVE OrderInv
  OBVIOUS
<1>1. /\ DOMAIN step = StepFields /\ step.pc = "idle" /\ step.p = NoForecast /\ step.bid = 0 /\ step.ask = 0
      /\ step.portfolio = 0 /\ venue = "NORMAL" /\ permit = NoPermit /\ sent = NoOrder
  BY DEF OrderInit, StepFields
<1>2. DOMAIN NoPermit = {"qty", "cash", "price", "mode", "held"}
  BY DEF NoPermit
<1> QED BY <1>1, <1>2 DEF OrderInv, NoForecast, Cents, Venues

LEMMA VenueSwitchesKeeps == ASSUME OrderInv, NEW m \in Venues, VenueSwitches(m) PROVE OrderInv'
<1>1. step' = step /\ permit' = permit /\ sent' = sent /\ venue' \in Venues /\ step.pc # "done"
  BY DEF VenueSwitches
<1>2. (PassedGates <=> PassedGates') /\ (PermitFits <=> PermitFits')
  BY <1>1 DEF PassedGates, PermitFits, Floor, WithinCaps
<1> QED BY <1>1, <1>2 DEF OrderInv

LEMMA ReceivesKeeps ==
  ASSUME OrderInv, NEW p \in Forecasts, NEW quote \in Quotes, NEW q, NEW exposure \in Exposures, NEW side,
         Receives(p, quote, q, exposure, side)
  PROVE  OrderInv'
<1>1. p \in Int /\ quote[1] \in 0..Cents /\ quote[2] \in 0..Cents /\ exposure[2] \in Nat
  BY OrderPathAssumption DEF NoForecast
<1>2. /\ DOMAIN step' = StepFields /\ step'.pc = "gate" /\ step'.p = p /\ step'.bid = quote[1]
      /\ step'.ask = quote[2] /\ step'.portfolio = exposure[2]
  BY DEF Receives, StepFields
<1>3. venue' = venue /\ permit' = permit /\ sent' = sent /\ step.pc = "idle"
  BY DEF Receives
<1> QED BY <1>1, <1>2, <1>3 DEF OrderInv

\* What a stage does to the step record, and what stays.
LEMMA Onwards ==
  ASSUME OrderInv, NEW pc, NEW size, step' = [step EXCEPT !.pc = pc, !.size = size]
  PROVE  /\ DOMAIN step' = StepFields /\ step'.pc = pc /\ step'.size = size
         /\ step'.p = step.p /\ step'.bid = step.bid /\ step'.ask = step.ask /\ step'.side = step.side
         /\ step'.q = step.q /\ step'.market = step.market /\ step'.portfolio = step.portfolio
BY DEF OrderInv, StepFields

LEMMA OnwardsAs ==
  ASSUME OrderInv, NEW pc, step' = [step EXCEPT !.pc = pc]
  PROVE  /\ DOMAIN step' = StepFields /\ step'.pc = pc /\ step'.size = step.size
         /\ step'.p = step.p /\ step'.bid = step.bid /\ step'.ask = step.ask /\ step'.side = step.side
         /\ step'.q = step.q /\ step'.market = step.market /\ step'.portfolio = step.portfolio
BY DEF OrderInv, StepFields

SameInputs ==
  /\ step'.p = step.p /\ step'.bid = step.bid /\ step'.ask = step.ask /\ step'.side = step.side
  /\ step'.q = step.q /\ step'.market = step.market /\ step'.portfolio = step.portfolio

LEMMA DecidedStays == ASSUME SameInputs, PassedGates PROVE PassedGates'
BY DEF SameInputs, PassedGates, Floor

LEMMA GrantStays ==
  ASSUME SameInputs, PermitFits, permit'.qty = permit.qty, permit'.price = permit.price, permit'.cash = permit.cash
  PROVE  PermitFits'
BY DEF SameInputs, PermitFits, WithinCaps

LEMMA GatesKeeps == ASSUME OrderInv, NEW a \in BOOLEAN, Gates(a) PROVE OrderInv'
<1>1. venue' = venue /\ permit' = permit /\ sent' = sent /\ step.pc = "gate"
  BY DEF Gates
<1>2. permit = NoPermit /\ sent = NoOrder
  BY <1>1 DEF OrderInv
<1>3. CASE Passes(a)
  <2>1. step' = [step EXCEPT !.pc = "reserve", !.size = SizeIntent(step.p, step.ask)]
    BY <1>3 DEF Gates
  <2>2. DOMAIN step' = StepFields /\ step'.pc = "reserve" /\ step'.size = SizeIntent(step.p, step.ask) /\ SameInputs
    BY <2>1, Onwards DEF SameInputs
  <2>3. PassedGates
    BY <1>3 DEF Passes, PassedGates
  <2>4. PassedGates' /\ step'.size = SizeIntent(step'.p, step'.ask)
    BY <2>2, <2>3, DecidedStays DEF SameInputs
  <2> QED BY <1>1, <1>2, <2>2, <2>4 DEF OrderInv, SameInputs
<1>4. CASE ~Passes(a)
  <2>1. step' = [step EXCEPT !.pc = "done"]
    BY <1>4 DEF Gates
  <2>2. DOMAIN step' = StepFields /\ step'.pc = "done" /\ SameInputs
    BY <2>1, OnwardsAs DEF SameInputs
  <2> QED BY <1>1, <1>2, <2>2 DEF OrderInv, SameInputs
<1> QED BY <1>3, <1>4

LEMMA ReserveKeeps == ASSUME OrderInv, ValidateAndReserve PROVE OrderInv'
<1>1. venue' = venue /\ sent' = sent /\ step.pc = "reserve"
  BY DEF ValidateAndReserve
<1>2. permit = NoPermit /\ sent = NoOrder /\ PassedGates /\ step.size = SizeIntent(step.p, step.ask)
  BY <1>1 DEF OrderInv
<1>3. PICK cash : cash = CashNeeded(step.size, step.ask)
  OBVIOUS
<1>4. CASE WithinCaps(cash) /\ Reservable(cash)
  <2>1. /\ permit' = [qty |-> step.size, cash |-> cash, price |-> step.ask, mode |-> venue, held |-> cash]
        /\ step' = [step EXCEPT !.pc = "build"]
    BY <1>3, <1>4 DEF ValidateAndReserve
  <2>2. DOMAIN step' = StepFields /\ step'.pc = "build" /\ step'.size = step.size /\ SameInputs
    BY <2>1, OnwardsAs DEF SameInputs
  <2>3. /\ DOMAIN permit' = {"qty", "cash", "price", "mode", "held"} /\ permit'.qty = step.size
        /\ permit'.cash = cash /\ permit'.price = step.ask /\ permit'.held = cash
    BY <2>1
  <2>4. WithinCaps(permit.cash)'
    BY <1>4, <2>2, <2>3 DEF WithinCaps, SameInputs
  <2>5. PermitFits'
    BY <1>2, <1>3, <1>4, <2>2, <2>3, <2>4 DEF PermitFits, Reservable, SameInputs
  <2>6. PassedGates'
    BY <1>2, <2>2, DecidedStays
  <2> QED BY <1>1, <1>2, <2>2, <2>3, <2>5, <2>6 DEF OrderInv, SameInputs
<1>5. CASE ~(WithinCaps(cash) /\ Reservable(cash))
  <2>1. permit' = permit /\ step' = [step EXCEPT !.pc = "done"]
    BY <1>3, <1>5 DEF ValidateAndReserve
  <2>2. DOMAIN step' = StepFields /\ step'.pc = "done" /\ SameInputs
    BY <2>1, OnwardsAs DEF SameInputs
  <2> QED BY <1>1, <1>2, <2>1, <2>2 DEF OrderInv, SameInputs
<1> QED BY <1>4, <1>5

LEMMA GivenBack ==
  ASSUME OrderInv, step.pc \in {"build", "submit"}, GivesBack, venue' = venue, sent' = sent,
         \/ venue # permit.mode \/ ~ModeAllowsSubmit \/ step.portfolio + permit.cash > MicroCap
  PROVE  OrderInv'
<1>1. PassedGates /\ PermitFits /\ sent = NoOrder
  BY DEF OrderInv
<1>2. step' = [step EXCEPT !.pc = "done"] /\ permit' = [permit EXCEPT !.held = 0]
  BY DEF GivesBack
<1>3. DOMAIN step' = StepFields /\ step'.pc = "done" /\ SameInputs
  BY <1>2, OnwardsAs DEF SameInputs
<1>4. /\ DOMAIN permit' = {"qty", "cash", "price", "mode", "held"} /\ permit'.held = 0 /\ permit'.mode = permit.mode
      /\ permit'.qty = permit.qty /\ permit'.cash = permit.cash /\ permit'.price = permit.price
  BY <1>2 DEF OrderInv
<1>5. PassedGates' /\ PermitFits'
  BY <1>1, <1>3, <1>4, DecidedStays, GrantStays
<1>6. (\/ venue # permit.mode \/ ~ModeAllowsSubmit \/ step.portfolio + permit.cash > MicroCap)'
  BY <1>3, <1>4 DEF ModeAllowsSubmit, SameInputs
<1> QED BY <1>1, <1>3, <1>4, <1>5, <1>6 DEF OrderInv, SameInputs

\* The builder clamps nothing: the size is the permit's and its cash covers it.
LEMMA BuildKeeps == ASSUME OrderInv, BuildSignedOrder PROVE OrderInv'
<1>1. venue' = venue /\ sent' = sent /\ step.pc = "build"
  BY DEF BuildSignedOrder
<1>2. PassedGates /\ PermitFits /\ permit.held = permit.cash /\ sent = NoOrder /\ step.size = SizeIntent(step.p, step.ask)
  BY <1>1 DEF OrderInv
<1>3. /\ step.size \in Nat /\ step.size > 0 /\ permit.qty = step.size /\ permit.cash = CashNeeded(step.size, step.ask)
      /\ permit.cash \in Nat
  BY <1>2, IntentFits DEF PassedGates, PermitFits, OrderInv
<1>4. BuiltSize(step.size, step.ask) = step.size
  BY <1>3 DEF BuiltSize, Least
<1>5. CASE SignerAllows(step.size, step.ask)
  <2>1. permit' = permit /\ step' = [step EXCEPT !.pc = "submit", !.size = step.size]
    BY <1>3, <1>4, <1>5 DEF BuildSignedOrder
  <2>2. DOMAIN step' = StepFields /\ step'.pc = "submit" /\ step'.size = step.size /\ SameInputs
    BY <2>1, Onwards DEF SameInputs
  <2>3. PassedGates' /\ PermitFits'
    BY <1>2, <2>1, <2>2, DecidedStays, GrantStays
  <2> QED BY <1>1, <1>2, <2>1, <2>2, <2>3 DEF OrderInv, SameInputs
<1>6. CASE ~SignerAllows(step.size, step.ask)
  <2>1. GivesBack
    BY <1>4, <1>6 DEF BuildSignedOrder
  <2>2. venue # permit.mode
    BY <1>3, <1>6 DEF SignerAllows
  <2> QED BY <1>1, <2>1, <2>2, GivenBack
<1> QED BY <1>5, <1>6

LEMMA SubmitsKeeps == ASSUME OrderInv, Submits PROVE OrderInv'
<1>1. venue' = venue /\ step.pc = "submit"
  BY DEF Submits
<1>2. PassedGates /\ PermitFits /\ permit.held = permit.cash /\ sent = NoOrder /\ step.size = SizeIntent(step.p, step.ask)
  BY <1>1 DEF OrderInv
<1>3. /\ step.size \in Nat /\ step.size > 0 /\ permit.qty = step.size /\ permit.cash = CashNeeded(step.size, step.ask)
      /\ permit.cash \in Nat /\ permit.price = step.ask
  BY <1>2, IntentFits DEF PassedGates, PermitFits, OrderInv
<1>4. PermitCoversOrder(step.size, step.ask)
  BY <1>3 DEF PermitCoversOrder
<1>5. CASE step.portfolio + permit.cash <= MicroCap /\ ModeAllowsSubmit
  <2>1. /\ sent' = [size |-> step.size, price |-> step.ask]
        /\ permit' = permit /\ step' = [step EXCEPT !.pc = "done"]
    BY <1>3, <1>4, <1>5 DEF Submits
  <2>2. DOMAIN step' = StepFields /\ step'.pc = "done" /\ SameInputs
    BY <2>1, OnwardsAs DEF SameInputs
  <2>3. PassedGates' /\ PermitFits'
    BY <1>2, <2>1, <2>2, DecidedStays, GrantStays
  <2>4. sent' = [size |-> permit'.qty, price |-> permit'.price]
    BY <1>3, <2>1
  <2> QED BY <1>1, <1>2, <1>5, <2>1, <2>2, <2>3, <2>4 DEF OrderInv, SameInputs
<1>6. CASE ~(step.portfolio + permit.cash <= MicroCap /\ ModeAllowsSubmit)
  <2>1. GivesBack /\ sent' = sent
    BY <1>3, <1>6 DEF Submits
  <2>2. ~ModeAllowsSubmit \/ step.portfolio + permit.cash > MicroCap
    <3>1. step.portfolio \in Nat /\ MicroCap \in Nat
      BY OrderPathAssumption DEF OrderInv
    <3> QED BY <1>3, <1>6, <3>1
  <2> QED BY <1>1, <2>1, <2>2, GivenBack
<1> QED BY <1>5, <1>6

LEMMA OrderKept == ASSUME OrderInv, [OrderNext]_orderVars PROVE OrderInv'
<1>1. CASE UNCHANGED orderVars
  <2>1. step' = step /\ venue' = venue /\ permit' = permit /\ sent' = sent
    BY <1>1 DEF orderVars
  <2>2. (PassedGates <=> PassedGates') /\ (PermitFits <=> PermitFits') /\ (ModeAllowsSubmit <=> ModeAllowsSubmit')
    BY <2>1 DEF PassedGates, PermitFits, Floor, WithinCaps, ModeAllowsSubmit
  <2> QED BY <2>1, <2>2 DEF OrderInv
<1>2. CASE OrderNext
  BY <1>2, ReceivesKeeps, VenueSwitchesKeeps, GatesKeeps, ReserveKeeps, BuildKeeps, SubmitsKeeps DEF OrderNext
<1> QED BY <1>1, <1>2

\* The rules of the decision, added up.
LEMMA WorthIt ==
  ASSUME OrderInv, step.side = "YES", PassedGates
  PROVE  200 * step.p >= 100 * (step.bid + step.ask) + 2 * MinEdge + Least(100 * (step.ask - step.bid), 1000)
<1>1. step.p \in Int /\ step.ask \in 0..100 /\ step.bid \in 0..100 /\ MinEdge \in Nat
  BY OrderPathAssumption DEF OrderInv, Cents
<1>2. PICK premium \in Nat :
        Floor = ResolveEdgeFloor(AtLeast0(step.ask - step.bid), premium)
  <2>1. /\ FlbExtremePremium(step.ask) \in {0, 200} /\ ExpiryEdgePremium(step.q.days) \in {0, 50, 100}
        /\ SmartMoneyGuardPremium(step.q) \in {0, 200}
    BY DEF FlbExtremePremium, ExpiryEdgePremium, SmartMoneyGuardPremium
  <2>2. FlbExtremePremium(step.ask) + ExpiryEdgePremium(step.q.days) + SmartMoneyGuardPremium(step.q) \in Nat
    BY <2>1
  <2> QED BY <2>2 DEF Floor
<1>3. NetEdge20("YES", step.p, step.ask) >= 20 * Floor
  BY DEF PassedGates, Trades
<1>4. NetEdge20("YES", step.p, step.ask) = 2000 * (step.p - step.ask) - step.ask * (100 - step.ask)
  BY DEF NetEdge20, Gross, Fee20, Cents
<1>5. step.ask * (100 - step.ask) \in Nat
  BY <1>1
<1>6. PICK spread \in Int : spread = step.ask - step.bid
  BY <1>1
<1>7. PICK half \in Int : half = Least(50 * AtLeast0(spread), 500)
  BY <1>6 DEF Least, AtLeast0
<1>8. 2 * half >= Least(100 * spread, 1000) /\ (spread >= 0 => half >= 0) /\ (spread < 0 => half = 0)
  BY <1>6, <1>7 DEF Least, AtLeast0
<1>9. Floor \in Int /\ Floor >= MinEdge + half
  <2>1. AtLeast0(AtLeast0(step.ask - step.bid)) = AtLeast0(spread)
    BY <1>6 DEF AtLeast0
  <2>2. Floor = (IF MinEdge > 0 THEN MinEdge ELSE 300) + half + premium
    BY <1>2, <1>7, <2>1 DEF ResolveEdgeFloor
  <2>3. PICK base \in Nat : base = (IF MinEdge > 0 THEN MinEdge ELSE 300) /\ base >= MinEdge
    BY <1>1
  <2> QED BY <1>1, <1>7, <2>2, <2>3
<1>10. 2000 * (step.p - step.ask) >= 20 * (MinEdge + half)
  BY <1>1, <1>3, <1>4, <1>5, <1>7, <1>9
<1>11. 200 * step.p >= 200 * step.ask + 2 * MinEdge + 2 * half
  BY <1>1, <1>7, <1>10
<1>12. Least(100 * spread, 1000) <= 100 * spread /\ Least(100 * spread, 1000) \in Int
  BY <1>6 DEF Least
<1>13. Least(100 * (step.ask - step.bid), 1000) = Least(100 * spread, 1000)
  BY <1>6
<1>14. PICK least \in Int : least = Least(100 * spread, 1000)
  BY <1>12
<1>15. PICK p \in Int : p = step.p
  BY <1>1
<1>16. PICK ask \in Int : ask = step.ask
  BY <1>1
<1>17. PICK bid \in Int : bid = step.bid
  BY <1>1
<1>18. 200 * p >= 200 * ask + 2 * MinEdge + 2 * half /\ spread = ask - bid
  BY <1>6, <1>11, <1>15, <1>16, <1>17
<1>19. 2 * half >= least /\ least <= 100 * spread /\ (spread >= 0 => half >= 0) /\ (spread < 0 => half = 0)
  BY <1>8, <1>12, <1>14
<1>20. 200 * p >= 100 * (bid + ask) + 2 * MinEdge + least
  BY <1>1, <1>7, <1>18, <1>19
<1> QED BY <1>13, <1>14, <1>15, <1>16, <1>17, <1>20

LEMMA OrderSound == ASSUME OrderInv PROVE OrderIsSound
<1>1. ASSUME sent # NoOrder
      PROVE  /\ step.pc = "done" /\ PassedGates /\ PermitFits /\ permit.held = permit.cash
             /\ sent.size = permit.qty /\ sent.price = permit.price /\ step.portfolio + permit.cash <= MicroCap
  BY <1>1 DEF OrderInv
<1>2. SentOrderFits
  <2> SUFFICES ASSUME sent # NoOrder
               PROVE  LET cash == CashNeeded(sent.size, sent.price)
                      IN  /\ cash <= permit.held /\ permit.held <= Available
                          /\ WithinCaps(cash) /\ step.portfolio + cash <= MicroCap
                          /\ cash <= KellyStake(step.p, sent.price)
    BY DEF SentOrderFits
  <2>1. CashNeeded(sent.size, sent.price) = permit.cash /\ permit.qty = SizeIntent(step.p, step.ask) /\ sent.price = step.ask
    BY <1>1 DEF PermitFits
  <2>2. permit.cash \in Nat /\ permit.cash <= KellyStake(step.p, step.ask)
    BY <1>1, <2>1, IntentFits DEF PermitFits, PassedGates, OrderInv
  <2> QED BY <1>1, <2>1, <2>2 DEF PermitFits
<1>3. RefusedForModeOnly
  <2> SUFFICES ASSUME step.pc = "done", permit # NoPermit, sent = NoOrder
               PROVE  /\ permit.held = 0
                      /\ \/ venue # permit.mode \/ ~ModeAllowsSubmit
                         \/ step.portfolio + permit.cash > MicroCap
    BY DEF RefusedForModeOnly
  <2>1. ASSUME PassedGates, PermitFits, sent = [size |-> permit.qty, price |-> permit.price] PROVE FALSE
    <3>1. sent.size = permit.qty /\ sent.size = 0
      BY <2>1 DEF NoOrder
    <3>2. permit.qty > 0
      BY <2>1 DEF PassedGates, PermitFits
    <3> QED BY <3>1, <3>2
  <2> QED BY <2>1 DEF OrderInv
<1>4. BoughtBelowValue
  BY <1>1, WorthIt DEF BoughtBelowValue
<1> QED BY <1>2, <1>3, <1>4 DEF OrderIsSound

LEMMA OrderSteps == ASSUME [PlaneNext]_planeVars PROVE [OrderNext]_orderVars
BY DEF PlaneNext, planeVars, Group1, Group2, Group3, Group4, Group5

\* What the executor is sent fits every cap, the cash that is held for it and the
\* stake of the forecast, and costs less than it is worth; an order that is refused
\* after its permit is refused for the venue's mode or the micro-live cap, and holds
\* nothing: the invariant of the plane's run, for any quote, forecast and caps.
THEOREM OrdersAreSound == PlaneSpec => []OrderIsSound
<1>1. PlaneInit => OrderInv
  BY OrderInitKept DEF PlaneInit
<1>2. OrderInv /\ [PlaneNext]_planeVars => OrderInv'
  BY OrderSteps, OrderKept
<1>3. OrderInv => OrderIsSound
  BY OrderSound
<1> QED BY <1>1, <1>2, <1>3, PTL DEF PlaneSpec

-----------------------------------------------------------------------------
(***************************************************************************)
(* WalletSetup: one wallet is deployed, for any number of attempts and any  *)
(* set of spenders, while the relayer loses, delays and repeats.           *)
(***************************************************************************)

\* The relayer counts the wallets by its nonces; the creation has one operation,
\* of the first nonce, and no other nonce is ever on its way; a setup past the
\* creation has its wallet.
WalletInv ==
    /\ onchain \in [last : {-1, 0}, wallets : {0, 1}, allows : SUBSET Spenders]
    /\ onchain.wallets = onchain.last + 1
    /\ operation.nonce \in {-1, 0} /\ relaying \subseteq {0}
    /\ operation.nonce = -1 => relaying = {} /\ onchain.last = -1
    /\ life \in {"DEPLOYED", "APPROVAL_PENDING", "READY"} => onchain.wallets = 1
    /\ life = "READY" => Required \in onchain.allows

LEMMA WalletStep == ASSUME WalletInv, [WalletNext]_walletVars PROVE WalletInv'
<1> USE DEF WalletInv
<1>1. CASE UNCHANGED walletVars
  BY <1>1 DEF walletVars
<1>2. CASE LifecycleExits \/ DiscoversWallet \/ Authorizes \/ ApprovalsVerified
  BY <1>2 DEF LifecycleExits, DiscoversWallet, Authorizes, ApprovalsVerified, AvailableToTrade
<1>3. CASE NetworkFails
  BY <1>3 DEF NetworkFails, TimedOut
<1>4. CASE Creates
  <2>1. CASE UNCHANGED <<operation, relaying>>
    BY <1>4, <2>1 DEF Creates
  <2>2. CASE operation' = Submit(operation) /\ relaying' = relaying \cup {operation'.nonce}
    <3>1. operation'.nonce = 0
      BY <2>2 DEF Submit
    <3> QED BY <1>4, <2>2, <3>1 DEF Creates
  <2> QED BY <1>4, <2>1, <2>2 DEF Creates
<1>5. ASSUME NEW nonce \in relaying, RelayerReceives(nonce) PROVE WalletInv'
  <2>1. nonce = 0 /\ operation.nonce = 0
    OBVIOUS
  <2>2. CASE NonceAdvances(nonce)
    <3>1. onchain.last = -1 /\ onchain.wallets = 0
      BY <2>1, <2>2 DEF NonceAdvances
    <3> DEFINE noted == [onchain EXCEPT !.last = nonce]
    <3>2. onchain' = [noted EXCEPT !.wallets = noted.wallets + 1]
      BY <1>5, <2>2, Zenon DEF RelayerReceives
    <3>3. /\ noted \in [last : {-1, 0}, wallets : {0, 1}, allows : SUBSET Spenders]
          /\ noted.last = 0 /\ noted.wallets = 0 /\ noted.allows = onchain.allows
      BY <2>1, <3>1
    <3> HIDE DEF noted
    <3>4. /\ onchain' \in [last : {-1, 0}, wallets : {0, 1}, allows : SUBSET Spenders]
          /\ onchain'.last = 0 /\ onchain'.wallets = 1
      BY <3>2, <3>3
    <3>5. life \notin {"DEPLOYED", "APPROVAL_PENDING", "READY"}
      BY <3>1
    <3> QED BY <1>5, <2>1, <3>4, <3>5 DEF RelayerReceives
  <2>3. CASE ~NonceAdvances(nonce)
    BY <1>5, <2>1, <2>3 DEF RelayerReceives
  <2> QED BY <2>2, <2>3
<1>6. ASSUME NEW nonce \in relaying, RequestIsLost(nonce) PROVE WalletInv'
  BY <1>6 DEF RequestIsLost
<1>7. CASE RequestIsRepeated
  <2>1. operation.nonce = 0
    BY <1>7 DEF RequestIsRepeated
  <2> QED BY <1>7, <2>1 DEF RequestIsRepeated
<1>8. CASE DeploymentConfirmed
  BY <1>8 DEF DeploymentConfirmed
<1>9. CASE ApprovalsSubmitted
  <2>1. PICK mined \in BOOLEAN :
           onchain' = [onchain EXCEPT !.allows = IF mined THEN @ \cup {Required} ELSE @]
    BY <1>9 DEF ApprovalsSubmitted
  <2>2. /\ onchain' \in [last : {-1, 0}, wallets : {0, 1}, allows : SUBSET Spenders]
        /\ onchain'.last = onchain.last /\ onchain'.wallets = onchain.wallets
    BY <2>1, RequiredIsSpender
  <2> QED BY <1>9, <2>2 DEF ApprovalsSubmitted
<1>10. ASSUME NEW spender \in Spenders, OwnerApproves(spender) PROVE WalletInv'
  <2>1. /\ onchain' \in [last : {-1, 0}, wallets : {0, 1}, allows : SUBSET Spenders]
        /\ onchain'.last = onchain.last /\ onchain'.wallets = onchain.wallets
    BY <1>10 DEF OwnerApproves
  <2>2. Required \in onchain.allows /\ life = "READY" => Required \in onchain'.allows
    BY <1>10 DEF OwnerApproves
  <2> QED BY <1>10, <2>1, <2>2 DEF OwnerApproves
<1> QED
  BY <1>1, <1>2, <1>3, <1>4, <1>5, <1>6, <1>7, <1>8, <1>9, <1>10 DEF WalletNext

LEMMA WalletBegins == ASSUME WalletInit PROVE WalletInv
BY DEF WalletInit, WalletInv, NoOperation

\* A step of the whole moves the setup of the wallet or leaves it alone.
LEMMA WalletSteps == ASSUME [PlaneNext]_planeVars PROVE [WalletNext]_walletVars
BY DEF PlaneNext, planeVars, Group1, Group2, Group3, Group4, Group5

\* However often the creation times out, is lost, repeated or taken up again,
\* one wallet is deployed, and a setup that is ready has its approval.
THEOREM WalletIsOne == PlaneSpec => []OneWalletApproved
<1>1. PlaneInit => WalletInv
  BY WalletBegins DEF PlaneInit
<1>2. WalletInv => OneWalletApproved
  BY DEF WalletInv, OneWalletApproved
<1>3. WalletInv /\ [PlaneNext]_planeVars => WalletInv'
  BY WalletSteps, WalletStep
<1> QED BY <1>1, <1>2, <1>3, PTL DEF PlaneSpec

-----------------------------------------------------------------------------
(***************************************************************************)
(* The types, ranges and pairings of all the parts: what the invariants    *)
(* above leave open of them is kept part by part.                          *)
(***************************************************************************)

\* EventLedger: the rows an engine replays are there.
RowsAreThere == engine.rows \subseteq log

LEMMA LedgerSteps == ASSUME [PlaneNext]_planeVars PROVE [Writers \/ Engine \/ Outbox]_ledgerVars
BY DEF PlaneNext, planeVars, Group1, Group2, Group3, Group4, Group5

LEMMA RowsStay == ASSUME ReadersInv, RowsAreThere, [Writers \/ Engine \/ Outbox]_ledgerVars PROVE RowsAreThere'
<1>1. DOMAIN engine = {"pc", "rows"}
  BY DEF ReadersInv, ReaderShape
<1>2. CASE UNCHANGED <<log, engine>>
  BY <1>2 DEF RowsAreThere
<1>3. CASE Writers
  <2>1. log \subseteq log' /\ engine' = engine
    BY <1>3 DEF Writers, AppendMany, Commits, RollsBack
  <2> QED BY <2>1 DEF RowsAreThere
<1>4. CASE Engine
  <2>1. log' = log /\ engine'.rows \subseteq log
    BY <1>1, <1>4 DEF RowsAreThere, Engine, ProcessReads, ProcessCommits, RebuildTruncates, RebuildResets, EngineCrashes
  <2> QED BY <2>1 DEF RowsAreThere
<1> QED BY <1>2, <1>3, <1>4 DEF Outbox, DrainReads, DrainHandles, DrainCheckpoints, DrainEnds, DrainCrashes, ledgerVars

LEMMA LedgerTyped == ASSUME ReadersInv, RowsAreThere PROVE LedgerTypeOK
<1>1. log \cup UNION open \subseteq [id : Events, seq : 1..next]
  BY DEF ReadersInv, WrittenOnce, Written
<1>2. log \subseteq [id : Events, seq : 1..next] /\ open \subseteq SUBSET [id : Events, seq : 1..next]
  BY <1>1
<1> QED BY <1>2 DEF ReadersInv, ReaderShape, RestIsWhole, RowsAreThere, LedgerTypeOK

\* OrderPath: nothing is held or sent beyond the permit.
LEMMA OrderTyped == ASSUME OrderInv PROVE OrderTypeOK
<1>1. permit.held \in 0..permit.cash /\ sent.size \in 0..permit.qty
  <2>1. CASE permit = NoPermit /\ sent = NoOrder
    BY <2>1 DEF NoPermit, NoOrder
  <2>2. CASE PassedGates /\ PermitFits /\ permit.held \in {0, permit.cash} /\ (sent = NoOrder \/ sent.size = permit.qty)
    <3>1. step.p \in Int /\ step.ask \in 0..Cents /\ SizeIntent(step.p, step.ask) > 0
      BY <2>2 DEF OrderInv, PassedGates
    <3>2. SizeIntent(step.p, step.ask) \in Nat /\ CashNeeded(SizeIntent(step.p, step.ask), step.ask) \in Nat
      BY <3>1, IntentFits
    <3>3. permit.qty \in Nat /\ permit.cash \in Nat
      BY <2>2, <3>2 DEF PermitFits
    <3>4. sent.size \in {0, permit.qty}
      BY <2>2 DEF NoOrder
    <3> QED BY <2>2, <3>3, <3>4
  <2>3. step.pc \in {"idle", "gate", "reserve", "build", "submit", "done"}
    BY DEF OrderInv
  <2>4. (permit = NoPermit /\ sent = NoOrder)
        \/ (PassedGates /\ PermitFits /\ permit.held \in {0, permit.cash} /\ (sent = NoOrder \/ sent = [size |-> permit.qty, price |-> permit.price]))
    BY <2>3 DEF OrderInv
  <2> QED BY <2>1, <2>2, <2>4
<1> QED BY <1>1 DEF OrderInv, OrderTypeOK

\* ControlPlane: a row has a verdict exactly when it is closed.
ClosedHasVerdict ==
    /\ held \subseteq Intents
    /\ \A i \in Intents : recoveryRows[i].verdict = "none" <=> ~recoveryRows[i].resolved
    /\ faults \in 0..MaxFaults

LEMMA RowHas ==
  ASSUME NEW state \in RowStates, NEW final \in BOOLEAN
  PROVE  Row(state, final).verdict = "none" <=> ~Row(state, final).resolved
BY DEF Row, RowStates

LEMMA VerdictStays ==
  ASSUME ControlInv, ClosedHasVerdict, NEW i \in Intents, NEW row, recoveryRows' = [recoveryRows EXCEPT ![i] = row],
         row.verdict = "none" <=> ~row.resolved
  PROVE  \A j \in Intents : recoveryRows'[j].verdict = "none" <=> ~recoveryRows'[j].resolved
BY DEF ControlInv, ControlShape, ClosedHasVerdict

LEMMA ClosedStays == ASSUME ControlInv, ClosedHasVerdict, [ControlNext]_controlVars PROVE ClosedHasVerdict'
<1>1. /\ recoveryRows \in [Intents -> RowShape] /\ stage \in [Intents -> {"idle", "ended"} \cup Working]
      /\ sweep.order \subseteq Intents /\ DOMAIN sweep = {"pc", "todo", "order", "answer"}
  BY DEF ControlInv, ControlShape
<1>2. CASE UNCHANGED <<held, recoveryRows, faults>>
  BY <1>2 DEF ClosedHasVerdict
<1>3. ASSUME held' \subseteq Intents, UNCHANGED <<recoveryRows, faults>> PROVE ClosedHasVerdict'
  BY <1>3 DEF ClosedHasVerdict
<1>4. ASSUME held' \subseteq Intents, faults' = faults,
             NEW i \in Intents, NEW row, recoveryRows' = [recoveryRows EXCEPT ![i] = row],
             row.verdict = "none" <=> ~row.resolved
      PROVE ClosedHasVerdict'
  BY <1>4, VerdictStays DEF ClosedHasVerdict
<1>5. ASSUME UNCHANGED <<held, recoveryRows>>, faults < MaxFaults, faults' = faults + 1 PROVE ClosedHasVerdict'
  BY <1>5, ControlAssumption DEF ClosedHasVerdict
<1>6. ASSUME NEW i \in Intents, NEW e, NEW w, NEW ok, Decides(i, e, w, ok) PROVE ClosedHasVerdict'
  BY <1>3, <1>6 DEF Decides, ClosedHasVerdict
<1>7. ASSUME NEW i \in Intents, NEW ok \in BOOLEAN, Builds(i, ok) \/ ClaimsPermit(i, ok) PROVE ClosedHasVerdict'
  <2>1. CASE UNCHANGED <<held, recoveryRows, faults>>
    BY <1>2, <2>1
  <2>2. CASE recoveryRows' = [recoveryRows EXCEPT ![i] = Row("SUBMITTING", FALSE)] /\ UNCHANGED <<held, faults>>
    <3>1. "SUBMITTING" \in RowStates
      BY DEF RowStates
    <3> DEFINE row == Row("SUBMITTING", FALSE)
    <3>2. row.verdict = "none" <=> ~row.resolved
      BY <3>1, RowHas
    <3> HIDE DEF row
    <3> QED BY <1>4, <2>2, <3>2 DEF ClosedHasVerdict, row
  <2> QED BY <1>7, <2>1, <2>2 DEF Builds, ClaimsPermit
<1>8. ASSUME NEW i \in Intents, NEW s, Acknowledged(i, s) PROVE ClosedHasVerdict'
  <2> DEFINE final == s = "MATCHED"
             row == Row("ACKNOWLEDGED", final)
  <2>1. final \in BOOLEAN /\ "ACKNOWLEDGED" \in RowStates
    BY DEF RowStates
  <2>2. row.verdict = "none" <=> ~row.resolved
    BY <2>1, RowHas
  <2>3. recoveryRows' = [recoveryRows EXCEPT ![i] = row] /\ faults' = faults /\ held' \in {held, held \ {i}}
    BY <1>8 DEF Acknowledged
  <2> HIDE DEF row
  <2> QED BY <1>4, <2>2, <2>3 DEF ClosedHasVerdict
<1>9. ASSUME NEW i \in Intents, NEW s, AnswerLost(i, s) PROVE ClosedHasVerdict'
  <2> DEFINE row == Row("SUBMISSION_UNKNOWN", FALSE)
  <2>1. "SUBMISSION_UNKNOWN" \in RowStates
    BY DEF RowStates
  <2>2. row.verdict = "none" <=> ~row.resolved
    BY <2>1, RowHas
  <2>3. recoveryRows' = [recoveryRows EXCEPT ![i] = row] /\ UNCHANGED <<held, faults>>
    BY <1>9 DEF AnswerLost
  <2> HIDE DEF row
  <2> QED BY <1>4, <2>2, <2>3 DEF ClosedHasVerdict
<1>10. ASSUME NEW i \in Intents, NEW s, VenueChangesOrder(i, s) PROVE ClosedHasVerdict'
  BY <1>2, <1>10 DEF VenueChangesOrder
<1>11. ASSUME NEW i \in Intents, ReservationTimesOut(i) \/ SweepAsks(i) PROVE ClosedHasVerdict'
  BY <1>2, <1>3, <1>11 DEF ReservationTimesOut, SweepAsks, ClosedHasVerdict
<1>12. CASE SweepSelects \/ SweepEnds
  BY <1>2, <1>12 DEF SweepSelects, SweepEnds
<1>13. CASE ExecutorResolves
  <2>1. PICK i \in sweep.order :
           /\ recoveryRows' = IF sweep.answer \in {"MATCHED", "CANCELED"} THEN [recoveryRows EXCEPT ![i] = Row(StateFor(i, sweep.answer), TRUE)]
                         ELSE IF sweep.answer = "LIVE" THEN [recoveryRows EXCEPT ![i].state = StateFor(i, sweep.answer)] ELSE recoveryRows
           /\ held' = IF sweep.answer \in {"MATCHED", "CANCELED"} THEN held \ {i} ELSE held
           /\ faults' = faults
    BY <1>13 DEF ExecutorResolves
  <2>2. i \in Intents /\ held' \subseteq Intents
    BY <1>1, <2>1 DEF ClosedHasVerdict
  <2>3. CASE sweep.answer \in {"MATCHED", "CANCELED"}
    <3>1. PICK new \in RowStates : recoveryRows' = [recoveryRows EXCEPT ![i] = Row(new, TRUE)]
      BY <2>1, <2>3 DEF StateFor, RowStates
    <3> DEFINE row == Row(new, TRUE)
    <3>2. row.verdict = "none" <=> ~row.resolved
      BY RowHas
    <3> HIDE DEF row
    <3> QED BY <1>4, <2>1, <2>2, <3>1, <3>2 DEF row
  <2>4. CASE sweep.answer = "LIVE"
    <3> DEFINE new == StateFor(i, sweep.answer)
               row == [recoveryRows[i] EXCEPT !.state = new]
    <3>1. row.verdict = recoveryRows[i].verdict /\ row.resolved = recoveryRows[i].resolved
      BY <1>1, <2>2 DEF RowShape
    <3>2. recoveryRows' = [recoveryRows EXCEPT ![i] = row]
      BY <2>1, <2>4
    <3>3. row.verdict = "none" <=> ~row.resolved
      BY <2>2, <3>1 DEF ClosedHasVerdict
    <3> HIDE DEF row
    <3> QED BY <1>4, <2>1, <2>2, <3>2, <3>3
  <2>5. CASE sweep.answer \notin {"MATCHED", "CANCELED", "LIVE"}
    BY <1>3, <2>1, <2>2, <2>5
  <2> QED BY <2>3, <2>4, <2>5
<1>14. CASE SweepUpdates
  <2>1. PICK i \in sweep.order : recoveryRows' = [recoveryRows EXCEPT ![i].state = sweep.answer] /\ UNCHANGED <<held, faults>>
    BY <1>14 DEF SweepUpdates
  <2> DEFINE row == [recoveryRows[i] EXCEPT !.state = sweep.answer]
  <2>2. i \in Intents
    BY <1>1
  <2>3. row.verdict = recoveryRows[i].verdict /\ row.resolved = recoveryRows[i].resolved
    BY <1>1, <2>2 DEF RowShape
  <2>4. recoveryRows' = [recoveryRows EXCEPT ![i] = row]
    BY <2>1
  <2>5. row.verdict = "none" <=> ~row.resolved
    BY <2>2, <2>3 DEF ClosedHasVerdict
  <2> HIDE DEF row
  <2> QED BY <1>4, <2>1, <2>2, <2>4, <2>5 DEF ClosedHasVerdict
<1>15. CASE SweepCloses
  <2>1. PICK i \in sweep.order : recoveryRows' = [recoveryRows EXCEPT ![i].resolved = TRUE, ![i].verdict = sweep.answer]
                                 /\ UNCHANGED <<held, faults>>
    BY <1>15 DEF SweepCloses
  <2> DEFINE row == [recoveryRows[i] EXCEPT !.resolved = TRUE, !.verdict = sweep.answer]
  <2>2. i \in Intents /\ sweep.answer \in Final
    BY <1>1, <1>15 DEF ControlInv, CarriedFits, SweepCloses
  <2>3. row.verdict = sweep.answer /\ row.resolved = TRUE
    BY <1>1, <2>2 DEF RowShape
  <2>4. recoveryRows' = [recoveryRows EXCEPT ![i] = row]
    BY <1>1, <2>1, <2>2
  <2>5. row.verdict = "none" <=> ~row.resolved
    BY <2>2, <2>3 DEF Final
  <2> HIDE DEF row
  <2> QED BY <1>4, <2>1, <2>2, <2>4, <2>5 DEF ClosedHasVerdict
<1>16. CASE SweepThrows \/ Restarts
  BY <1>5, <1>16 DEF SweepThrows, Restarts
<1>17. CASE UNCHANGED controlVars
  BY <1>2, <1>17 DEF controlVars
<1> QED BY <1>6, <1>7, <1>8, <1>9, <1>10, <1>11, <1>12, <1>13, <1>14, <1>15, <1>16, <1>17 DEF ControlNext

LEMMA ControlTyped == ASSUME ControlInv, ClosedHasVerdict PROVE ControlTypeOK
BY DEF ControlInv, ControlShape, SweepPlaces, ClosedHasVerdict, ControlTypeOK

\* Calibration: what is grouped, fitted and stored is of one model.
OfOneModel(rows) == \A i, j \in 1..Len(rows) : rows[i].model = rows[j].model
GroupsAreOfOneModel(groups) == \A k \in 1..Len(groups) : OfOneModel(groups[k])
MapsAreOfTheirModel == \A m \in Models : \A i \in 1..Len(maps[m].of) : maps[m].of[i].model = m
ModelsApart == Len(resolved) <= MaxResolutions /\ GroupsAreOfOneModel(job.groups) /\ OfOneModel(job.of) /\ MapsAreOfTheirModel

LEMMA GroupsApart == ASSUME NEW taken \in Seq(Resolutions) PROVE GroupsAreOfOneModel(GroupsOf(taken))
<1> SUFFICES ASSUME NEW k \in 1..Len(GroupsOf(taken)) PROVE OfOneModel(GroupsOf(taken)[k])
  BY DEF GroupsAreOfOneModel
<1>1. PICK m : GroupsOf(taken)[k] = Picked(taken, RowsOf(taken, m))
  BY GroupsOfRows
<1>2. RowsOf(taken, m) \in SUBSET DOMAIN taken
  BY DEF RowsOf
<1> DEFINE S == RowsOf(taken, m)
<1>3. \A i \in S : taken[i].model = m
  BY DEF RowsOf
<1> HIDE DEF S
<1>4. /\ Len(Picked(taken, S)) = Cardinality(S)
      /\ \A j \in 1..Cardinality(S) : \E i \in S : Picked(taken, S)[j] = taken[i]
  BY <1>2, PickedIsAll DEF S
<1>5. \A j \in 1..Len(Picked(taken, S)) : Picked(taken, S)[j].model = m
  BY <1>3, <1>4
<1> QED BY <1>1, <1>5 DEF OfOneModel, S

LEMMA SortedOfOneModel == ASSUME NEW rows \in Seq(Resolutions), OfOneModel(rows) PROVE OfOneModel(SortedByP(rows))
<1>1. /\ Len(SortedByP(rows)) = Len(rows)
      /\ \A k \in 1..Len(rows) : \E i \in 1..Len(rows) : SortedByP(rows)[k] = rows[i]
  BY SortedRows
<1>2. PICK sorted : sorted = SortedByP(rows)
  OBVIOUS
<1>3. ASSUME NEW j \in 1..Len(rows), NEW k \in 1..Len(rows) PROVE sorted[j].model = sorted[k].model
  <2>1. PICK i \in 1..Len(rows) : sorted[j] = rows[i]
    BY <1>1, <1>2
  <2>2. PICK h \in 1..Len(rows) : sorted[k] = rows[h]
    BY <1>1, <1>2
  <2> QED BY <2>1, <2>2, Zenon DEF OfOneModel
<1>4. Len(sorted) = Len(rows)
  BY <1>1, <1>2
<1>5. OfOneModel(sorted)
  BY <1>3, <1>4, Zenon DEF OfOneModel
<1> QED BY <1>2, <1>5

LEMMA ModelsStart == ASSUME CalibrationInit PROVE ModelsApart
<1>1. Len(<< >>) = 0 /\ 1..0 = {} /\ MaxResolutions \in Nat
  BY CalibrationAssumption
<1>2. resolved = << >> /\ job.groups = << >> /\ job.of = << >> /\ \A m \in Models : maps[m].of = << >>
  BY DEF CalibrationInit, Idle0, Untrained
<1> QED BY <1>1, <1>2 DEF ModelsApart, GroupsAreOfOneModel, OfOneModel, MapsAreOfTheirModel

LEMMA ModelsStay == ASSUME CalibrationInv, ModelsApart, [CalibrationNext]_calibrationVars PROVE ModelsApart'
<1>0. /\ resolved \in Seq(Resolutions) /\ job.groups \in Seq(Seq(Resolutions)) /\ job.of \in Seq(Resolutions)
      /\ DOMAIN job = {"groups", "samples", "of", "blocks", "busy"}
      /\ maps \in [Models -> [points : Seq(Blocks), of : Seq(Resolutions)]]
      /\ Len(resolved) \in Nat /\ MaxResolutions \in Nat
  BY LenProperties, CalibrationAssumption DEF CalibrationInv, Fitting
<1>1. ASSUME UNCHANGED <<resolved, maps>>, job'.groups = job.groups, job'.of = job.of PROVE ModelsApart'
  BY <1>1 DEF ModelsApart, GroupsAreOfOneModel, OfOneModel, MapsAreOfTheirModel
<1>2. Len(<< >>) = 0 /\ 1..0 = {} /\ GroupsAreOfOneModel(<< >>) /\ OfOneModel(<< >>)
  <2>1. Len(<< >>) = 0 /\ 1..0 = {}
    BY EmptySeq
  <2> QED BY <2>1 DEF GroupsAreOfOneModel, OfOneModel
<1>3. CASE UNCHANGED calibrationVars
  BY <1>1, <1>3 DEF calibrationVars
<1>4. ASSUME NEW r \in Resolutions, Resolves(r) PROVE ModelsApart'
  <2>1. Len(resolved) < MaxResolutions /\ resolved' = <<r>> \o resolved /\ job' = job /\ maps' = maps
    BY <1>4 DEF Resolves
  <2>2. <<r>> \in Seq(Resolutions) /\ Len(<<r>>) = 1
    OBVIOUS
  <2>3. Len(resolved') = 1 + Len(resolved)
    BY <1>0, <2>1, <2>2, ConcatProperties
  <2>4. Len(resolved') <= MaxResolutions
    BY <1>0, <2>1, <2>3
  <2> QED BY <2>1, <2>4 DEF ModelsApart, GroupsAreOfOneModel, OfOneModel, MapsAreOfTheirModel
<1>5. CASE TrainingStarts
  <2>1. PICK taken : taken = SubSeq(resolved, 1, IF Len(resolved) < Limit THEN Len(resolved) ELSE Limit)
    OBVIOUS
  <2>2. GroupsAreOfOneModel(GroupsOf(taken))
    BY <1>0, <2>1, TakenRows, GroupsApart
  <2>3. job' = [Idle0 EXCEPT !.busy = TRUE, !.groups = GroupsOf(taken)] /\ resolved' = resolved /\ maps' = maps
    BY <1>5, <2>1 DEF TrainingStarts
  <2>4. job'.groups = GroupsOf(taken) /\ job'.of = << >>
    BY <2>3 DEF Idle0
  <2> QED BY <1>2, <2>2, <2>3, <2>4 DEF ModelsApart, MapsAreOfTheirModel
<1>6. CASE GroupStarts
  <2>1. job.of = << >> /\ job.groups # << >> /\ resolved' = resolved /\ maps' = maps
    BY <1>6 DEF GroupStarts
  <2>2. PICK g, rest : g = Head(job.groups) /\ rest = Tail(job.groups)
    OBVIOUS
  <2>3. PICK n \in Nat : n = Len(job.groups) /\ n > 0
    BY <1>0, <2>1, EmptySeq, LenProperties
  <2>4. /\ g = job.groups[1] /\ Len(rest) = n - 1
        /\ \A i \in 1..n - 1 : rest[i] = job.groups[i + 1]
    BY <1>0, <2>1, <2>2, <2>3, HeadTailProperties
  <2>5. g \in Seq(Resolutions) /\ OfOneModel(g)
    <3>1. 1 \in 1..n
      BY <2>3
    <3>2. job.groups[1] \in Seq(Resolutions)
      BY <1>0, <2>3, <3>1, ElementOfSeq
    <3>3. OfOneModel(job.groups[1])
      BY <2>3, <3>1 DEF ModelsApart, GroupsAreOfOneModel
    <3> QED BY <2>4, <3>2, <3>3
  <2>6. GroupsAreOfOneModel(rest)
    BY <2>3, <2>4 DEF ModelsApart, GroupsAreOfOneModel
  <2>7. PICK s : s = SortedByP(g)
    OBVIOUS
  <2>8. OfOneModel(s)
    BY <2>5, <2>7, SortedOfOneModel
  <2>9. job' = IF Len(g) < MinSamples THEN [job EXCEPT !.groups = rest]
               ELSE [[job EXCEPT !.groups = rest] EXCEPT !.samples = s, !.of = s]
    BY <1>6, <2>2, <2>7 DEF GroupStarts
  <2>10. job'.groups = rest /\ job'.of \in {job.of, s}
    BY <1>0, <2>9
  <2> QED BY <2>1, <2>6, <2>8, <2>10 DEF ModelsApart, MapsAreOfTheirModel
<1>7. CASE Pushes
  <2>1. UNCHANGED <<resolved, maps>> /\ job'.groups = job.groups /\ job'.of = job.of
    BY <1>0, <1>7 DEF Pushes
  <2> QED BY <1>1, <2>1
<1>8. CASE Merges
  <2>1. UNCHANGED <<resolved, maps>> /\ \E blocks : job' = [job EXCEPT !.blocks = blocks]
    BY <1>8 DEF Merges
  <2>2. job'.groups = job.groups /\ job'.of = job.of
    BY <1>0, <2>1
  <2> QED BY <1>1, <2>1, <2>2
<1>9. CASE TrainingEnds
  <2>1. resolved' = resolved /\ maps' = maps /\ job'.groups = << >> /\ job'.of = << >>
    BY <1>9 DEF TrainingEnds, Idle0
  <2> QED BY <1>2, <2>1 DEF ModelsApart, MapsAreOfTheirModel
<1>10. ASSUME NEW ok \in BOOLEAN, Stores(ok) PROVE ModelsApart'
  <2>1. /\ job.of # << >> /\ resolved' = resolved
        /\ maps' = (IF ok THEN [maps EXCEPT ![job.of[1].model] = [points |-> job.blocks, of |-> job.of]] ELSE maps)
        /\ job'.groups = job.groups /\ job'.of = << >>
    BY <1>0, <1>10 DEF Stores
  <2>2. PICK n \in Nat : n = Len(job.of) /\ n > 0
    BY <1>0, <2>1, EmptySeq, LenProperties
  <2>3. PICK new : new = job.of[1].model
    OBVIOUS
  <2>4. \A i \in 1..n : job.of[i].model = new
    BY <2>2, <2>3 DEF ModelsApart, OfOneModel
  <2>5. PICK map : map = [points |-> job.blocks, of |-> job.of]
    OBVIOUS
  <2>6. \A m \in Models : maps'[m] = maps[m] \/ (m = new /\ maps'[m] = map)
    BY <1>0, <2>1, <2>3, <2>5
  <2>7. map.of = job.of
    BY <2>5
  <2>8. MapsAreOfTheirModel'
    BY <2>2, <2>4, <2>6, <2>7 DEF ModelsApart, MapsAreOfTheirModel
  <2> QED BY <1>2, <2>1, <2>8 DEF ModelsApart
<1> QED BY <1>3, <1>4, <1>5, <1>6, <1>7, <1>8, <1>9, <1>10 DEF CalibrationNext

LEMMA CalibrationTyped == ASSUME CalibrationInv, ModelsApart PROVE CalibrationTypeOK
<1>1. resolved \in Seq(Resolutions)
  BY DEF CalibrationInv
<1>2. Range(resolved) \subseteq Resolutions
  BY <1>1 DEF Range
<1>3. ASSUME NEW m \in Models PROVE {r.model : r \in Range(maps[m].of)} \subseteq {m}
  <2>1. PICK n \in Nat : n = Len(maps[m].of) /\ DOMAIN maps[m].of = 1..n
    BY LenProperties DEF CalibrationInv
  <2> QED BY <2>1 DEF ModelsApart, MapsAreOfTheirModel, Range
<1> QED BY <1>2, <1>3 DEF ModelsApart, CalibrationTypeOK

\* ForecastDesk: a process that rests has no topic, and no token is beyond the last one.
Rested(a) == asker[a].pc = "rest" <=> asker[a].topic = {}
TokensInRange ==
    /\ {server.refresh, server.access} \subseteq 0..MaxTokens /\ server.refresh > 0
    /\ cooling \subseteq DeskMarkets /\ file.refresh > 0
TokensBounded == TokensInRange /\ \A a \in Askers : Rested(a) /\ (asker[a].pc = "writing" => asker[a].refresh > 0)

Goes0(a, to) == asker' = [asker EXCEPT ![a] = to]
Orderly(to) == to \in AskerShape /\ (to.pc = "rest" <=> to.topic = {}) /\ (to.pc = "writing" => to.refresh > 0)

LEMMA AskerMoves ==
  ASSUME DeskInv, TokensBounded, NEW a \in Askers, NEW to, Goes0(a, to), Orderly(to), TokensInRange'
  PROVE  TokensBounded'
<1>1. \A b \in Askers : asker'[b] = IF b = a THEN to ELSE asker[b]
  BY DEF DeskInv, DeskShape, Goes0
<1>2. \A b \in Askers : Rested(b)' /\ (asker'[b].pc = "writing" => asker'[b].refresh > 0)
  BY <1>1 DEF TokensBounded, Rested, Orderly
<1> QED BY <1>2 DEF TokensBounded

LEMMA TokensStart == ASSUME DeskInit PROVE TokensBounded
BY DeskAssumption DEF DeskInit, TokensBounded, TokensInRange, Rested, Resting

LEMMA TokensStay == ASSUME DeskInv, TokensBounded, [DeskNext]_deskVars PROVE TokensBounded'
<1>0. /\ \A a \in Askers : asker[a] \in AskerShape
      /\ server \in [refresh : Nat, access : Nat] /\ file \in [refresh : Nat, access : Nat, nested : BOOLEAN, account : BOOLEAN]
      /\ server.refresh \in 1..MaxTokens /\ server.access \in 0..MaxTokens /\ MaxTokens \in Nat
      /\ cooling \subseteq DeskMarkets /\ file.refresh > 0
  BY DeskAssumption DEF DeskInv, DeskShape, TokensBounded, TokensInRange
<1>r. Orderly(Resting)
  BY DEF Resting, AskerShape, DeskPlaces, Orderly
<1>s. ASSUME UNCHANGED <<file, server, cooling>> PROVE TokensInRange'
  BY <1>s DEF TokensBounded, TokensInRange
<1>1. CASE UNCHANGED deskVars
  BY <1>1 DEF deskVars, TokensBounded, TokensInRange, Rested
<1>2. CASE AccessExpires \/ \E m \in DeskMarkets : CoolsDown(m)
  <2>1. /\ UNCHANGED <<file, asker>> /\ cooling' \subseteq DeskMarkets
        /\ server'.refresh = server.refresh /\ server'.access \in {0, server.access}
    BY <1>0, <1>2 DEF AccessExpires, CoolsDown
  <2> QED BY <1>0, <2>1 DEF TokensBounded, TokensInRange, Rested
<1>3. ASSUME NEW a \in Askers, NEW m \in DeskMarkets, Asks(a, m) PROVE TokensBounded'
  <2>1. PICK to : to = [Resting EXCEPT !.pc = "reading", !.topic = {m}]
    OBVIOUS
  <2>2. Orderly(to)
    BY <2>1 DEF Resting, AskerShape, DeskPlaces, Orderly
  <2>3. Goes0(a, to) /\ UNCHANGED <<file, server, cooling>>
    BY <1>3, <2>1 DEF Asks, Goes0
  <2> QED BY <1>s, <2>2, <2>3, AskerMoves
\* A process that goes on, with the tokens it has or others.
<1>4. ASSUME NEW a \in Askers, NEW there \in DeskPlaces \ {"rest"}, asker[a].pc # "rest",
             NEW bearer \in Nat, NEW ref \in Nat, there = "writing" => ref > 0, TokensInRange',
             asker' = [asker EXCEPT ![a].pc = there, ![a].access = bearer, ![a].refresh = ref]
      PROVE TokensBounded'
  <2>1. PICK to : to = [asker[a] EXCEPT !.pc = there, !.access = bearer, !.refresh = ref]
    OBVIOUS
  <2>2. to \in AskerShape /\ to.pc = there /\ to.topic = asker[a].topic /\ to.refresh = ref
    BY <1>0, <1>4, <2>1 DEF AskerShape
  <2>3. Goes0(a, to)
    BY <1>4, <2>1 DEF Goes0
  <2>4. to.topic # {}
    BY <1>4, <2>2 DEF TokensBounded, Rested
  <2>5. Orderly(to)
    BY <1>4, <2>2, <2>4 DEF Orderly
  <2> QED BY <1>4, <2>3, <2>5, AskerMoves
<1>5. ASSUME NEW a \in Askers, NEW there \in {"calling", "refreshing", "failed", "p", "null"}, asker[a].pc # "rest",
             asker' = [asker EXCEPT ![a].pc = there], TokensInRange'
      PROVE TokensBounded'
  <2>1. PICK to : to = [asker[a] EXCEPT !.pc = there]
    OBVIOUS
  <2>2. to \in AskerShape /\ to.pc = there /\ to.topic = asker[a].topic
    BY <1>0, <1>5, <2>1 DEF AskerShape, DeskPlaces
  <2>3. Goes0(a, to)
    BY <1>5, <2>1 DEF Goes0
  <2>4. to.topic # {}
    BY <1>5, <2>2 DEF TokensBounded, Rested
  <2>5. Orderly(to)
    BY <1>5, <2>2, <2>4 DEF Orderly
  <2> QED BY <1>5, <2>3, <2>5, AskerMoves
<1>6. ASSUME NEW a \in Askers, ReadsLogin(a) PROVE TokensBounded'
  <2>1. PICK there \in {"calling", "refreshing"} :
           asker' = [asker EXCEPT ![a].access = file.access, ![a].refresh = file.refresh, ![a].pc = there]
    BY <1>6 DEF ReadsLogin
  <2>2. asker' = [asker EXCEPT ![a].pc = there, ![a].access = file.access, ![a].refresh = file.refresh]
    BY <2>1
  <2>3. UNCHANGED <<file, server, cooling>> /\ asker[a].pc # "rest"
    BY <1>6 DEF ReadsLogin
  <2>4. there \in DeskPlaces \ {"rest"} /\ there # "writing" /\ file.access \in Nat /\ file.refresh \in Nat
    BY <1>0 DEF DeskPlaces
  <2> QED BY <1>s, <1>4, <2>2, <2>3, <2>4
<1>7. ASSUME NEW a \in Askers, Refreshes(a) PROVE TokensBounded'
  <2>1. CASE asker[a].refresh # server.refresh
    <3>1. asker' = [asker EXCEPT ![a].pc = "failed"] /\ UNCHANGED <<file, server, cooling>> /\ asker[a].pc # "rest"
      BY <1>7, <2>1 DEF Refreshes
    <3> QED BY <1>s, <1>5, <3>1
  <2>2. CASE asker[a].refresh = server.refresh
    <3>1. /\ server.refresh < MaxTokens /\ server' = [refresh |-> server.refresh + 1, access |-> server.refresh + 1]
          /\ asker' = [asker EXCEPT ![a].pc = "writing", ![a].access = server'.access, ![a].refresh = server'.refresh]
          /\ UNCHANGED <<file, cooling>> /\ asker[a].pc # "rest"
      BY <1>7, <2>2 DEF Refreshes
    <3>2. PICK n \in Nat : n = server.refresh + 1 /\ n \in 1..MaxTokens
      BY <1>0, <3>1
    <3>3. server'.refresh = n /\ server'.access = n
      BY <3>1, <3>2
    <3>4. TokensInRange'
      BY <1>0, <3>1, <3>2, <3>3 DEF TokensInRange
    <3>5. PICK there : there = "writing"
      OBVIOUS
    <3>6. asker' = [asker EXCEPT ![a].pc = there, ![a].access = n, ![a].refresh = n]
      BY <3>1, <3>2, <3>3, <3>5
    <3>7. there \in DeskPlaces \ {"rest"} /\ n \in Nat /\ n > 0 /\ asker[a].pc # "rest"
      BY <3>1, <3>2, <3>5 DEF DeskPlaces
    <3> QED BY <1>4, <3>4, <3>6, <3>7
  <2> QED BY <2>1, <2>2
<1>8. ASSUME NEW a \in Askers, RefreshIsLost(a) PROVE TokensBounded'
  <2>1. {server'.refresh, server'.access} \subseteq 0..MaxTokens /\ server'.refresh > 0
    BY <1>0, <1>8 DEF RefreshIsLost
  <2>2. asker' = [asker EXCEPT ![a].pc = "failed"] /\ UNCHANGED <<file, cooling>> /\ asker[a].pc # "rest"
    BY <1>8 DEF RefreshIsLost
  <2>3. TokensInRange'
    BY <1>0, <2>1, <2>2 DEF TokensInRange
  <2> QED BY <1>5, <2>2, <2>3
<1>9. ASSUME NEW a \in Askers, WritesLogin(a) PROVE TokensBounded'
  <2>1. asker[a].pc = "writing" /\ file'.refresh = asker[a].refresh
    BY <1>9 DEF WritesLogin, MergeIntoFile
  <2>2. file'.refresh > 0
    BY <2>1 DEF TokensBounded
  <2>3. asker' = [asker EXCEPT ![a].pc = "calling"] /\ UNCHANGED <<server, cooling>> /\ asker[a].pc # "rest"
    BY <1>9 DEF WritesLogin
  <2>4. TokensInRange'
    BY <2>2, <2>3 DEF TokensBounded, TokensInRange
  <2> QED BY <1>5, <2>3, <2>4
<1>10. ASSUME NEW a \in Askers, WriteFails(a) \/ \E answer \in {"p", "null"} : Answered(a, answer) PROVE TokensBounded'
  <2>1. asker[a].pc # "rest" /\ UNCHANGED <<file, server, cooling>>
    BY <1>10 DEF WriteFails, Answered
  <2>2. PICK there \in {"calling", "p", "null"} : asker' = [asker EXCEPT ![a].pc = there]
    BY <1>10 DEF WriteFails, Answered
  <2> QED BY <1>s, <1>5, <2>1, <2>2
<1>12. ASSUME NEW a \in Askers, NEW r, NEW f, StepEnds0(a, r, f) PROVE TokensBounded'
  <2>1. asker' = [asker EXCEPT ![a] = Resting] /\ UNCHANGED <<file, server>>
        /\ cooling' \in {cooling \ asker[a].topic, cooling \cup asker[a].topic}
    BY <1>12 DEF StepEnds0
  <2>2. cooling' \subseteq DeskMarkets
    BY <1>0, <2>1 DEF AskerShape
  <2>3. TokensInRange' /\ Goes0(a, Resting)
    BY <2>1, <2>2 DEF TokensBounded, TokensInRange, Goes0
  <2> QED BY <1>r, <2>3, AskerMoves
<1>13. ASSUME NEW a \in Askers, AskerDies(a) PROVE TokensBounded'
  <2>1. Goes0(a, Resting) /\ UNCHANGED <<file, server, cooling>>
    BY <1>13 DEF AskerDies, Goes0
  <2> QED BY <1>r, <1>s, <2>1, AskerMoves
<1> QED BY <1>1, <1>2, <1>3, <1>6, <1>7, <1>8, <1>9, <1>10, <1>12, <1>13 DEF DeskNext

LEMMA DeskTyped == ASSUME DeskInv, TokensBounded PROVE DeskTypeOK
<1>1. file.refresh \in Nat /\ server.refresh \in Nat /\ file.refresh <= server.refresh
  BY DEF DeskInv, DeskShape, TokensAreOld
<1> QED BY <1>1 DEF TokensBounded, TokensInRange, Rested, DeskTypeOK

\* Settlement: each receipt is counted once, and an incentive adds to the books.
ReceiptsCounted ==
    /\ DOMAIN ledger = {"posted", "count"} /\ IsFiniteSet(ledger.posted) /\ ledger.count = Cardinality(ledger.posted)
    /\ settlement.spendable \in BOOLEAN
    /\ DOMAIN books = {"estimate", "confirmed", "reserved"} /\ books.confirmed \in Nat /\ books.reserved = 0

LEMMA ReceiptsStart == ASSUME SettlementInit PROVE ReceiptsCounted
BY FS_EmptySet DEF SettlementInit, ReceiptsCounted

LEMMA ReceiptsStay == ASSUME ReceiptsCounted, [SettlementNext]_settlementVars PROVE ReceiptsCounted'
<1>1. ASSUME UNCHANGED <<settlement, ledger, books>> PROVE ReceiptsCounted'
  BY <1>1 DEF ReceiptsCounted
<1>2. ASSUME NEW k \in DOMAIN Target \cup {"REORG"}, ChainMoves(k) PROVE ReceiptsCounted'
  BY <1>1, <1>2 DEF ChainMoves
<1>3. ASSUME UNCHANGED <<ledger, books>>, settlement'.spendable \in BOOLEAN PROVE ReceiptsCounted'
  BY <1>3 DEF ReceiptsCounted
<1>4. ASSUME NEW k \in DOMAIN Target \cup {"REORG"}, SettlementEvent(k) PROVE ReceiptsCounted'
  <2>1. settlement' = settlement \/ settlement'.spendable \in BOOLEAN
    BY <1>4 DEF SettlementEvent
  <2> QED BY <1>3, <1>4, <2>1 DEF SettlementEvent, ReceiptsCounted
<1>5. CASE ReorgCorrection
  <2>1. settlement' = settlement \/ settlement'.spendable = FALSE
    BY <1>5 DEF ReorgCorrection
  <2> QED BY <1>3, <1>5, <2>1 DEF ReorgCorrection, ReceiptsCounted
<1>6. ASSUME NEW r \in Receipts, Receipt(r) PROVE ReceiptsCounted'
  <2>1. CASE r \in ledger.posted
    BY <1>1, <1>6, <2>1 DEF Receipt
  <2>2. CASE r \notin ledger.posted
    <3>1. ledger' = [posted |-> ledger.posted \cup {r}, count |-> ledger.count + 1] /\ UNCHANGED <<settlement, books>>
      BY <1>6, <2>2 DEF Receipt
    <3>2. IsFiniteSet(ledger.posted \cup {r}) /\ Cardinality(ledger.posted \cup {r}) = Cardinality(ledger.posted) + 1
      BY <2>2, FS_AddElement DEF ReceiptsCounted
    <3> QED BY <3>1, <3>2 DEF ReceiptsCounted
  <2> QED BY <2>1, <2>2
<1>7. ASSUME UNCHANGED <<settlement, ledger>>, NEW e, NEW c \in Nat, books' = [books EXCEPT !.estimate = e, !.confirmed = c]
      PROVE ReceiptsCounted'
  BY <1>7 DEF ReceiptsCounted
<1>8. ASSUME NEW v \in Rewards, RevisesEstimate(v) PROVE ReceiptsCounted'
  <2>1. books' = [books EXCEPT !.estimate = v, !.confirmed = books.confirmed] /\ UNCHANGED <<settlement, ledger>>
    BY <1>8 DEF RevisesEstimate, ReceiptsCounted
  <2> QED BY <1>7, <2>1 DEF ReceiptsCounted
<1>9. ASSUME NEW v \in Rewards, NEW p, NEW a, PostsIncentive(p, a, v) PROVE ReceiptsCounted'
  <2>1. CASE books' = books
    BY <1>1, <1>9, <2>1 DEF PostsIncentive
  <2>2. CASE v >= 0 /\ books' = [books EXCEPT !.confirmed = books.confirmed + v]
    <3>1. books.confirmed + v \in Nat
      BY <2>2, SettlementAssumption DEF ReceiptsCounted
    <3>2. books' = [books EXCEPT !.estimate = books.estimate, !.confirmed = books.confirmed + v]
      BY <2>2 DEF ReceiptsCounted
    <3> QED BY <1>7, <1>9, <3>1, <3>2 DEF PostsIncentive
  <2> QED BY <1>9, <2>1, <2>2 DEF PostsIncentive
<1>10. CASE UNCHANGED settlementVars
  BY <1>1, <1>10 DEF settlementVars
<1> QED BY <1>2, <1>4, <1>5, <1>6, <1>8, <1>9, <1>10 DEF SettlementNext

LEMMA SettlementTyped == ASSUME SettlementInv, ReceiptsCounted PROVE SettlementTypeOK
<1>1. settlement.status \in DOMAIN ValidTransitions
  BY DEF SettlementInv, JournalInv, SettlementStatuses, ValidTransitions
<1> QED BY <1>1 DEF ReceiptsCounted, SettlementTypeOK

\* Admission: the grants are among those that can be given, and a start holds one of them.
GrantsKnown == Granted \subseteq Grants /\ start.promo \in Granted \cup {0}

LEMMA GrantsStart == ASSUME AdmissionInit PROVE GrantsKnown
<1>1. DOMAIN << >> = {}
  OBVIOUS
<1> QED BY <1>1 DEF AdmissionInit, GrantsKnown, Granted, Down

LEMMA GrantsStay == ASSUME AdmissionInv, GrantsKnown, AdmissionInv', [AdmissionNext]_admissionVars PROVE GrantsKnown'
<1>0. DOMAIN start = {"pc", "promo", "at", "g2", "admitted"}
  BY DEF AdmissionInv, StartShape
<1>1. ASSUME UNCHANGED <<grants, start>> PROVE GrantsKnown'
  BY <1>1 DEF GrantsKnown, Granted
<1>2. CASE Evidence
  BY <1>1, <1>2 DEF Evidence, MarketCloses, ListingDrops, TickFetches, TickInserts, TickRefreshes, TickFails, DayPasses, startupVars
<1>3. ASSUME NEW id \in Grants, NEW s, Grant(id, s, 1) PROVE GrantsKnown'
  <2>1. Granted' = Granted \cup {id} /\ start' = start
    BY <1>3 DEF Grant, Granted
  <2> QED BY <2>1 DEF GrantsKnown
<1>4. ASSUME NEW id \in Granted, Revoke(id) PROVE GrantsKnown'
  <2>1. Granted' = Granted /\ start' = start
    BY <1>4 DEF Revoke, Granted
  <2> QED BY <2>1 DEF GrantsKnown
<1>5. ASSUME NEW h, NEW u, GuardChanges(h, u) PROVE GrantsKnown'
  BY <1>1, <1>5 DEF GuardChanges
<1>6. ASSUME grants' = grants, start'.promo \in Granted \cup {0} PROVE GrantsKnown'
  BY <1>6 DEF GrantsKnown, Granted
<1>7. CASE StartReadsPromotion
  <2>1. grants' = grants
    BY <1>7 DEF StartReadsPromotion
  <2>2. start' = [Down EXCEPT !.pc = "up"] \/ start'.pc = "latch"
    BY <1>7 DEF StartReadsPromotion, Down
  <2>3. CASE start'.pc = "latch"
    <3>1. start'.promo \in Granted'
      BY <2>3 DEF AdmissionInv, StartIsFounded
    <3> QED BY <1>6, <2>1, <3>1 DEF Granted
  <2> QED BY <1>6, <2>1, <2>2, <2>3 DEF Down
<1>8. CASE StartReadsLatch \/ StartReadsUnknown \/ \E fixed \in BOOLEAN : StartDecides(fixed)
  <2>1. start'.promo = start.promo /\ grants' = grants
    BY <1>0, <1>8 DEF StartReadsLatch, StartReadsUnknown, StartDecides
  <2> QED BY <1>6, <2>1 DEF GrantsKnown
<1>9. CASE StartFails \/ StartAgain
  BY <1>6, <1>9 DEF StartFails, StartAgain, Down
<1>10. CASE UNCHANGED admissionVars
  BY <1>1, <1>10 DEF admissionVars, startupVars
<1> QED BY <1>2, <1>3, <1>4, <1>5, <1>7, <1>8, <1>9, <1>10 DEF AdmissionNext, Startup

LEMMA AdmissionTyped == ASSUME AdmissionInv, GrantsKnown PROVE AdmissionTypeOK
<1>1. Cardinality(clusters) \in Nat
  BY FS_CardinalityType DEF AdmissionInv, EvidenceInv, EvidenceShape
<1> QED BY <1>1 DEF AdmissionInv, EvidenceInv, EvidenceShape, BaselineIsOld, ClusterRows, GrantsKnown, AdmissionTypeOK


\* StartUp: a slot whose process ended holds nothing.
OffHoldsNothing ==
    /\ port \in Procs \cup {Nobody}
    /\ \A p \in Procs : procs[p].pc = "off" => procs[p] = Off /\ port # p

LEMMA OffStays == ASSUME PortHeld, OffHoldsNothing, [StartUpNext]_startUpVars PROVE OffHoldsNothing'
<1>1. CASE UNCHANGED startUpVars
  BY <1>1 DEF startUpVars, OffHoldsNothing
<1>2. CASE StartUpNext
  <2>1. PICK p \in Procs :
          \/ \E once \in BOOLEAN : Boots(p, once)
          \/ ChecksCash(p) \/ Hydrates(p) \/ ChecksUnit(p) \/ ProbesPort(p) \/ Binds(p) \/ StartsLoop(p)
          \/ PassBegins(p) \/ PassEnds(p) \/ Signals(p) \/ PortCloses(p) \/ ShutsDown(p) \/ Dies(p)
    BY <1>2 DEF StartUpNext
  <2>2. procs \in [Procs -> [pc : Places, once : BOOLEAN, passing : BOOLEAN, jobs : BOOLEAN]]
    BY DEF PortHeld
  <2>3. ASSUME NEW to, procs' = [procs EXCEPT ![p] = to], port' = port \/ port' = Nobody \/ (port = Nobody /\ port' = p),
               to.pc = "off" => to = Off /\ port' # p
        PROVE  OffHoldsNothing'
    <3>1. \A q \in Procs : procs'[q] = IF q = p THEN to ELSE procs[q]
      BY <2>2, <2>3
    <3>2. port' \in Procs \cup {Nobody} /\ \A q \in Procs : q # p /\ port # q => port' # q
      BY <2>3, StartUpAssumption DEF OffHoldsNothing
    <3> QED BY <2>3, <3>1, <3>2 DEF OffHoldsNothing
  <2>4. CASE Exits(p)
    <3>1. procs' = [procs EXCEPT ![p] = Off] /\ (port' = port \/ port' = Nobody) /\ port' # p
      BY <2>4, StartUpAssumption DEF Exits
    <3> QED BY <2>3, <3>1
  <2>5. CASE PortCloses(p)
    <3>1. procs' = procs /\ port' = Nobody
      BY <2>5 DEF PortCloses
    <3> QED BY <3>1, StartUpAssumption DEF OffHoldsNothing
  <2>6. CASE ~Exits(p) /\ ~PortCloses(p)
    <3>1. /\ procs[p].passing => procs[p].pc # "off"
          /\ procs[p] \in [pc : Places, once : BOOLEAN, passing : BOOLEAN, jobs : BOOLEAN]
      BY <2>2 DEF PortHeld
    <3>2. ASSUME NEW once \in BOOLEAN, Boots(p, once) PROVE OffHoldsNothing'
      <4> DEFINE to == [pc |-> "cash", once |-> once, passing |-> FALSE, jobs |-> TRUE]
      <4>1. procs' = [procs EXCEPT ![p] = to] /\ port' = port /\ to.pc # "off"
        BY <3>2 DEF Boots
      <4> HIDE DEF to
      <4> QED BY <2>3, <4>1
    <3>3. CASE ChecksCash(p) \/ Hydrates(p) \/ ChecksUnit(p) \/ ProbesPort(p) \/ Binds(p) \/ StartsLoop(p)
      <4>1. PICK there \in Places \ {"off"} : procs' = [procs EXCEPT ![p].pc = there] /\ (port' = port \/ (port = Nobody /\ port' = p))
        BY <2>6, <3>3 DEF ChecksCash, Hydrates, ChecksUnit, ProbesPort, Binds, BindsPort, StartsLoop, Goes, Places
      <4> DEFINE to == [procs[p] EXCEPT !.pc = there]
      <4>2. procs' = [procs EXCEPT ![p] = to] /\ to.pc # "off"
        BY <3>1, <4>1
      <4> HIDE DEF to
      <4> QED BY <2>3, <4>1, <4>2
    <3>4. CASE PassBegins(p) \/ PassEnds(p)
      <4>1. PICK passing \in BOOLEAN : procs' = [procs EXCEPT ![p].passing = passing] /\ port' = port /\ procs[p].pc # "off"
        BY <2>6, <3>1, <3>4 DEF PassBegins, PassEnds, At
      <4> DEFINE to == [procs[p] EXCEPT !.passing = passing]
      <4>2. procs' = [procs EXCEPT ![p] = to] /\ to.pc # "off"
        BY <3>1, <4>1
      <4> HIDE DEF to
      <4> QED BY <2>3, <4>1, <4>2
    <3>5. CASE Signals(p)
      <4> DEFINE to == [procs[p] EXCEPT !.pc = "stopping", !.jobs = FALSE]
      <4>1. procs' = [procs EXCEPT ![p] = to] /\ to.pc # "off" /\ port' = port
        BY <3>1, <3>5 DEF Signals
      <4> HIDE DEF to
      <4> QED BY <2>3, <4>1
    <3> QED BY <2>1, <2>6, <3>2, <3>3, <3>4, <3>5 DEF ShutsDown, Dies
  <2> QED BY <2>4, <2>5, <2>6
<1> QED BY <1>1, <1>2

LEMMA StartUpTyped == ASSUME OffHoldsNothing PROVE StartUpTypeOK
BY DEF OffHoldsNothing, StartUpTypeOK, At

\* MemRecoveryLedger: what is counted was once reported.
CountedWasReported == pg.counted \in Fills \cup {0}

LEMMA CountedStays == ASSUME DoubleInv, CountedWasReported, [DoubleNext]_doubleVars PROVE CountedWasReported'
<1>1. pg.exists \in BOOLEAN /\ pg.counted \in Nat
  BY DEF DoubleInv, DoubleRow
<1>2. CASE UNCHANGED doubleVars
  BY <1>2 DEF doubleVars, CountedWasReported
<1>3. CASE Submitted \/ CancelAsked \/ \E state \in States : Updated(state)
  <2>1. pg'.counted = pg.counted
    BY <1>3 DEF Submitted, CancelAsked, Updated, Pg!Upserted, Pg!InState, Pg!Entry, Pg!CancelRequested, Pg!StateUpdated
  <2> QED BY <2>1 DEF CountedWasReported
<1>4. ASSUME NEW reply, ReportArrives(reply) PROVE CountedWasReported'
  <2>1. pg'.counted = pg.counted
    BY <1>1, <1>4 DEF ReportArrives, Pg!Resolved, Pg!InState, Pg!Entry
  <2> QED BY <2>1 DEF CountedWasReported
<1>5. ASSUME NEW filled \in Fills, FillReported(filled) PROVE CountedWasReported'
  <2>1. filled \in Nat
    BY DoubleAssumption
  <2>2. pg'.counted \in {filled, pg.counted}
    BY <1>1, <1>5, <2>1 DEF FillReported, Pg!FillCounted, Pg!FillDelta, DoubleInv, DoubleRow
  <2> QED BY <2>2 DEF CountedWasReported
<1> QED BY <1>2, <1>3, <1>4, <1>5 DEF DoubleNext

LEMMA DoubleTyped == ASSUME DoubleInv, CountedWasReported PROVE DoubleTypeOK
BY DEF DoubleInv, CountedWasReported, DoubleTypeOK

\* EmergencyStop: what is still to be caught up are the three gates.
CatchUpsMissing == DOMAIN platform = {"up", "missing"} /\ platform.missing \subseteq CatchUps

LEMMA CatchUpsStay == ASSUME CatchUpsMissing, [StopNext]_stopVars PROVE CatchUpsMissing'
<1>1. CASE UNCHANGED platform
  BY <1>1 DEF CatchUpsMissing
<1>2. ASSUME NEW gate, StoreRecovers(gate) PROVE CatchUpsMissing'
  BY <1>2 DEF StoreRecovers, CatchUpsMissing
<1>3. CASE StoreFails
  BY <1>3 DEF StoreFails, CatchUpsMissing
<1> QED BY <1>1, <1>2, <1>3 DEF StopNext, stopVars, LevelRaised, EntrySigned, VenueMoves, OutcomeSeen, Reduced, Flattened,
           CompromiseSeen, ActionTaken, CancelOpened

LEMMA StopTyped == ASSUME StopInv, CatchUpsMissing PROVE StopTypeOK
BY DEF StopInv, StopShape, CatchUpsMissing, StopTypeOK

\* PaperLoop: the invariant of its sums says it all.
LEMMA PaperTyped == ASSUME PaperInv PROVE PaperTypeOK
<1>1. acc.outcomes \in Nat /\ acc.forecasts \in Nat /\ acc.outcomes <= acc.forecasts
  BY DEF PaperInv, Ledgers, AddsUp
<1> QED BY <1>1 DEF PaperInv, AddsUp, PaperTypeOK


\* Wizard: the addresses are of keys minted so far.
Modes == {"none", "LIVE"}
AddressesInUse ==
    /\ env.mode \in Modes /\ terminal.read.mode \in Modes
    /\ {env.address, keyfile, saving.key, told} \subseteq InUse(minted)

\* A turn leaves the address as it is, and knows two modes.
LEMMA TurnKeepsAddress ==
  ASSUME DOMAIN env = DOMAIN FirstEnv, env.mode \in Modes, NEW s, s.step \in Steps \ {"none"}, NEW said, NEW fresh
  PROVE  OnboardNext(s, said, fresh).env.address = env.address /\ OnboardNext(s, said, fresh).env.mode \in Modes
<1> DEFINE Kept(turn) == turn.env.address = env.address /\ turn.env.mode \in Modes
<1>1. DOMAIN env = {"key", "address", "account", "funder", "mode", "cap", "loss", "passphrase"}
  BY DEF FirstEnv
<1>2. \A t : Kept(Stay(t))
  BY DEF Stay
<1>3. \A t, there : Kept(Goto(t, there))
  BY DEF Goto
<1>4. \A t, there, value : /\ Kept(Save(t, there, [env EXCEPT !.mode = "LIVE"]))
                           /\ Kept(Save(t, there, [env EXCEPT !.account = value]))
                           /\ Kept(Save(t, there, [env EXCEPT !.funder = value]))
                           /\ Kept(Save(t, there, [env EXCEPT !.cap = value]))
                           /\ Kept(Save(t, there, [env EXCEPT !.loss = value]))
  BY <1>1 DEF Save, Modes
<1> HIDE DEF Kept
<1>5. CASE s.step \in {"provider", "baseurl", "model"}
  <2>1. Kept(Brain(s, said))
    BY <1>2, <1>3, <1>5 DEF Brain
  <2> QED BY <1>2, <1>5, <2>1 DEF OnboardNext, Kept
<1>6. CASE s.step \in {"wallet", "wallet_confirm", "mode", "mode_confirm"}
  <2>1. Kept(Wallet(s, said, fresh))
    BY <1>2, <1>3, <1>4, <1>6 DEF Wallet
  <2> QED BY <1>2, <1>6, <2>1 DEF OnboardNext, Kept
<1>7. CASE s.step \in {"account", "funder", "capital", "loss"}
  <2>1. Kept(Bounds(s, said))
    BY <1>2, <1>4, <1>7 DEF Bounds
  <2> QED BY <1>2, <1>7, <2>1 DEF OnboardNext, Kept
<1> QED BY <1>5, <1>6, <1>7 DEF Steps

LEMMA AddressesStay == ASSUME WizardInv, AddressesInUse, [WizardNext]_wizardVars PROVE AddressesInUse'
<1>1. /\ DOMAIN env = {"key", "address", "account", "funder", "mode", "cap", "loss", "passphrase"}
      /\ DOMAIN env = DOMAIN FirstEnv /\ DOMAIN terminal = {"reading", "read", "edits"}
      /\ DOMAIN terminal.read = DOMAIN env /\ wizard.step \in Steps /\ minted \in Nat
  BY WizardAssumption DEF WizardInv, WizardShape, FirstEnv
<1>2. NotSaving.key = Unset /\ Unset \in InUse(minted) /\ Own \in InUse(minted)
  BY DEF NotSaving, InUse
<1>3. ASSUME env'.address = env.address, env'.mode \in Modes, saving' \in {saving, NotSaving},
             UNCHANGED <<keyfile, told, minted, terminal>>
      PROVE AddressesInUse'
  <2>1. {env'.address, keyfile', saving'.key, told'} \subseteq InUse(minted)
    BY <1>2, <1>3 DEF AddressesInUse
  <2> QED BY <1>3, <2>1 DEF AddressesInUse, InUse
<1>4. CASE UNCHANGED wizardVars
  BY <1>3, <1>4 DEF wizardVars, AddressesInUse
<1>5. ASSUME NEW said, OnboardTurn(said) PROVE AddressesInUse'
  <2> DEFINE s == IF wizard.step = "none" THEN Fresh0 ELSE wizard
             turn == IF wizard.step = "none" /\ said = "" THEN Stay(Fresh0) ELSE OnboardNext(s, said, Unset)
  <2>1. env' = turn.env /\ UNCHANGED <<keyfile, saving, told, minted, terminal>>
    BY <1>5 DEF OnboardTurn
  <2>2. Fresh0.step = "provider"
    BY DEF Fresh0, NoSession
  <2>3. s.step \in Steps \ {"none"}
    BY <1>1, <2>2 DEF Steps
  <2> HIDE DEF s
  <2>4. OnboardNext(s, said, Unset).env.address = env.address /\ OnboardNext(s, said, Unset).env.mode \in Modes
    BY <1>1, <2>3, TurnKeepsAddress DEF AddressesInUse
  <2>5. Stay(Fresh0).env = env
    BY DEF Stay
  <2>6. turn.env.address = env.address /\ turn.env.mode \in Modes
    BY <2>4, <2>5 DEF AddressesInUse
  <2> HIDE DEF turn
  <2> QED BY <1>3, <2>1, <2>6
<1>6. ASSUME NEW from, MintsTo(from), UNCHANGED <<env, told, terminal>> PROVE AddressesInUse'
  <2>1. minted' = minted + 1 /\ keyfile' = Minted[minted'] /\ saving'.key = Minted[minted']
    BY <1>6 DEF MintsTo
  <2>2. minted' \in 1..minted' /\ 1..minted \subseteq 1..minted'
    BY <1>1, <2>1
  <2>3. InUse(minted) \subseteq InUse(minted') /\ Minted[minted'] \in InUse(minted')
    BY <2>2 DEF InUse
  <2>4. {env'.address, keyfile', saving'.key, told'} \subseteq InUse(minted')
    BY <1>6, <2>1, <2>3 DEF AddressesInUse
  <2> QED BY <1>6, <2>4 DEF AddressesInUse, InUse
<1>7. CASE WizardMints
  BY <1>6, <1>7 DEF WizardMints
<1>8. CASE WalletMints
  BY <1>3, <1>6, <1>8 DEF WalletMints, AddressesInUse
<1>9. CASE WizardSaves \/ WalletSaves
  <2>1. /\ env'.address \in {env.address, saving.key} /\ env'.mode = env.mode /\ saving' = NotSaving /\ told' = saving.key
        /\ UNCHANGED <<keyfile, minted, terminal>>
    BY <1>1, <1>9 DEF WizardSaves, WalletSaves, WizardWrites
  <2>2. {env'.address, keyfile', saving'.key, told'} \subseteq InUse(minted)
    BY <1>2, <2>1 DEF AddressesInUse
  <2> QED BY <2>1, <2>2 DEF AddressesInUse, InUse
<1>10. CASE WalletAsks \/ TimeRunsOut \/ BotRestarts
  BY <1>3, <1>10 DEF WalletAsks, TimeRunsOut, BotRestarts, AddressesInUse
<1>11. CASE TerminalReads
  <2>1. /\ terminal'.read = env /\ keyfile' = Own /\ told' = Unset /\ UNCHANGED <<env, saving, minted>>
    BY <1>11 DEF TerminalReads
  <2>2. {env'.address, keyfile', saving'.key, told'} \subseteq InUse(minted)
    BY <1>2, <2>1 DEF AddressesInUse
  <2> QED BY <2>1, <2>2 DEF AddressesInUse, InUse
<1>12. CASE TerminalWrites
  <2>1. /\ terminal'.read = FirstEnv /\ env'.address = Own /\ env'.mode = terminal.read.mode
        /\ UNCHANGED <<keyfile, told, saving, minted>>
    BY <1>1, <1>12 DEF TerminalWrites
  <2>2. FirstEnv.mode = "none"
    BY DEF FirstEnv
  <2>3. {env'.address, keyfile', saving'.key, told'} \subseteq InUse(minted)
    BY <1>2, <2>1 DEF AddressesInUse
  <2> QED BY <2>1, <2>2, <2>3 DEF AddressesInUse, InUse, Modes
<1> QED BY <1>4, <1>5, <1>7, <1>8, <1>9, <1>10, <1>11, <1>12 DEF WizardNext

LEMMA WizardTyped == ASSUME WizardInv, AddressesInUse PROVE WizardTypeOK
<1>1. minted \in Nat /\ (minted - 1) \in Int
  BY WizardAssumption DEF WizardInv, WizardShape
<1>2. 1..(minted - 1) \subseteq 1..minted
  BY <1>1
<1>3. env.key \in InUse(minted)
  BY <1>2 DEF WizardInv, KeysAreKnown, InUse
<1> QED BY <1>3 DEF WizardInv, WizardShape, AddressesInUse, InUse, Modes, WizardTypeOK


\* Upkeep: what the files hold are versions the owner made; only a table that could
\* not be read is exported as such.
Contents == Versions \ {Unexported}
FilesHoldVersions ==
    /\ \A f \in HomeFiles : home[f] \in Contents
    /\ \A f \in Files : directory.files[f] \in Versions
    /\ directory.files["env"] \in Contents /\ directory.files["keystore"] \in Contents
\* What runs was built of the source there was.
RunsWhatWasBuilt ==
    /\ DOMAIN install = {"at", "published", "source", "built", "launcher", "schema", "running", "migrated", "said"}
    /\ install.published \in Nat /\ install.source \in Nat /\ install.built \in Nat /\ install.running \in Nat
    /\ install.built <= install.source /\ install.running <= install.source

LEMMA ContentsAre == Contents = {Missing} \cup 0..MaxChanges /\ 0..MaxChanges \subseteq Contents
BY UpkeepAssumption DEF Contents, Versions, Missing, Unexported

\* A write to the home directory.
LEMMA HomeWritten ==
  ASSUME UpkeepInv, FilesHoldVersions, NEW name \in HomeFiles, NEW content \in Contents, NEW after, Writes(name, content, after),
         directory' = directory
  PROVE  FilesHoldVersions'
<1>1. home \in [HomeFiles -> Int] /\ home' = [home EXCEPT ![name] = content]
  BY DEF UpkeepInv, UpkeepShape, Writes
<1>2. \A f \in HomeFiles : home'[f] \in Contents
  BY <1>1 DEF FilesHoldVersions
<1>3. UNCHANGED <<Contents, Versions>>
  BY DEF Contents, Versions
<1> QED BY <1>2, <1>3 DEF FilesHoldVersions

LEMMA VersionsStay == ASSUME UpkeepInv, FilesHoldVersions, [UpkeepNext]_upkeepVars PROVE FilesHoldVersions'
<1>1. /\ home \in [HomeFiles -> Int] /\ DOMAIN directory = {"files", "manifest"} /\ directory.files \in [Files -> Int]
      /\ moved \in [home : Nat, directory : Nat, owner : Nat]
  BY DEF UpkeepInv, UpkeepShape
<1>2. "env" \in HomeFiles /\ "keystore" \in HomeFiles /\ "latch" \in HomeFiles
  BY DEF HomeFiles
<1>3. ASSUME home' = home, directory'.files = directory.files PROVE FilesHoldVersions'
  BY <1>3 DEF FilesHoldVersions, Contents, Versions
<1>4. CASE UNCHANGED upkeepVars \/ Updating \/ RestoreStarts \/ RestoreCutShort \/ BackupCutShort \/ BackupEnds
           \/ \E encrypt, passphrase \in BOOLEAN : BackupStarts(encrypt, passphrase)
  <2>1. home' = home /\ directory'.files = directory.files
    BY <1>1, <1>4 DEF upkeepVars, Updating, Publish, UpdateStep, RestoreStarts, RestoreCutShort, BackupCutShort, BackupEnds, BackupStarts
  <2> QED BY <1>3, <2>1
<1>5. ASSUME NEW dbUp, BackupWrites(dbUp) PROVE FilesHoldVersions'
  <2> DEFINE source == BackupOrder[backup.at]
             name == IF source = "env" /\ ~backup.encrypt THEN "redacted" ELSE source
             content == IF source \in {"wallets", "latch"} /\ ~dbUp THEN Unexported ELSE home[source]
  <2>1. CASE directory' = directory
    BY <1>3, <1>5, <2>1 DEF BackupWrites
  <2>2. CASE directory' = [directory EXCEPT !.files[name] = content]
    <3>1. source \in HomeFiles
      BY <1>5, BackupNames DEF BackupWrites, HomeFiles
    <3>2. name \in Files /\ content \in Versions
      BY <3>1 DEF FilesHoldVersions, Files, HomeFiles, Contents, Versions
    <3>3. name \in {"env", "keystore"} => content \in Contents
      BY <3>1 DEF FilesHoldVersions
    <3> HIDE DEF name, content
    <3>4. directory'.files = [directory.files EXCEPT ![name] = content] /\ home' = home
      BY <1>1, <1>5, <2>2 DEF BackupWrites
    <3>5. \A f \in Files : directory'.files[f] = IF f = name THEN content ELSE directory.files[f]
      BY <1>1, <3>4
    <3>6. "env" \in Files /\ "keystore" \in Files
      BY DEF Files
    <3>7. UNCHANGED <<Contents, Versions>>
      BY DEF Contents, Versions
    <3> QED BY <3>2, <3>3, <3>4, <3>5, <3>6, <3>7 DEF FilesHoldVersions
  <2> QED BY <1>5, <2>1, <2>2 DEF BackupWrites
<1>6. CASE RestoreStep
  <2>1. directory' = directory
    BY <1>6 DEF RestoreStep
  <2>2. CASE home' = home
    BY <1>3, <2>1, <2>2
  <2>3. CASE home' # home
    <3>1. PICK name \in HomeFiles, content \in Contents, after \in {"keystore", "latch", "wallets"} : Writes(name, content, after)
      <4>1. CASE RestoreEnv
        BY <1>2, <4>1 DEF RestoreEnv, FilesHoldVersions
      <4>2. CASE RestoreKeystore
        BY <1>2, <2>3, <4>2 DEF RestoreKeystore, LeavesOut, FilesHoldVersions
      <4>3. ASSUME NEW dbUp, RestoreLatch(dbUp)
            PROVE  Writes("latch", directory.files["latch"], "wallets") /\ directory.files["latch"] \in Contents
        <5>1. directory.files["latch"] >= 0 /\ Writes("latch", directory.files["latch"], "wallets")
          BY <2>3, <4>3 DEF RestoreLatch, LeavesOut
        <5>2. directory.files["latch"] \in Versions
          BY DEF FilesHoldVersions, Files
        <5>3. directory.files["latch"] # Unexported
          BY <5>1 DEF Unexported
        <5> QED BY <5>1, <5>2, <5>3 DEF Contents
      <4> QED BY <1>2, <1>6, <2>3, <4>1, <4>2, <4>3 DEF RestoreStep, RestoreWallets, LeavesOut
    <3> QED BY <2>1, <3>1, HomeWritten
  <2> QED BY <2>2, <2>3
<1>7. ASSUME NEW changed, Changes(changed) PROVE FilesHoldVersions'
  <2>1. moved.owner + 1 \in 0..MaxChanges
    BY <1>1, <1>7, UpkeepAssumption DEF Changes
  <2>2. directory' = directory /\ \A f \in HomeFiles : home'[f] \in {moved.owner + 1, home[f]}
    BY <1>1, <1>7 DEF Changes
  <2>3. \A f \in HomeFiles : home'[f] \in Contents
    BY <2>1, <2>2, ContentsAre DEF FilesHoldVersions
  <2>4. UNCHANGED <<Contents, Versions>>
    BY DEF Contents, Versions
  <2> QED BY <2>2, <2>3, <2>4 DEF FilesHoldVersions
<1> QED BY <1>4, <1>5, <1>6, <1>7 DEF UpkeepNext, Keeping, Meanwhile

LEMMA BuiltStays == ASSUME RunsWhatWasBuilt, [UpkeepNext]_upkeepVars PROVE RunsWhatWasBuilt'
<1>1. CASE install' = install
  BY <1>1 DEF RunsWhatWasBuilt
<1>2. CASE Publish
  <2>1. install' = [install EXCEPT !.published = @ + 1]
    BY <1>2 DEF Publish
  <2> QED BY <2>1 DEF RunsWhatWasBuilt
<1>3. CASE install.source < install.published /\ install' = [install EXCEPT !.at = "build", !.source = install.published, !.said = "nothing"]
  BY <1>3 DEF RunsWhatWasBuilt
<1>4. CASE install' = [install EXCEPT !.at = "launcher", !.built = install.source]
  BY <1>4 DEF RunsWhatWasBuilt
<1>5. CASE install' = [install EXCEPT !.at = Idle, !.said = "failed"]
  BY <1>5 DEF RunsWhatWasBuilt
<1>6. ASSUME NEW v, install' = [install EXCEPT !.at = "migrate", !.launcher = v] PROVE RunsWhatWasBuilt'
  BY <1>6 DEF RunsWhatWasBuilt
<1>7. CASE install' = [install EXCEPT !.at = "unit", !.schema = install.built, !.migrated = TRUE] \/ install' = [install EXCEPT !.at = "unit", !.migrated = FALSE]
  BY <1>7 DEF RunsWhatWasBuilt
<1>8. ASSUME NEW v, NEW w \in {install.built, install.running}, install' = [install EXCEPT !.at = Idle, !.running = w, !.said = v] PROVE RunsWhatWasBuilt'
  BY <1>8 DEF RunsWhatWasBuilt
<1>9. CASE UpdateStep
  <2>1. ASSUME NEW restarted, install' = [install EXCEPT !.at = Idle, !.running = IF restarted THEN install.built ELSE @,
                                !.said = IF install.migrated THEN "migrated" ELSE "migrate by hand"]
        PROVE  RunsWhatWasBuilt'
    <3> DEFINE w == IF restarted THEN install.built ELSE install.running
               v == IF install.migrated THEN "migrated" ELSE "migrate by hand"
    <3>1. w \in {install.built, install.running} /\ install' = [install EXCEPT !.at = Idle, !.running = w, !.said = v]
      BY <2>1 DEF RunsWhatWasBuilt
    <3> HIDE DEF w, v
    <3> QED BY <1>8, <3>1
  <2> QED BY <1>3, <1>4, <1>5, <1>6, <1>7, <1>9, <2>1 DEF UpdateStep
<1> QED BY <1>1, <1>2, <1>9 DEF UpkeepNext, Updating, Keeping, Meanwhile, upkeepVars, BackupStarts, BackupWrites, BackupEnds,
           BackupCutShort, RestoreStarts, RestoreStep, RestoreCutShort, Changes

LEMMA UpkeepTyped == ASSUME UpkeepInv, FilesHoldVersions, RunsWhatWasBuilt PROVE UpkeepTypeOK
BY DEF UpkeepInv, UpkeepShape, FilesHoldVersions, RunsWhatWasBuilt, Contents, UpkeepTypeOK


\* Setup: what .env holds of keys, addresses, bounds and markets.
Lists == {None, "auto", "picked"}
Bearing(d) == DOMAIN d = DOMAIN NoSetup /\ d.cap \in Nat /\ d.bps \in Nat /\ d.markets \in Lists
Settled(e) ==
    /\ DOMAIN e = DOMAIN BlankEnv
    /\ {e.sealed, e.address} \subseteq WalletKeys \cup {None} /\ {e.account, e.funder} \subseteq Addresses \cup {None}
    /\ e.markets \in Lists /\ e.loss \in Nat /\ e.cap \in Nat
EnvIsSettled == Settled(dotenv) /\ keystore \in WalletKeys \cup {None} /\ Bearing(dialog)

LEMMA LossCapOfIs == ASSUME NEW cap \in Nat, NEW bps \in Nat PROVE LossCapOf(cap, bps) \in Nat
<1>1. CASE cap = 0 \/ bps = 0
  BY <1>1 DEF LossCapOf
<1>2. CASE cap \in Nat \ {0} /\ bps \in Nat \ {0}
  BY <1>2, LossCapIs
<1> QED BY <1>1, <1>2

LEMMA BoundedIs == ASSUME NEW amount \in Nat, NEW standard \in {StandardCap, StandardBps} PROVE Bounded(amount, standard) \in Nat
BY SetupAssumption DEF Bounded

\* An answer that says nothing of the bounds and the markets.
LEMMA AnswerBears ==
  ASSUME NEW d, Bearing(d)
  PROVE  /\ \A question : Bearing([d EXCEPT !.step = question])
         /\ \A x : Bearing([d EXCEPT !.brain = x]) /\ Bearing([d EXCEPT !.key = x])
         /\ \A x, y : Bearing([d EXCEPT !.account = x, !.funder = y]) /\ Bearing([d EXCEPT !.account = x, !.funder = y, !.detected = TRUE])
         /\ \A x \in Nat, y \in Nat : Bearing([d EXCEPT !.cap = x, !.bps = y])
         /\ \A x \in Lists : Bearing([d EXCEPT !.markets = x])
<1>1. DOMAIN d = {"command", "step", "brain", "key", "account", "funder", "detected", "cap", "bps", "markets"}
  BY NoSetupIs DEF Bearing
<1>2. \A question : Bearing([d EXCEPT !.step = question])
  BY <1>1 DEF Bearing
<1>3. \A x : Bearing([d EXCEPT !.brain = x]) /\ Bearing([d EXCEPT !.key = x])
  BY <1>1 DEF Bearing
<1>4. \A x, y : Bearing([d EXCEPT !.account = x, !.funder = y]) /\ Bearing([d EXCEPT !.account = x, !.funder = y, !.detected = TRUE])
  BY <1>1 DEF Bearing
<1>5. \A x \in Nat, y \in Nat : Bearing([d EXCEPT !.cap = x, !.bps = y])
  BY <1>1 DEF Bearing
<1>6. \A x \in Lists : Bearing([d EXCEPT !.markets = x])
  BY <1>1 DEF Bearing
<1> QED BY <1>2, <1>3, <1>4, <1>5, <1>6

LEMMA NoSetupBears == Bearing(NoSetup) /\ \A c, s : Bearing([NoSetup EXCEPT !.command = c, !.step = s])
BY DEF Bearing, NoSetup, Lists

LEMMA SettledIs == Settled(BlankEnv) /\ \A k : Settled([BlankEnv EXCEPT !.raw = k])
BY DEF Settled, BlankEnv, Lists

LEMMA SettledStays == ASSUME SetupInv, EnvIsSettled, [SetupNext]_setupVars PROVE EnvIsSettled'
<1>1. Settled(dotenv) /\ keystore \in WalletKeys \cup {None} /\ Bearing(dialog)
  BY DEF EnvIsSettled
<1>2. DOMAIN dotenv = {"sealed", "address", "account", "funder", "raw", "creds", "provider", "cap", "loss", "markets"}
  BY <1>1, NoSetupIs DEF Settled
<1>3. ASSUME Settled(dotenv'), keystore' \in WalletKeys \cup {None}, Bearing(dialog') PROVE EnvIsSettled'
  BY <1>3 DEF EnvIsSettled, Settled, Bearing
<1>4. CASE UNCHANGED setupVars
  BY <1>1, <1>3, <1>4 DEF setupVars
<1>5. CASE Begins("onboard", "provider") \/ Begins("setup", "bounds") \/ Cancels
  <2>1. UNCHANGED <<dotenv, keystore>>
    BY <1>5 DEF Begins, Cancels
  <2>2. dialog' = NoSetup \/ \E c, s : dialog' = [NoSetup EXCEPT !.command = c, !.step = s]
    BY <1>5 DEF Begins, Cancels
  <2>3. Bearing(dialog')
    <3>1. ASSUME NEW c, NEW s, dialog' = [NoSetup EXCEPT !.command = c, !.step = s] PROVE Bearing(dialog')
      <4>1. Bearing([NoSetup EXCEPT !.command = c, !.step = s])
        BY NoSetupBears
      <4> QED BY <3>1, <4>1, Zenon
    <3> QED BY <2>2, <3>1, NoSetupBears, Zenon
  <2> QED BY <1>1, <1>3, <2>1, <2>3
<1>6. CASE \/ \E brain \in Brains : OnboardProvider(brain)
           \/ \E ready, goesOn \in BOOLEAN : OnboardKey(ready, goesOn) \/ OnboardReach(ready, goesOn)
           \/ \E wellFormed \in BOOLEAN : OnboardCustom(wellFormed)
  <2>1. UNCHANGED <<dotenv, keystore>>
    BY <1>6 DEF OnboardProvider, OnboardKey, OnboardReach, OnboardCustom
  <2>2. \/ dialog' = NoSetup
        \/ \E brain : dialog' = [[dialog EXCEPT !.brain = brain] EXCEPT !.step = "key"]
        \/ dialog' = [[dialog EXCEPT !.brain = None] EXCEPT !.step = "wallet"]
        \/ dialog' = [dialog EXCEPT !.step = "reach"]
    BY <1>6 DEF OnboardProvider, OnboardKey, OnboardReach, OnboardCustom, Answer, AsksNext
  <2>3. \A x, q : Bearing([[dialog EXCEPT !.brain = x] EXCEPT !.step = q])
    <3>1. \A x : Bearing([dialog EXCEPT !.brain = x])
      BY <1>1, AnswerBears
    <3> QED BY <3>1, AnswerBears
  <2>4. \A q : Bearing([dialog EXCEPT !.step = q])
    BY <1>1, AnswerBears
  <2>5. Bearing(dialog')
    <3>1. CASE dialog' = NoSetup
      BY <3>1, NoSetupBears
    <3>2. ASSUME NEW x, NEW q, dialog' = [[dialog EXCEPT !.brain = x] EXCEPT !.step = q] PROVE Bearing(dialog')
      <4>1. Bearing([[dialog EXCEPT !.brain = x] EXCEPT !.step = q])
        BY <2>3
      <4> QED BY <3>2, <4>1, Zenon
    <3>3. CASE dialog' = [dialog EXCEPT !.step = "reach"]
      <4>1. Bearing([dialog EXCEPT !.step = "reach"])
        BY <2>4
      <4> QED BY <3>3, <4>1, Zenon
    <3> QED BY <2>2, <3>1, <3>2, <3>3, Zenon
  <2> QED BY <1>1, <1>3, <2>1, <2>5
<1>7. ASSUME NEW d, Bearing(d), NEW question, Answer(question, d) PROVE Bearing(dialog')
  BY <1>7, AnswerBears DEF Answer
<1>8. ASSUME NEW question, AsksNext(question) PROVE Bearing(dialog')
  BY <1>1, <1>7, <1>8 DEF AsksNext
<1>9. ASSUME NEW key \in WalletKeys, OnboardWallet(key) PROVE EnvIsSettled'
  <2>1. Bearing([dialog EXCEPT !.key = key])
    BY <1>1, AnswerBears
  <2>2. Answer("mode", [dialog EXCEPT !.key = key]) /\ dotenv' = dotenv /\ keystore' = key
    BY <1>9 DEF OnboardWallet
  <2>3. Bearing(dialog')
    BY <1>7, <2>1, <2>2
  <2> QED BY <1>1, <1>3, <2>2, <2>3
<1>10. CASE OnboardMode \/ SetupKeepsWallet
  <2>1. Bearing(dialog') /\ UNCHANGED <<dotenv, keystore>>
    BY <1>8, <1>10 DEF OnboardMode, SetupKeepsWallet
  <2> QED BY <1>1, <1>3, <2>1
<1>11. ASSUME NEW account \in Addresses, NEW funder \in Addresses, OnboardAddresses(account, funder) PROVE EnvIsSettled'
  <2>1. Bearing([dialog EXCEPT !.account = account, !.funder = funder]) /\ Bearing([dialog EXCEPT !.account = account, !.funder = funder, !.detected = TRUE])
    BY <1>1, AnswerBears
  <2>2. Bearing(dialog') /\ UNCHANGED <<dotenv, keystore>>
    BY <1>7, <1>11, <2>1 DEF OnboardAddresses
  <2> QED BY <1>1, <1>3, <2>2
<1>12. ASSUME NEW cap \in CapAnswers, NEW bps \in BpsAnswers, OnboardBounds(cap, bps) \/ SetupBounds(cap, bps) PROVE EnvIsSettled'
  <2>1. cap \in Nat /\ bps \in Nat /\ dotenv.cap \in Nat
    BY <1>1, SetupAssumption DEF Settled
  <2>2. Floored(cap) \in Nat
    BY <2>1 DEF Floored
  <2>3. Bounded(cap, StandardCap) \in Nat /\ Bounded(dotenv.cap, StandardCap) \in Nat /\ Bounded(bps, StandardBps) \in Nat
    BY <2>1, BoundedIs
  <2>4. PICK c \in Nat, b \in Nat : \E q : Answer(q, [dialog EXCEPT !.cap = c, !.bps = b])
    BY <1>12, <2>2, <2>3 DEF OnboardBounds, SetupBounds
  <2>5. Bearing([dialog EXCEPT !.cap = c, !.bps = b])
    BY <1>1, AnswerBears
  <2>6. Bearing(dialog') /\ UNCHANGED <<dotenv, keystore>>
    BY <1>7, <1>12, <2>4, <2>5 DEF OnboardBounds, SetupBounds
  <2> QED BY <1>1, <1>3, <2>6
<1>13. CASE OnboardWrites
  <2>1. /\ dialog.command = "onboard" /\ dialog.step = "write"
        /\ dotenv' = [dotenv EXCEPT !.sealed = dialog.key, !.address = dialog.key,
             !.account = dialog.account, !.funder = dialog.funder, !.provider = TRUE, !.markets = "auto",
             !.cap = dialog.cap, !.loss = LossCapOf(dialog.cap, dialog.bps)]
    BY <1>13 DEF OnboardWrites, Asking
  <2>2. dialog.key \in WalletKeys /\ dialog.account \in Addresses /\ dialog.funder \in Addresses /\ dialog.cap \in Nat /\ dialog.bps \in Nat
    BY <1>1, <2>1 DEF SetupInv, AnswersAreSound, Bearing
  <2>3. PICK loss \in Nat : loss = LossCapOf(dialog.cap, dialog.bps)
    BY <2>2, LossCapOfIs
  <2>4. /\ DOMAIN dotenv' = DOMAIN dotenv /\ dotenv'.sealed = dialog.key /\ dotenv'.address = dialog.key
        /\ dotenv'.account = dialog.account /\ dotenv'.funder = dialog.funder /\ dotenv'.markets = "auto"
        /\ dotenv'.cap = dialog.cap /\ dotenv'.loss = loss
    BY <1>2, <2>1, <2>3
  <2>5. Settled(dotenv')
    BY <1>1, <2>2, <2>4 DEF Settled, Lists
  <2>6. Bearing(dialog') /\ keystore' = keystore
    BY <1>8, <1>13 DEF OnboardWrites
  <2> QED BY <1>1, <1>3, <2>5, <2>6
<1>14. CASE OnboardDemo \/ \E migrated, database, rpc \in BOOLEAN : OnboardChecks(migrated, database, rpc)
  <2>1. Bearing(dialog') /\ UNCHANGED <<dotenv, keystore>>
    BY <1>8, <1>14, NoSetupBears DEF OnboardDemo, OnboardChecks, Ends
  <2> QED BY <1>1, <1>3, <2>1
<1>15. ASSUME NEW markets \in Lists, SetupMarkets(markets) PROVE EnvIsSettled'
  <2>1. Bearing([dialog EXCEPT !.markets = markets])
    BY <1>1, AnswerBears
  <2>2. Bearing(dialog') /\ UNCHANGED <<dotenv, keystore>>
    BY <1>7, <1>15, <2>1 DEF SetupMarkets
  <2> QED BY <1>1, <1>3, <2>2
<1>16. ASSUME NEW key \in WalletKeys, SetupWallet(key) PROVE EnvIsSettled'
  <2>1. dotenv' = [dotenv EXCEPT !.sealed = key, !.address = key] /\ keystore' = key /\ Bearing(dialog')
    BY <1>8, <1>16 DEF SetupWallet, WritesEnv
  <2>2. Settled(dotenv')
    BY <1>1, <1>2, <2>1 DEF Settled
  <2> QED BY <1>3, <2>1, <2>2
<1>17. ASSUME NEW entered, SetupCreds(entered) PROVE EnvIsSettled'
  <2>1. (dotenv' = [dotenv EXCEPT !.creds = TRUE] \/ dotenv' = dotenv) /\ keystore' = keystore /\ Bearing(dialog')
    BY <1>8, <1>17 DEF SetupCreds, WritesEnv
  <2>2. Settled(dotenv')
    BY <1>1, <1>2, <2>1 DEF Settled
  <2> QED BY <1>1, <1>3, <2>1, <2>2
<1>18. CASE SetupSaves
  <2>1. dotenv' = Stored(dotenv, dialog) /\ keystore' = keystore /\ dialog' = NoSetup
    BY <1>18 DEF SetupSaves
  <2>2. PICK cap \in Nat : cap = Bounded(dialog.cap, StandardCap)
    BY <1>1, BoundedIs DEF Bearing
  <2>3. PICK loss \in Nat : loss = LossCapOf(cap, dialog.bps)
    BY <1>1, LossCapOfIs DEF Bearing
  <2>4. PICK markets \in Lists : markets = IF dialog.markets = None THEN dotenv.markets ELSE dialog.markets
    BY <1>1 DEF Bearing, Settled
  <2>5. dotenv' = [dotenv EXCEPT !.cap = cap, !.loss = loss, !.markets = markets]
    BY <2>1, <2>2, <2>3, <2>4 DEF Stored
  <2>6. Settled(dotenv')
    BY <1>1, <1>2, <2>5 DEF Settled
  <2> QED BY <1>1, <1>3, <2>1, <2>6, NoSetupBears
<1>19. CASE SetKey
  <2>1. dotenv' = [dotenv EXCEPT !.provider = TRUE] /\ UNCHANGED <<keystore, dialog>>
    BY <1>19 DEF SetKey
  <2>2. Settled(dotenv')
    BY <1>1, <1>2, <2>1 DEF Settled
  <2> QED BY <1>1, <1>3, <2>1, <2>2
<1>20. {None, "auto"} \cup {Browsed(f, n) : f, n \in BOOLEAN} \subseteq Lists
  BY DEF Browsed, Lists
<1>21. CASE SetupNext
  BY <1>5, <1>6, <1>9, <1>10, <1>11, <1>12, <1>13, <1>14, <1>15, <1>16, <1>17, <1>18, <1>19, <1>20, <1>21 DEF SetupNext
<1> QED BY <1>4, <1>21

LEMMA SetupTyped == ASSUME EnvIsSettled PROVE SetupTypeOK
BY DEF EnvIsSettled, Settled, Lists, SetupTypeOK


\* OwnerStream: what is noted keeps to the quota even where it is old; a window holds
\* no more trades than steps.
QuotaNoted == Total(sentAt, MaxClock) <= PerMinuteCap
WindowCounts ==
    /\ DOMAIN window = {"evaluated", "trades", "scanned"} /\ DOMAIN done = {"steps", "trades", "passes", "scanned"}
    /\ window.trades \in Nat /\ window.evaluated \in Nat /\ done.steps \in Nat
    /\ window.trades <= window.evaluated /\ window.evaluated <= done.steps

LEMMA EmitKeepsQuota == ASSUME NotesAreTrue, Emit PROVE QuotaNoted'
<1>1. PICK recent : recent = Recent(sentAt)
  OBVIOUS
<1>2. /\ recent \in [Clock -> Nat] /\ Total(recent, MaxClock) \in Nat /\ Total(recent, MaxClock) <= PerMinuteCap
      /\ MaxClock \in Nat /\ PerMinuteCap \in Nat /\ clock \in 1..MaxClock
  BY <1>1, RecentIs DEF NotesAreTrue, Clock
<1>3. CASE sentAt' = recent
  <2>1. Total(sentAt', MaxClock) <= PerMinuteCap
    BY <1>2, <1>3
  <2> QED BY <2>1 DEF QuotaNoted
<1>4. CASE sentAt' = [recent EXCEPT ![clock] = @ + 1] /\ ~(Total(recent, MaxClock) >= PerMinuteCap)
  <2>1. PICK now : now = sentAt'
    OBVIOUS
  <2>2. \A t \in 1..MaxClock : /\ recent[t] \in Int /\ now[t] \in Int
                              /\ now[t] <= recent[t] + (IF t = clock THEN 1 ELSE 0)
    BY <1>2, <1>4, <2>1 DEF Clock
  <2>3. Total(now, MaxClock) <= Total(recent, MaxClock) + 1
    <3>1. 1 \in Int
      OBVIOUS
    <3> QED BY <1>2, <2>2, <3>1, TotalGrowsAtOne, Zenon
  <2>4. Total(now, MaxClock) \in Int
    BY <1>2, <2>2, TotalType
  <2>5. Total(now, MaxClock) <= PerMinuteCap
    BY <1>2, <1>4, <2>3, <2>4
  <2> QED BY <2>1, <2>5 DEF QuotaNoted
<1>5. sentAt' = recent \/ (sentAt' = [recent EXCEPT ![clock] = @ + 1] /\ ~(Total(recent, MaxClock) >= PerMinuteCap))
  BY <1>1, <1>2 DEF Emit, Started
<1> QED BY <1>3, <1>4, <1>5

LEMMA WindowStays == ASSUME WindowCounts, [StreamNext]_streamVars PROVE WindowCounts'
<1>1. CASE UNCHANGED <<window, done>>
  BY <1>1 DEF WindowCounts
<1>2. ASSUME NEW traded \in BOOLEAN, StepCompletes(traded) PROVE WindowCounts'
  <2>1. PICK n \in {0, 1} : n = IF traded THEN 1 ELSE 0
    OBVIOUS
  <2>2. /\ done' = [done EXCEPT !.steps = @ + 1, !.trades = @ + n]
        /\ window' = [window EXCEPT !.evaluated = @ + 1, !.trades = @ + n]
    BY <1>2, <2>1 DEF StepCompletes
  <2> QED BY <2>2 DEF WindowCounts
<1>3. CASE PassReported(1)
  <2>1. /\ window' = [window EXCEPT !.scanned = @ + 1]
        /\ done' = [done EXCEPT !.passes = @ + 1, !.scanned = @ + 1]
    BY <1>3 DEF PassReported
  <2> QED BY <2>1 DEF WindowCounts
<1>4. CASE DigestGoes
  <2>1. done' = done /\ window' = NoWindow
    BY <1>4 DEF DigestGoes
  <2> QED BY <2>1 DEF WindowCounts, NoWindow
<1> QED BY <1>1, <1>2, <1>3, <1>4 DEF StreamNext, streamVars, TelegramAnswers, AlertGoes, TimePasses, GateShown

LEMMA QuotaStays == ASSUME StreamInv, QuotaNoted, [StreamNext]_streamVars PROVE QuotaNoted'
<1>1. CASE UNCHANGED sentAt
  BY <1>1 DEF QuotaNoted
<1>2. CASE Emit
  BY <1>2, EmitKeepsQuota DEF StreamInv
<1> QED BY <1>1, <1>2 DEF StreamNext, streamVars, TelegramAnswers, AlertGoes, DigestGoes, PassReported, StepCompletes, TimePasses, GateShown

LEMMA StreamTyped == ASSUME StreamInv, QuotaNoted, WindowCounts PROVE StreamTypeOK
BY DEF StreamInv, NotesAreTrue, QuotaNoted, WindowCounts, StreamTypeOK

\* WalletSetup: the setup is in one of its states, its attempts are counted.
SetupIsCounted ==
    /\ life \in LifeStates /\ found \in {"EXISTING", "ABSENT"}
    /\ DOMAIN operation = {"nonce", "status", "attempts"} /\ operation.attempts \in 0..MaxAttempts

LEMMA CountedSetupStays == ASSUME SetupIsCounted, [WalletNext]_walletVars PROVE SetupIsCounted'
<1>1. CASE UNCHANGED <<life, found, operation>>
  BY <1>1 DEF SetupIsCounted
<1>2. CASE LifecycleExits \/ DiscoversWallet \/ Authorizes \/ ApprovalsVerified \/ ApprovalsSubmitted
  <2>1. life' \in LifeStates /\ found' \in {"EXISTING", "ABSENT"} /\ operation' = operation
    BY <1>2 DEF LifecycleExits, DiscoversWallet, Authorizes, ApprovalsVerified, ApprovalsSubmitted, SetupIsCounted, LifeStates
  <2> QED BY <2>1 DEF SetupIsCounted
<1>3. CASE NetworkFails \/ DeploymentConfirmed
  <2>1. /\ life' \in LifeStates /\ found' = found
        /\ operation' = operation \/ \E status : operation' = [operation EXCEPT !.status = status]
    BY <1>3 DEF NetworkFails, DeploymentConfirmed, TimedOut, LifeStates
  <2> QED BY <2>1 DEF SetupIsCounted
<1>4. CASE Creates
  <2>1. life' \in LifeStates /\ found' = found
    BY <1>4 DEF Creates, LifeStates
  <2>2. CASE operation' = operation
    BY <2>1, <2>2 DEF SetupIsCounted
  <2>3. CASE operation.attempts < MaxAttempts /\ operation' = Submit(operation)
    <3>1. DOMAIN operation' = {"nonce", "status", "attempts"} /\ operation'.attempts = operation.attempts + 1
      BY <2>3 DEF Submit
    <3>2. operation'.attempts \in 0..MaxAttempts
      BY <2>3, <3>1, AttemptsAssumption DEF SetupIsCounted
    <3> QED BY <2>1, <3>1, <3>2 DEF SetupIsCounted
  <2> QED BY <1>4, <2>2, <2>3 DEF Creates
<1> QED BY <1>1, <1>2, <1>3, <1>4 DEF WalletNext, walletVars, RequestIsRepeated, RelayerReceives, RequestIsLost, OwnerApproves

LEMMA WalletTyped == ASSUME WalletInv, SetupIsCounted PROVE WalletTypeOK
BY DEF WalletInv, SetupIsCounted, WalletTypeOK

\* Terminal: the states of the readline and of the log, and the digits in the buffer.
SessionIs ==
    /\ readline \in {"none", "open", "closed"} /\ follower \in {"none", "interval", "child"}
    /\ menu.buffer <= Joined(MaxBuffer, 9)

LEMMA SessionStays == ASSUME TerminalInv, SessionIs, [TerminalNext]_terminalVars PROVE SessionIs'
<1>1. MaxBuffer \in Nat /\ DOMAIN menu = {"cursor", "buffer"} /\ menu.buffer \in Nat /\ NoMenu.buffer = 0
  BY TerminalAssumption DEF TerminalInv, MenuFollowsKeys, NoMenu
<1>2. 0 <= Joined(MaxBuffer, 9)
  BY <1>1 DEF Joined
<1>3. ASSUME readline' \in {readline, "none", "open", "closed"}, follower' \in {follower, "none", "interval", "child"},
             menu'.buffer \in {0, menu.buffer}
      PROVE  SessionIs'
  BY <1>2, <1>3 DEF SessionIs, Joined
<1>4. CASE UNCHANGED terminalVars
  BY <1>3, <1>4 DEF terminalVars
<1>5. ASSUME NEW place, NEW muted, QuestionAsked(place, muted) PROVE readline' = "open"
  BY <1>5 DEF QuestionAsked
<1>6. CASE PromptShown \/ LineLost \/ Interrupted \/ InputEnds \/ FollowAnswered \/ MenuCancelled
           \/ ConsoleLeft \/ CommandReturns \/ RunRefused \/ AgentStops
           \/ \E b \in BOOLEAN : PromptAnswered(b) \/ NumberAnswered(b)
  <2>1. readline' \in {readline, "none", "open", "closed"} /\ follower' \in {follower, "none"} /\ menu' \in {menu, NoMenu}
    BY <1>5, <1>6 DEF PromptShown, LineLost, Interrupted, InputEnds, FollowAnswered, MenuCancelled, ConsoleLeft, CommandReturns,
       RunRefused, AgentStops, PromptAnswered, NumberAnswered, Returns, Quits, SessionCloses
  <2> QED BY <1>1, <1>3, <2>1
<1>7. CASE \/ \E b \in BOOLEAN : SetupReturns(b) \/ AgentStarted(b) \/ AgentsKilled(b)
           \/ \E by \in {"interval", "child"} : LogsFollowed(by)
  <2>1. readline' \in {readline, "none", "open", "closed"} /\ follower' \in {follower, "interval", "child"} /\ menu' = menu
    BY <1>5, <1>7 DEF SetupReturns, AgentStarted, AgentsKilled, LogsFollowed, SessionCloses
  <2> QED BY <1>3, <2>1
<1>8. ASSUME NEW b, ChoiceAsked(b) PROVE SessionIs'
  <2>1. readline' \in {readline, "open"}
    BY <1>5, <1>8 DEF ChoiceAsked
  <2>2. follower' = follower /\ menu' \in {menu, [cursor |-> 1, buffer |-> 0]}
    BY <1>8 DEF ChoiceAsked
  <2>3. menu'.buffer \in {0, menu.buffer}
    BY <2>2
  <2> QED BY <1>3, <2>1, <2>2, <2>3
<1>9. CASE OptionPicked \/ DigitsPause \/ \E at \in {-1, 1} : ArrowPressed(at)
  <2>1. UNCHANGED <<readline, follower>> /\ menu'.buffer \in {0, menu.buffer}
    BY <1>1, <1>9 DEF OptionPicked, MenuDone, DigitsPause, BufferEmptied, ArrowPressed
  <2> QED BY <1>3, <2>1
<1>10. ASSUME NEW d \in MenuDigits, DigitPressed(d) PROVE SessionIs'
  <2>1. d \in 0..9 /\ menu.buffer < MaxBuffer /\ UNCHANGED <<readline, follower>>
    BY <1>10, TerminalAssumption DEF DigitPressed
  <2>2. menu'.buffer \in {menu.buffer, Joined(menu.buffer, d)}
    BY <1>1, <1>10 DEF DigitPressed
  <2>3. Joined(menu.buffer, d) <= Joined(MaxBuffer, 9) /\ menu.buffer <= Joined(MaxBuffer, 9)
    BY <1>1, <2>1 DEF Joined
  <2> QED BY <2>1, <2>2, <2>3 DEF SessionIs, Joined
<1>11. CASE TerminalNext
  BY <1>6, <1>7, <1>8, <1>9, <1>10, <1>11 DEF TerminalNext
<1> QED BY <1>4, <1>11

LEMMA TerminalTyped == ASSUME TerminalInv, SessionIs PROVE TerminalTypeOK
<1>1. menu.cursor \in 0..Options
  BY TerminalAssumption DEF TerminalInv, MenuFollowsKeys, NoMenu
<1> QED BY <1>1 DEF SessionIs, TerminalTypeOK


\* Telegram: what goes unheard was said, and the minute, the chat and the rows of the
\* pairing table keep within their bounds.
PairingRows == [user : TgUsers, status : {"pending", "approved", "revoked"}, live : BOOLEAN]
HitsAreCounted == DOMAIN session.hits = TgUsers /\ \A u \in TgUsers : session.hits[u] \in 0..PerMinute
ChatIsBounded == Len(chat) <= MaxSayings /\ unheard \subseteq 1..Len(chat)

LEMMA ChatStays == ASSUME TelegramInv, ChatIsBounded, [TelegramNext]_telegramVars PROVE ChatIsBounded'
<1>1. /\ chat \in Seq([user : TgUsers, kind : Words]) /\ Len(chat) \in Nat /\ bot.at \in 0..Len(chat)
      /\ bot.batch \in Seq(Nat) /\ \A k \in 1..Len(bot.batch) : bot.batch[k] \in 1..Len(chat)
  BY DEF TelegramInv, TelegramShape
<1>2. CASE UNCHANGED <<chat, unheard>>
  BY <1>2 DEF ChatIsBounded
<1>3. ASSUME NEW u, NEW kind, <<u, kind>> \in Sayings, UserSays(u, kind) PROVE ChatIsBounded'
  <2>1. [user |-> u, kind |-> kind] \in [user : TgUsers, kind : Words]
    BY <1>3, TelegramAssumption DEF Words
  <2>2. Len(chat') = Len(chat) + 1 /\ Len(chat) < MaxSayings /\ unheard' = unheard
    BY <1>1, <1>3, <2>1 DEF UserSays
  <2>3. MaxSayings \in Nat
    BY TelegramAssumption
  <2> QED BY <1>1, <2>2, <2>3 DEF ChatIsBounded
<1>4. CASE Takes
  <2>1. Head(bot.batch) \in 1..Len(chat)
    <3>1. bot.batch # << >>
      BY <1>4 DEF Takes
    <3>2. Len(bot.batch) >= 1 /\ Head(bot.batch) = bot.batch[1] /\ Len(bot.batch) \in Nat
      BY <1>1, <3>1
    <3> QED BY <1>1, <3>2
  <2>2. chat' = chat /\ unheard' \subseteq unheard \cup {Head(bot.batch)}
    BY <1>4 DEF Takes
  <2> QED BY <2>1, <2>2 DEF ChatIsBounded
<1>5. CASE RoutesYes
  <2>1. bot.at # 0 /\ chat' = chat /\ unheard' \subseteq unheard \cup {bot.at}
    BY <1>5 DEF RoutesYes
  <2> QED BY <1>1, <2>1 DEF ChatIsBounded
<1>6. ASSUME NEW s \in Sayings, UserSays(s[1], s[2]) PROVE ChatIsBounded'
  <2>1. s = <<s[1], s[2]>>
    BY TelegramAssumption
  <2> QED BY <1>3, <1>6, <2>1
<1> QED BY <1>2, <1>4, <1>5, <1>6 DEF TelegramNext, telegramVars, Fetches, RoutesOther, MinutePasses, ConfirmExpires, BotDies,
           CodeExpires, Approves, AllowsDirectly, Revokes, OperatorGoesOn

LEMMA HitsStay == ASSUME TelegramInv, HitsAreCounted, [TelegramNext]_telegramVars PROVE HitsAreCounted'
<1>1. /\ DOMAIN session = {"pending", "hits"} /\ chat \in Seq([user : TgUsers, kind : Words]) /\ Len(chat) \in Nat
      /\ bot.batch \in Seq(Nat) /\ \A k \in 1..Len(bot.batch) : bot.batch[k] \in 1..Len(chat)
  BY DEF TelegramInv, TelegramShape
<1>2. CASE session'.hits = session.hits
  BY <1>2 DEF HitsAreCounted
<1>3. CASE session'.hits = FreshSession.hits
  BY <1>3, TelegramAssumption DEF HitsAreCounted, FreshSession
<1>4. CASE Takes
  <2>1. PICK id : id = Head(bot.batch)
    OBVIOUS
  <2>2. CASE session' = session
    BY <1>2, <2>2
  <2>3. CASE session.hits[chat[id].user] < PerMinute /\ session' = [session EXCEPT !.hits[chat[id].user] = @ + 1]
    <3>1. PICK u : u = chat[id].user
      OBVIOUS
    <3>2. session'.hits = [session.hits EXCEPT ![u] = @ + 1] /\ session.hits[u] < PerMinute
      BY <1>1, <2>3, <3>1
    <3>3. PerMinute \in Nat
      BY TelegramAssumption
    <3> QED BY <3>2, <3>3 DEF HitsAreCounted
  <2> QED BY <1>4, <2>1, <2>2, <2>3 DEF Takes
<1>5. CASE RoutesYes \/ RoutesOther \/ \E u \in TgUsers : ConfirmExpires(u)
  <2>1. session'.hits = session.hits
    BY <1>1, <1>5 DEF RoutesYes, RoutesOther, ConfirmExpires, TakeConfirm
  <2> QED BY <1>2, <2>1
<1>6. CASE MinutePasses
  BY <1>1, <1>3, <1>6 DEF MinutePasses
<1>7. CASE BotDies
  BY <1>3, <1>7 DEF BotDies
<1> QED BY <1>2, <1>4, <1>5, <1>6, <1>7 DEF TelegramNext, telegramVars, UserSays, Fetches, CodeExpires, Approves, AllowsDirectly, Revokes, OperatorGoesOn

LEMMA RowsOfPairingStay == ASSUME TelegramInv, pairing \in Seq(PairingRows), [TelegramNext]_telegramVars PROVE pairing' \in Seq(PairingRows)
<1>1. chat \in Seq([user : TgUsers, kind : Words]) /\ bot.at \in 0..Len(chat) /\ Len(chat) \in Nat
  BY DEF TelegramInv, TelegramShape
<1>2. CASE pairing' = pairing
  BY <1>2
<1>3. CASE RoutesOther
  <2>1. PICK u : u = chat[bot.at].user
    OBVIOUS
  <2>2. u \in TgUsers
    <3>1. bot.at \in 1..Len(chat)
      BY <1>1, <1>3 DEF RoutesOther
    <3>2. chat[bot.at] \in [user : TgUsers, kind : Words]
      BY <1>1, <3>1, ElementOfSeq
    <3> QED BY <2>1, <3>2
  <2> DEFINE row == [user |-> u, status |-> "pending", live |-> TRUE]
  <2>3. row \in PairingRows
    BY <2>2 DEF PairingRows
  <2>4. pairing' \in {pairing, Append(pairing, row)}
    BY <1>3, <2>1 DEF RoutesOther, Challenge
  <2> HIDE DEF row
  <2> QED BY <2>3, <2>4, AppendProperties
<1>4. ASSUME NEW i \in DOMAIN pairing, CodeExpires(i) \/ Approves(i) PROVE pairing' \in Seq(PairingRows)
  <2>1. i \in 1..Len(pairing) /\ pairing[i] \in PairingRows
    BY ElementOfSeq
  <2>2. PICK row \in PairingRows : pairing' = [pairing EXCEPT ![i] = row]
    <3>1. [pairing[i] EXCEPT !.live = FALSE] \in PairingRows /\ [pairing[i] EXCEPT !.status = "approved"] \in PairingRows
      BY <2>1 DEF PairingRows
    <3>2. pairing' \in {[pairing EXCEPT ![i] = [pairing[i] EXCEPT !.live = FALSE]], [pairing EXCEPT ![i] = [pairing[i] EXCEPT !.status = "approved"]]}
      BY <1>4 DEF CodeExpires, Approves
    <3> QED BY <3>1, <3>2
  <2> QED BY <2>1, <2>2, ExceptSeq
<1>5. CASE OperatorGoesOn
  <2>1. DOMAIN pairing = 1..Len(pairing) /\ Len(pairing) \in Nat
    BY LenProperties
  <2>2. pairing' = [i \in 1..Len(pairing) |-> IF operator.does = "revokes" /\ pairing[i].user = operator.user
                     THEN [pairing[i] EXCEPT !.status = "revoked"] ELSE pairing[i]]
    BY <1>5, <2>1 DEF OperatorGoesOn
  <2>3. ASSUME NEW i \in 1..Len(pairing) PROVE pairing[i] \in PairingRows /\ [pairing[i] EXCEPT !.status = "revoked"] \in PairingRows
    <3>1. pairing[i] \in PairingRows
      BY <2>3, ElementOfSeq
    <3> QED BY <3>1 DEF PairingRows
  <2>4. pairing' \in [1..Len(pairing) -> PairingRows]
    BY <2>2, <2>3
  <2> QED BY <2>1, <2>4
<1> QED BY <1>2, <1>3, <1>4, <1>5 DEF TelegramNext, telegramVars, UserSays, Fetches, Takes, RoutesYes, MinutePasses, ConfirmExpires,
           BotDies, AllowsDirectly, Revokes

LEMMA TelegramTyped == ASSUME TelegramInv, ChatIsBounded, HitsAreCounted, pairing \in Seq(PairingRows) PROVE TelegramTypeOK
<1>1. /\ chat \in Seq([user : TgUsers, kind : Words]) /\ Len(chat) \in Nat /\ DOMAIN chat = 1..Len(chat)
      /\ confirmed \in 0..Len(chat) /\ bot.offset \in 1..Len(chat) + 1 /\ bot.at \in 0..Len(chat)
      /\ \A u \in TgUsers : session.pending[u].asked \in 0..Len(chat)
  BY DEF TelegramInv, TelegramShape
<1>2. PICK ahead : ahead = PageSize * MaxSayings
  OBVIOUS
<1>3. ahead \in Nat /\ MaxSayings <= ahead /\ MaxSayings \in Nat
  <2>1. PageSize \in Nat \ {0} /\ MaxSayings \in Nat
    BY TelegramAssumption
  <2>2. \A a \in Nat, b \in Nat \ {0} : b * a \in Nat /\ a <= b * a
    OBVIOUS
  <2> QED BY <1>2, <2>1, <2>2
<1>4. confirmed < bot.offset + ahead
  BY <1>1, <1>3 DEF TelegramInv, PollsInOrder, ChatIsBounded
<1>5. \A i \in DOMAIN pairing : pairing[i].status \in {"pending", "approved", "revoked"}
  <2>1. ASSUME NEW i \in DOMAIN pairing PROVE pairing[i] \in PairingRows
    <3>1. i \in 1..Len(pairing)
      BY LenProperties
    <3> QED BY <3>1, ElementOfSeq
  <2> QED BY <2>1 DEF PairingRows
<1> QED BY <1>1, <1>2, <1>4, <1>5 DEF ChatIsBounded, HitsAreCounted, TelegramTypeOK


Messages ==
    [kind : {"snapshot"}, levels : SUBSET (Levels \cup {BaseLevel})]
    \cup [kind : {"delta"}, level : Levels, gone : BOOLEAN]
    \cup [kind : {"market"}, rule : Rules]

SocketIs == socket \in {"null", "connecting", "open", "closed"} /\ closing \in 0..MaxPending

FlagRows == [connecting : BOOLEAN, connected : BOOLEAN, timer : BOOLEAN, attempts : 0..MaxReconnectAttempts]

LevelsAre == lob \subseteq Levels \cup {BaseLevel} /\ BaseLevel \in lob

BookIs ==
    /\ DOMAIN book = {"ready", "levels"} /\ book.ready \in BOOLEAN
    /\ book.levels # {} => book.ready

\* The feed as it is at any time: a socket with its flags, known messages under
\* way, and a book that shows levels only once it has had a snapshot.
FeedIs ==
    /\ SocketIs /\ flags \in FlagRows /\ LevelsAre
    /\ wire \in Seq(Messages) /\ BookIs

LEMMA ClosedIsFlags == ASSUME NEW f \in FlagRows PROVE Closed(f) \in FlagRows
<1>1. CASE f.timer \/ f.attempts >= MaxReconnectAttempts
  BY <1>1 DEF Closed, FlagRows
<1>2. CASE ~(f.timer \/ f.attempts >= MaxReconnectAttempts)
  <2>1. f.attempts + 1 \in 0..MaxReconnectAttempts
    BY <1>2, FeedAssumption DEF FlagRows
  <2> QED BY <1>2, <2>1 DEF Closed, FlagRows
<1> QED BY <1>1, <1>2

LEMMA NothingUnderWay == << >> \in Seq(Messages)
BY DEF Messages

LEMMA SentIsMessages ==
  ASSUME wire \in Seq(Messages), NEW message \in Messages
  PROVE  Sent(message) \in Seq(Messages)
BY DEF Sent

LEMMA ConnectionIs ==
  ASSUME FeedIs, UNCHANGED <<lob, book>>, SocketIs', flags' \in FlagRows,
         wire' = << >> \/ wire' = wire
  PROVE  FeedIs'
<1>1. wire' \in Seq(Messages)
  BY NothingUnderWay, Zenon DEF FeedIs
<1>2. LevelsAre' /\ BookIs'
  BY DEF FeedIs, LevelsAre, BookIs
<1> QED BY <1>1, <1>2 DEF FeedIs

LEMMA ClosingIs ==
  ASSUME SocketIs, NEW left \in {"null", "closed"}, ClosesSocket(left)
  PROVE  SocketIs'
BY FeedAssumption DEF SocketIs, ClosesSocket

LEMMA FeedStays == ASSUME FeedIs, [FeedNext]_feedVars PROVE FeedIs'
<1> USE FeedAssumption
<1>0. SocketIs /\ flags \in FlagRows /\ LevelsAre /\ wire \in Seq(Messages) /\ BookIs
  BY DEF FeedIs
<1>1. CASE FeedStarts
  <2>1. SocketIs' /\ flags' \in FlagRows
    BY <1>0, <1>1 DEF FeedStarts, Connects, SocketIs, FlagRows
  <2>2. wire' = << >> /\ UNCHANGED <<lob, book>>
    BY <1>1 DEF FeedStarts, Connects
  <2> QED BY <2>1, <2>2, ConnectionIs
<1>2. CASE Opens
  <2>1. socket' = "open" /\ closing' = closing /\ flags' = [flags EXCEPT !.connected = TRUE, !.attempts = 0]
    BY <1>2 DEF Opens
  <2>2. 0 \in 0..MaxReconnectAttempts
    BY FeedAssumption
  <2>3. flags' \in FlagRows
    BY <1>0, <2>1, <2>2 DEF FlagRows
  <2>4. SocketIs'
    BY <1>0, <2>1 DEF SocketIs
  <2>5. SocketIs' /\ flags' \in FlagRows
    BY <2>3, <2>4
  <2>6. [kind |-> "snapshot", levels |-> lob] \in Messages
    BY <1>0 DEF Messages, LevelsAre
  <2>7. wire' \in Seq(Messages)
    BY <1>2, <2>6 DEF Opens
  <2>8. LevelsAre' /\ BookIs'
    BY <1>0, <1>2 DEF Opens, LevelsAre, BookIs
  <2> QED BY <2>5, <2>7, <2>8 DEF FeedIs
<1>3. CASE SocketDrops
  <2>1. SocketIs' /\ flags' \in FlagRows
    BY <1>0, <1>3, ClosedIsFlags DEF SocketDrops, SocketIs
  <2> QED BY <1>3, <2>1, ConnectionIs DEF SocketDrops
<1>4. CASE CloseEventArrives
  <2>1. SocketIs' /\ flags' \in FlagRows
    BY <1>0, <1>4, ClosedIsFlags DEF CloseEventArrives, SocketIs
  <2> QED BY <1>4, <2>1, ConnectionIs DEF CloseEventArrives
<1>5. CASE ReconnectFires
  <2>1. flags' \in FlagRows
    BY <1>0, <1>5 DEF ReconnectFires, FlagRows
  <2>2. SocketIs'
    BY <1>0, <1>5 DEF ReconnectFires, Connects, SocketIs
  <2>3. wire' = << >> \/ wire' = wire
    BY <1>5 DEF ReconnectFires, Connects
  <2> QED BY <1>5, <2>1, <2>2, <2>3, ConnectionIs DEF ReconnectFires
<1>6. CASE FeedStops
  <2>1. ClosesSocket("null") /\ UNCHANGED <<lob, book>>
    BY <1>6 DEF FeedStops
  <2>2. SocketIs' /\ wire' = << >>
    BY <1>0, <2>1, ClosingIs DEF ClosesSocket
  <2>3. flags' \in FlagRows
    BY <1>0, <1>6 DEF FeedStops, FlagRows
  <2> QED BY <2>1, <2>2, <2>3, ConnectionIs
<1>7. ASSUME NEW from, TimeoutFires(from) PROVE FeedIs'
  <2>1. UNCHANGED <<lob, book>>
    BY <1>7 DEF TimeoutFires
  <2>2. CASE flags.connected
    BY <1>0, <1>7, <2>2, ConnectionIs DEF TimeoutFires, SocketIs
  <2>3. CASE ~flags.connected
    <3>1. PICK left \in {"null", "closed"} : ClosesSocket(left)
      BY <1>7, <2>3 DEF TimeoutFires
    <3>2. SocketIs' /\ wire' = << >>
      BY <1>0, <3>1, ClosingIs DEF ClosesSocket
    <3>3. flags' \in FlagRows
      BY <1>0, <1>7, <2>3 DEF TimeoutFires, FlagRows
    <3> QED BY <2>1, <3>2, <3>3, ConnectionIs
  <2> QED BY <2>2, <2>3
<1>8. ASSUME NEW p \in Levels, VenueBookChanges(p) PROVE FeedIs'
  <2>1. [kind |-> "delta", level |-> p, gone |-> p \in lob] \in Messages
    BY DEF Messages
  <2>2. wire' \in Seq(Messages)
    BY <1>0, <1>8, <2>1, SentIsMessages DEF VenueBookChanges
  <2>3. LevelsAre'
    BY <1>0, <1>8 DEF VenueBookChanges, LevelsAre
  <2>4. SocketIs' /\ flags' \in FlagRows /\ BookIs'
    BY <1>0, <1>8 DEF VenueBookChanges, SocketIs, BookIs
  <2> QED BY <2>2, <2>3, <2>4 DEF FeedIs
<1>9. ASSUME NEW v \in Rules, VenueRuleChanges(v) PROVE FeedIs'
  <2>1. [kind |-> "market", rule |-> v] \in Messages
    BY DEF Messages
  <2>2. wire' \in Seq(Messages)
    BY <1>0, <1>9, <2>1 DEF VenueRuleChanges
  <2>3. SocketIs' /\ flags' \in FlagRows /\ BookIs' /\ LevelsAre'
    BY <1>0, <1>9 DEF VenueRuleChanges, SocketIs, BookIs, LevelsAre
  <2> QED BY <2>2, <2>3 DEF FeedIs
<1>10. CASE MessageArrives
  <2>1. wire # << >> /\ wire' = Tail(wire)
    BY <1>10 DEF MessageArrives
  <2>2. wire' \in Seq(Messages) /\ Head(wire) \in Messages
    BY <1>0, <2>1
  <2>3. SocketIs' /\ flags' \in FlagRows /\ LevelsAre'
    BY <1>0, <1>10 DEF MessageArrives, SocketIs, LevelsAre
  <2>4. ASSUME NEW message \in Messages, message.kind # "market",
               book' = ApplyFrame(book, message)
        PROVE  BookIs'
    <3>1. CASE message.kind = "snapshot"
      BY <2>4, <3>1 DEF ApplyFrame, BookIs
    <3>2. CASE message.kind = "delta" /\ ~book.ready
      BY <1>0, <2>4, <3>2 DEF ApplyFrame, BookIs
    <3>3. CASE message.kind = "delta" /\ book.ready
      BY <1>0, <2>4, <3>3 DEF ApplyFrame, BookIs
    <3> QED BY <2>4, <3>1, <3>2, <3>3 DEF Messages
  <2>5. CASE Head(wire).kind = "market"
    <3>1. book' = book
      BY <1>10, <2>5 DEF MessageArrives
    <3> QED BY <1>0, <2>2, <2>3, <3>1 DEF FeedIs, BookIs
  <2>6. CASE Head(wire).kind # "market"
    <3>1. book' = ApplyFrame(book, Head(wire))
      BY <1>10, <2>6 DEF MessageArrives
    <3>2. BookIs'
      BY <2>2, <2>4, <2>6, <3>1
    <3> QED BY <2>2, <2>3, <3>2 DEF FeedIs
  <2> QED BY <2>5, <2>6
<1>11. CASE UNCHANGED feedVars
  BY <1>0, <1>11 DEF feedVars, FeedIs, SocketIs, LevelsAre, BookIs
<1> QED BY <1>1, <1>2, <1>3, <1>4, <1>5, <1>6, <1>7, <1>8, <1>9, <1>10, <1>11 DEF FeedNext

LEMMA FeedTyped == ASSUME FeedIs PROVE FeedTypeOK
BY DEF FeedIs, FeedTypeOK, SocketIs, FlagRows, LevelsAre, BookIs


\* How each of those invariants begins.
LEMMA RowsStart == ASSUME LedgerInit PROVE RowsAreThere
BY DEF LedgerInit, RowsAreThere

LEMMA ControlStarts == ASSUME ControlInit PROVE ControlInv /\ ClosedHasVerdict
<1>1. ControlInv
  BY DEF ControlInit, ControlInv, ControlShape, RowShape, WrittenFits, InHand, CarriedFits, Fits, Told, Unwritten,
         Waiting, Working, RowStates, Final, VenueStates, OnVenue, SweepPlaces
<1>2. \A i \in Intents : recoveryRows[i] = Unwritten
  BY DEF ControlInit
<1>3. faults \in 0..MaxFaults /\ held = {}
  BY ControlAssumption DEF ControlInit
<1> QED BY <1>1, <1>2, <1>3 DEF ClosedHasVerdict, Unwritten

LEMMA ProcessesStart == ASSUME StartUpInit PROVE PortHeld /\ OffHoldsNothing
<1>1. PortHeld
  BY DEF StartUpInit, PortHeld, Off, Places, At
<1>2. procs = [p \in Procs |-> Off] /\ port = Nobody
  BY DEF StartUpInit
<1>3. \A p \in Procs : port # p
  BY <1>2, StartUpAssumption
<1> QED BY <1>1, <1>2, <1>3 DEF OffHoldsNothing

LEMMA DoubleStarts == ASSUME DoubleInit PROVE DoubleInv /\ CountedWasReported
BY NoRowIsRow DEF DoubleInit, DoubleInv, CountedWasReported

LEMMA StopStarts == ASSUME StopInit PROVE StopInv /\ CatchUpsMissing
<1>2. Cardinality(Sells) \in Nat /\ Cardinality(SellsThat({"canceled"})) \in Nat
  BY HeldCoversSells, SellsAreFinite, FS_CardinalityType
<1>3. verified \in Int /\ sold = 0 /\ verified = Held - Cardinality(Sells) /\ verified >= 0
  BY <1>2, HeldCoversSells DEF StopInit
<1>4. DOMAIN plan = {} /\ plan \in [DOMAIN plan -> Outcomes]
  BY DEF StopInit, NoPlan
<1>5. StopShape
  BY <1>3, <1>4 DEF StopInit, StopShape, KillLevels, Fates
<1>6. NotedIsTrue /\ PlanIsAll /\ SigningStopsFirst
  BY <1>4 DEF StopInit, NotedIsTrue, PlanIsAll, SigningStopsFirst
<1>7. SharesAddUp
  BY <1>2, <1>3, HeldCoversSells DEF SharesAddUp
<1>8. CatchUpsMissing
  BY DEF StopInit, CatchUpsMissing
<1> QED BY <1>5, <1>6, <1>7, <1>8 DEF StopInv

LEMMA AddressesStart == ASSUME WizardInit PROVE AddressesInUse
<1>1. FirstEnv.mode \in Modes /\ FirstEnv.address = Unset /\ NotSaving.key = Unset
  BY DEF FirstEnv, NotSaving, Modes
<1>2. Unset \in InUse(minted)
  BY DEF InUse
<1> QED BY <1>1, <1>2 DEF WizardInit, AddressesInUse

LEMMA FilesStart == ASSUME UpkeepInit PROVE FilesHoldVersions /\ RunsWhatWasBuilt
<1>1. 0 \in Contents /\ Missing \in Contents /\ Missing \in Versions
  BY ContentsAre, UpkeepAssumption DEF Versions
<1>2. \A f \in HomeFiles : FirstHome[f] \in Contents
  BY <1>1 DEF HomeFiles, FirstHome
<1>3. home = FirstHome /\ directory.files = [f \in Files |-> Missing]
  BY DEF UpkeepInit
<1>4. FilesHoldVersions
  BY <1>1, <1>2, <1>3 DEF FilesHoldVersions, Files
<1>5. RunsWhatWasBuilt
  BY DEF UpkeepInit, RunsWhatWasBuilt
<1> QED BY <1>4, <1>5

LEMMA EnvStarts == ASSUME SetupInit PROVE EnvIsSettled
BY NoSetupBears, SettledIs DEF SetupInit, EnvIsSettled

LEMMA QuotaStarts == ASSUME StreamInit PROVE QuotaNoted /\ WindowCounts
<1>1. MaxClock \in Nat /\ PerMinuteCap \in Nat
  BY StreamAssumption
<1>2. \A t \in 1..MaxClock : sentAt[t] = 0
  BY DEF StreamInit, Clock
<1>3. Total(sentAt, MaxClock) = 0
  BY <1>1, <1>2, TotalOfZeros
<1>4. WindowCounts
  BY DEF StreamInit, WindowCounts, NoWindow
<1> QED BY <1>1, <1>3, <1>4 DEF QuotaNoted

LEMMA WalletStarts == ASSUME WalletInit PROVE WalletInv /\ SetupIsCounted
<1>1. WalletInv
  BY WalletBegins
<1>2. SetupIsCounted
  BY AttemptsAssumption DEF WalletInit, SetupIsCounted, NoOperation, LifeStates
<1> QED BY <1>1, <1>2

LEMMA SessionStarts == ASSUME TerminalInit PROVE SessionIs
BY TerminalAssumption DEF TerminalInit, SessionIs, NoMenu, Joined

LEMMA ChatStarts ==
  ASSUME TelegramInit PROVE ChatIsBounded /\ HitsAreCounted /\ pairing \in Seq(PairingRows)
<1>1. chat = << >> /\ unheard = {} /\ pairing = << >> /\ session.hits = [u \in TgUsers |-> 0]
  BY DEF TelegramInit, FreshSession
<1>2. Len(chat) = 0 /\ pairing \in Seq(PairingRows)
  BY <1>1, EmptySeq
<1>3. PerMinute \in Nat /\ MaxSayings \in Nat
  BY TelegramAssumption
<1> QED BY <1>1, <1>2, <1>3 DEF ChatIsBounded, HitsAreCounted

LEMMA FeedIsStarts == ASSUME FeedInit PROVE FeedIs
<1>1. SocketIs /\ flags \in FlagRows
  BY FeedAssumption DEF FeedInit, SocketIs, FlagRows
<1>2. LevelsAre /\ BookIs /\ wire = << >>
  BY DEF FeedInit, LevelsAre, BookIs
<1> QED BY <1>1, <1>2, NothingUnderWay DEF FeedIs

\* The types of each part, from its own invariant.
LEMMA LedgerInPlane == PlaneSpec => []LedgerTypeOK
<1>1. PlaneInit => ReadersInv /\ RowsAreThere
  BY ReadersInvInit, RowsStart DEF PlaneInit
<1>2. ReadersInv /\ RowsAreThere /\ [PlaneNext]_planeVars => (ReadersInv /\ RowsAreThere)'
  BY LedgerSteps, ReadersInvStep, RowsStay
<1>3. ReadersInv /\ RowsAreThere => LedgerTypeOK
  BY LedgerTyped
<1> QED BY <1>1, <1>2, <1>3, PTL DEF PlaneSpec

LEMMA OrderInPlane == PlaneSpec => []OrderTypeOK
<1>1. PlaneInit => OrderInv
  BY OrderInitKept DEF PlaneInit
<1>2. OrderInv /\ [PlaneNext]_planeVars => OrderInv'
  BY OrderSteps, OrderKept
<1>3. OrderInv => OrderTypeOK
  BY OrderTyped
<1> QED BY <1>1, <1>2, <1>3, PTL DEF PlaneSpec

LEMMA ControlInPlane == PlaneSpec => []ControlTypeOK
<1>1. PlaneInit => ControlInv /\ ClosedHasVerdict
  BY ControlStarts DEF PlaneInit
<1>2. ControlInv /\ ClosedHasVerdict /\ [PlaneNext]_planeVars => (ControlInv /\ ClosedHasVerdict)'
  BY ControlSteps, ControlInvStep, ClosedStays
<1>3. ControlInv /\ ClosedHasVerdict => ControlTypeOK
  BY ControlTyped
<1> QED BY <1>1, <1>2, <1>3, PTL DEF PlaneSpec

LEMMA AdmissionInPlane == PlaneSpec => []AdmissionTypeOK
<1>1. PlaneInit => AdmissionInv /\ GrantsKnown
  BY AdmissionInvInit, GrantsStart DEF PlaneInit
<1>2. AdmissionInv /\ GrantsKnown /\ [PlaneNext]_planeVars => (AdmissionInv /\ GrantsKnown)'
  BY AdmissionSteps, AdmissionInvStep, GrantsStay
<1>3. AdmissionInv /\ GrantsKnown => AdmissionTypeOK
  BY AdmissionTyped
<1> QED BY <1>1, <1>2, <1>3, PTL DEF PlaneSpec

LEMMA CalibrationInPlane == PlaneSpec => []CalibrationTypeOK
<1>1. PlaneInit => CalibrationInv /\ ModelsApart
  BY CalibrationStarts, ModelsStart DEF PlaneInit
<1>2. CalibrationInv /\ ModelsApart /\ [PlaneNext]_planeVars => (CalibrationInv /\ ModelsApart)'
  BY CalibrationSteps, CalibrationKeeps, ModelsStay
<1>3. CalibrationInv /\ ModelsApart => CalibrationTypeOK
  BY CalibrationTyped
<1> QED BY <1>1, <1>2, <1>3, PTL DEF PlaneSpec

LEMMA DeskInPlane == PlaneSpec => []DeskTypeOK
<1>1. PlaneInit => DeskInv /\ TokensBounded
  BY DeskStarts, TokensStart DEF PlaneInit
<1>2. DeskInv /\ TokensBounded /\ [PlaneNext]_planeVars => (DeskInv /\ TokensBounded)'
  BY DeskSteps, DeskInvStep, TokensStay
<1>3. DeskInv /\ TokensBounded => DeskTypeOK
  BY DeskTyped
<1> QED BY <1>1, <1>2, <1>3, PTL DEF PlaneSpec

LEMMA PaperInPlane == PlaneSpec => []PaperTypeOK
<1>1. PlaneInit => PaperInv
  BY PaperStarts DEF PlaneInit
<1>2. PaperInv /\ [PlaneNext]_planeVars => PaperInv'
  BY PaperSteps, PaperKeeps
<1>3. PaperInv => PaperTypeOK
  BY PaperTyped
<1> QED BY <1>1, <1>2, <1>3, PTL DEF PlaneSpec

LEMMA SettlementInPlane == PlaneSpec => []SettlementTypeOK
<1>1. PlaneInit => SettlementInv /\ ReceiptsCounted
  BY SettlementStarts, ReceiptsStart DEF PlaneInit
<1>2. SettlementInv /\ ReceiptsCounted /\ [PlaneNext]_planeVars => (SettlementInv /\ ReceiptsCounted)'
  BY SettlementSteps, SettlementInvStep, ReceiptsStay
<1>3. SettlementInv /\ ReceiptsCounted => SettlementTypeOK
  BY SettlementTyped
<1> QED BY <1>1, <1>2, <1>3, PTL DEF PlaneSpec

LEMMA FeedInPlane == PlaneSpec => []FeedTypeOK
<1>1. PlaneInit => FeedIs
  BY FeedIsStarts DEF PlaneInit
<1>2. FeedIs /\ [PlaneNext]_planeVars => FeedIs'
  BY FeedSteps, FeedStays
<1>3. FeedIs => FeedTypeOK
  BY FeedTyped
<1> QED BY <1>1, <1>2, <1>3, PTL DEF PlaneSpec

LEMMA TelegramInPlane == PlaneSpec => []TelegramTypeOK
<1>1. PlaneInit => TelegramInv /\ ChatIsBounded /\ HitsAreCounted /\ pairing \in Seq(PairingRows)
  BY TelegramStarts, ChatStarts DEF PlaneInit
<1>2. TelegramInv /\ ChatIsBounded /\ HitsAreCounted /\ pairing \in Seq(PairingRows) /\ [PlaneNext]_planeVars => (TelegramInv /\ ChatIsBounded /\ HitsAreCounted /\ pairing \in Seq(PairingRows))'
  BY TelegramSteps, TelegramInvStep, ChatStays, HitsStay, RowsOfPairingStay
<1>3. TelegramInv /\ ChatIsBounded /\ HitsAreCounted /\ pairing \in Seq(PairingRows) => TelegramTypeOK
  BY TelegramTyped
<1> QED BY <1>1, <1>2, <1>3, PTL DEF PlaneSpec

LEMMA StartUpInPlane == PlaneSpec => []StartUpTypeOK
<1>1. PlaneInit => PortHeld /\ OffHoldsNothing
  BY ProcessesStart DEF PlaneInit
<1>2. PortHeld /\ OffHoldsNothing /\ [PlaneNext]_planeVars => (PortHeld /\ OffHoldsNothing)'
  BY StartUpSteps, PortHeldStep, OffStays
<1>3. PortHeld /\ OffHoldsNothing => StartUpTypeOK
  BY StartUpTyped
<1> QED BY <1>1, <1>2, <1>3, PTL DEF PlaneSpec

LEMMA WizardInPlane == PlaneSpec => []WizardTypeOK
<1>1. PlaneInit => WizardInv /\ AddressesInUse
  BY WizardStarts, AddressesStart DEF PlaneInit
<1>2. WizardInv /\ AddressesInUse /\ [PlaneNext]_planeVars => (WizardInv /\ AddressesInUse)'
  BY WizardSteps, WizardInvStep, AddressesStay
<1>3. WizardInv /\ AddressesInUse => WizardTypeOK
  BY WizardTyped
<1> QED BY <1>1, <1>2, <1>3, PTL DEF PlaneSpec

LEMMA UpkeepInPlane == PlaneSpec => []UpkeepTypeOK
<1>1. PlaneInit => UpkeepInv /\ FilesHoldVersions /\ RunsWhatWasBuilt
  BY UpkeepInvInit, FilesStart DEF PlaneInit
<1>2. UpkeepInv /\ FilesHoldVersions /\ RunsWhatWasBuilt /\ [PlaneNext]_planeVars => (UpkeepInv /\ FilesHoldVersions /\ RunsWhatWasBuilt)'
  BY UpkeepSteps, UpkeepInvStep, VersionsStay, BuiltStays
<1>3. UpkeepInv /\ FilesHoldVersions /\ RunsWhatWasBuilt => UpkeepTypeOK
  BY UpkeepTyped
<1> QED BY <1>1, <1>2, <1>3, PTL DEF PlaneSpec

LEMMA SetupInPlane == PlaneSpec => []SetupTypeOK
<1>1. PlaneInit => SetupInv /\ EnvIsSettled
  BY SetupStarts, EnvStarts DEF PlaneInit
<1>2. SetupInv /\ EnvIsSettled /\ [PlaneNext]_planeVars => (SetupInv /\ EnvIsSettled)'
  BY SetupSteps, SetupInvStep, SettledStays
<1>3. SetupInv /\ EnvIsSettled => SetupTypeOK
  BY SetupTyped
<1> QED BY <1>1, <1>2, <1>3, PTL DEF PlaneSpec

LEMMA StreamInPlane == PlaneSpec => []StreamTypeOK
<1>1. PlaneInit => StreamInv /\ QuotaNoted /\ WindowCounts
  BY StreamStarts, QuotaStarts DEF PlaneInit
<1>2. StreamInv /\ QuotaNoted /\ WindowCounts /\ [PlaneNext]_planeVars => (StreamInv /\ QuotaNoted /\ WindowCounts)'
  BY StreamSteps, StreamInvStep, QuotaStays, WindowStays
<1>3. StreamInv /\ QuotaNoted /\ WindowCounts => StreamTypeOK
  BY StreamTyped
<1> QED BY <1>1, <1>2, <1>3, PTL DEF PlaneSpec

LEMMA ScoutInPlane == PlaneSpec => []ScoutTypeOK
<1>1. PlaneInit => ScoutInv
  BY ScoutStarts DEF PlaneInit
<1>2. ScoutInv /\ [PlaneNext]_planeVars => ScoutInv'
  BY ScoutSteps, ScoutKeeps
<1>3. ScoutInv => ScoutTypeOK
  BY ScoutTyped
<1> QED BY <1>1, <1>2, <1>3, PTL DEF PlaneSpec

LEMMA StopInPlane == PlaneSpec => []StopTypeOK
<1>1. PlaneInit => StopInv /\ CatchUpsMissing
  BY StopStarts DEF PlaneInit
<1>2. StopInv /\ CatchUpsMissing /\ [PlaneNext]_planeVars => (StopInv /\ CatchUpsMissing)'
  BY StopSteps, StopInvStep, CatchUpsStay
<1>3. StopInv /\ CatchUpsMissing => StopTypeOK
  BY StopTyped
<1> QED BY <1>1, <1>2, <1>3, PTL DEF PlaneSpec

LEMMA WalletInPlane == PlaneSpec => []WalletTypeOK
<1>1. PlaneInit => WalletInv /\ SetupIsCounted
  BY WalletStarts DEF PlaneInit
<1>2. WalletInv /\ SetupIsCounted /\ [PlaneNext]_planeVars => (WalletInv /\ SetupIsCounted)'
  BY WalletSteps, WalletStep, CountedSetupStays
<1>3. WalletInv /\ SetupIsCounted => WalletTypeOK
  BY WalletTyped
<1> QED BY <1>1, <1>2, <1>3, PTL DEF PlaneSpec

LEMMA TerminalInPlane == PlaneSpec => []TerminalTypeOK
<1>1. PlaneInit => TerminalInv /\ SessionIs
  BY TerminalStarts, SessionStarts DEF PlaneInit
<1>2. TerminalInv /\ SessionIs /\ [PlaneNext]_planeVars => (TerminalInv /\ SessionIs)'
  BY TerminalSteps, TerminalInvStep, SessionStays
<1>3. TerminalInv /\ SessionIs => TerminalTypeOK
  BY TerminalTyped
<1> QED BY <1>1, <1>2, <1>3, PTL DEF PlaneSpec

LEMMA DoubleInPlane == PlaneSpec => []DoubleTypeOK
<1>1. PlaneInit => DoubleInv /\ CountedWasReported
  BY DoubleStarts DEF PlaneInit
<1>2. DoubleInv /\ CountedWasReported /\ [PlaneNext]_planeVars => (DoubleInv /\ CountedWasReported)'
  BY DoubleSteps, DoubleInvStep, CountedStays
<1>3. DoubleInv /\ CountedWasReported => DoubleTypeOK
  BY DoubleTyped
<1> QED BY <1>1, <1>2, <1>3, PTL DEF PlaneSpec

\* In whatever order the parts move, every part's state keeps its types, its ranges and
\* what pairs one variable with another: a tick that rests holds no token and a port is
\* held by a process that runs, for any markets, users, wallets, prices and bounds.
THEOREM PlaneTyped == PlaneSpec => []PlaneTypeOK
BY LedgerInPlane, OrderInPlane, ControlInPlane, AdmissionInPlane, CalibrationInPlane,
   DeskInPlane, PaperInPlane, SettlementInPlane, FeedInPlane, TelegramInPlane,
   StartUpInPlane, WizardInPlane, UpkeepInPlane, SetupInPlane, StreamInPlane,
   ScoutInPlane, StopInPlane, WalletInPlane, TerminalInPlane, DoubleInPlane, PTL
   DEF PlaneTypeOK
=============================================================================

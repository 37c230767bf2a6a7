-------------------------- MODULE ExposureBookProofs --------------------------
(***************************************************************************)
(* That the cash at risk stays within the capital cap, and that a fill     *)
(* enters the session's profit once, for any orders, markets, sizes, caps, *)
(* windows, restarts and failed reads.                                     *)
(***************************************************************************)
EXTENDS ExposureBook, RunningTotalProofs, SequenceTheorems

Statuses == {"none", "resting", "expired", "dead"}

\* What the fills of an order that is listed are worth, as exposureByMarket adds it up.
HeldIn(m) == [o \in Orders |-> IF o \in Durable /\ MarketOf[o] = m THEN OrderExposure(o) ELSE 0]

-----------------------------------------------------------------------------
(***************************************************************************)
(* Types.                                                                  *)
(***************************************************************************)

\* What an order is listed with is an amount, and so is what a market is.
LEMMA ExposureTyped ==
  ASSUME BookTypeOK
  PROVE  /\ \A o \in Orders : OrderExposure(o) \in Nat
         /\ \A m : \A o \in Orders : HeldIn(m)[o] \in Nat
         /\ ExposureByMarket \in [Markets -> Nat]
<1> USE ExposureAssumption
<1>1. ASSUME NEW o \in Orders PROVE OrderExposure(o) \in Nat
  <2>1. order[o] \in [status : Statuses, fill : 0..Size]
    BY DEF BookTypeOK, Statuses
  <2>2. order[o].fill \in 0..Size
    BY <2>1
  <2> QED BY <2>2 DEF OrderExposure, Reserved
<1>2. ASSUME NEW m, NEW o \in Orders PROVE HeldIn(m)[o] \in Nat
  BY <1>1 DEF HeldIn
<1>3. ASSUME NEW m \in Markets PROVE ExposureByMarket[m] \in Nat
  <2>1. ExposureByMarket[m] = Total(HeldIn(m), NumOrders)
    BY DEF ExposureByMarket, HeldIn
  <2> DEFINE f == HeldIn(m)
  <2>2. \A o \in 1 .. NumOrders : f[o] \in Nat
    BY <1>2 DEF Orders
  <2> HIDE DEF f
  <2>3. Total(f, NumOrders) \in Nat
    BY <2>2, TotalCovers
  <2> QED BY <2>1, <2>3 DEF f
<1>4. ExposureByMarket \in [Markets -> Nat]
  <2>1. ExposureByMarket = [m \in Markets |-> ExposureByMarket[m]]
    BY DEF ExposureByMarket
  <2> QED BY <1>3, <2>1
<1> QED BY <1>1, <1>2, <1>4

\* What a load of the durable orders does to the book and the profit and loss.
New(o) == IF o \in Durable /\ order[o].fill > book.booked[o] THEN order[o].fill - book.booked[o] ELSE 0

LEMMA SyncEffect ==
  ASSUME BookTypeOK, SyncLoads
  PROVE  /\ book' \in [booked : [Orders -> Nat], baselined : BOOLEAN, sawStep : BOOLEAN]
         /\ book'.baselined /\ book'.sawStep = book.sawStep
         /\ counted' \in [Orders -> Nat]
         /\ \A o \in Orders : New(o) \in Nat /\ book'.booked[o] = book.booked[o] + New(o)
         /\ IF ~book.baselined /\ ~book.sawStep THEN counted' = counted
            ELSE \A o \in Orders : counted'[o] = counted[o] + New(o)
<1> USE ExposureAssumption
<1>1. ASSUME NEW o \in Orders
      PROVE  /\ order[o].fill \in 0..Size /\ book.booked[o] \in Nat /\ counted[o] \in Nat
             /\ New(o) \in Nat
  <2>1. order[o] \in [status : Statuses, fill : 0..Size]
    BY DEF BookTypeOK, Statuses
  <2>2. order[o].fill \in 0..Size /\ book.booked[o] \in Nat /\ counted[o] \in Nat
    BY <2>1 DEF BookTypeOK
  <2> QED BY <2>2 DEF New
<1>2. book' = [book EXCEPT !.baselined = TRUE, !.booked = [o \in Orders |-> @[o] + New(o)]]
  BY DEF SyncLoads, New
<1>3. counted' = IF ~book.baselined /\ ~book.sawStep THEN counted
                 ELSE [o \in Orders |-> counted[o] + New(o)]
  BY DEF SyncLoads, New
<1>4. book \in [booked : [Orders -> Nat], baselined : BOOLEAN, sawStep : BOOLEAN]
  BY DEF BookTypeOK
<1>5. book'.booked = [o \in Orders |-> book.booked[o] + New(o)]
  BY <1>2, <1>4
<1>6. book'.booked \in [Orders -> Nat]
  BY <1>1, <1>5
<1>7. book' \in [booked : [Orders -> Nat], baselined : BOOLEAN, sawStep : BOOLEAN]
  BY <1>2, <1>4, <1>5, <1>6
<1>8. book'.baselined /\ book'.sawStep = book.sawStep
  BY <1>2, <1>4
<1>9. counted \in [Orders -> Nat]
  BY DEF BookTypeOK
<1>10. counted' \in [Orders -> Nat]
  BY <1>1, <1>3, <1>9
<1> QED BY <1>1, <1>3, <1>5, <1>7, <1>8, <1>10

\* What an order and its book are after a submission.
LEMMA SubmitEffect ==
  ASSUME BookTypeOK, NEW o \in Orders, StepSubmits(o)
  PROVE  \E f \in 0..Size, known \in BOOLEAN :
           /\ order' = [order EXCEPT ![o] = [status |-> IF f = Size THEN "dead" ELSE "resting",
                                             fill |-> f]]
           /\ order' \in [Orders -> [status : Statuses, fill : 0..Size]]
           /\ book' = [booked |-> [book.booked EXCEPT ![o] = IF known THEN f ELSE 0],
                       baselined |-> book.baselined, sawStep |-> TRUE]
           /\ book'.booked \in [Orders -> Nat]
           /\ counted' = [counted EXCEPT ![o] = IF known THEN f ELSE 0]
           /\ counted' \in [Orders -> Nat]
<1> USE ExposureAssumption
<1>1. PICK f \in 0..Size, known \in BOOLEAN :
        /\ order' = [order EXCEPT ![o] = [status |-> IF f = Size THEN "dead" ELSE "resting",
                                          fill |-> f]]
        /\ book' = [book EXCEPT !.sawStep = TRUE, !.booked[o] = IF known THEN f ELSE 0]
        /\ counted' = [counted EXCEPT ![o] = IF known THEN f ELSE 0]
  BY DEF StepSubmits
<1>2. book \in [booked : [Orders -> Nat], baselined : BOOLEAN, sawStep : BOOLEAN]
  BY DEF BookTypeOK
<1> DEFINE v == IF known THEN f ELSE 0
<1>3. v \in Nat
  OBVIOUS
<1>4. book' = [book EXCEPT !.sawStep = TRUE, !.booked[o] = v] /\ counted' = [counted EXCEPT ![o] = v]
  BY <1>1
<1> HIDE DEF v
<1>5. book' = [booked |-> [book.booked EXCEPT ![o] = v], baselined |-> book.baselined, sawStep |-> TRUE]
  BY <1>2, <1>4
<1>6. book'.booked = [book.booked EXCEPT ![o] = v]
  BY <1>5
<1>7. book'.booked \in [Orders -> Nat]
  BY <1>2, <1>3, <1>6
<1>8. counted' \in [Orders -> Nat]
  BY <1>3, <1>4 DEF BookTypeOK
<1>9. order \in [Orders -> [status : Statuses, fill : 0..Size]]
  BY DEF BookTypeOK, Statuses
<1>10. [status |-> IF f = Size THEN "dead" ELSE "resting", fill |-> f] \in [status : Statuses, fill : 0..Size]
  BY DEF Statuses
<1>11. order' \in [Orders -> [status : Statuses, fill : 0..Size]]
  BY <1>1, <1>9, <1>10
<1> QED BY <1>1, <1>5, <1>7, <1>8, <1>11 DEF v

Loops == [pc : {"top", "synced", "settled", "pass"}, todo : SUBSET Markets]
Pasts == [stops : Nat, before : [Orders -> Nat], blind : BOOLEAN, expired : BOOLEAN,
          missed : BOOLEAN, waited : BOOLEAN, failed : Nat]

\* Where the loop goes stays in its type.
LEMMA LoopTyped ==
  ASSUME loop \in Loops
  PROVE  /\ Top \in Loops
         /\ \A pc \in {"synced", "settled"} : [loop EXCEPT !.pc = pc] \in Loops
         /\ \A m : [loop EXCEPT !.todo = @ \ {m}] \in Loops
         /\ \A m : StepEnds(m) => loop' \in Loops
BY DEF Loops, Top, StepEnds

\* The history stays in its type.
LEMMA PastTyped ==
  ASSUME past \in Pasts
  PROVE  /\ past.failed + 1 \in Nat /\ past.stops + 1 \in Nat
         /\ \A n \in Nat, b \in BOOLEAN : [past EXCEPT !.failed = n, !.blind = b] \in Pasts
         /\ \A n \in Nat : [past EXCEPT !.failed = n] \in Pasts
         /\ \A n \in Nat, f \in [Orders -> Nat] :
              [past EXCEPT !.stops = n, !.before = f, !.waited = FALSE, !.missed = FALSE] \in Pasts
<1> USE DEF Pasts
<1>1. past.failed + 1 \in Nat /\ past.stops + 1 \in Nat
  OBVIOUS
<1>2. ASSUME NEW n \in Nat, NEW b \in BOOLEAN PROVE [past EXCEPT !.failed = n, !.blind = b] \in Pasts
  OBVIOUS
<1>3. ASSUME NEW n \in Nat PROVE [past EXCEPT !.failed = n] \in Pasts
  OBVIOUS
<1>4. ASSUME NEW n \in Nat, NEW f \in [Orders -> Nat]
      PROVE  [past EXCEPT !.stops = n, !.before = f, !.waited = FALSE, !.missed = FALSE] \in Pasts
  OBVIOUS
<1> HIDE DEF Pasts
<1> QED BY <1>1, <1>2, <1>3, <1>4

LEMMA BookTypeStep == ASSUME BookTypeOK, [BookNext]_bookVars PROVE BookTypeOK'
<1> USE ExposureAssumption
<1>1. /\ order \in [Orders -> [status : Statuses, fill : 0..Size]]
      /\ resolved \in Seq(Markets) /\ tracked \in [Markets -> Nat]
      /\ book \in [booked : [Orders -> Nat], baselined : BOOLEAN, sawStep : BOOLEAN]
      /\ counted \in [Orders -> Nat] /\ loop \in Loops /\ past \in Pasts
  BY DEF BookTypeOK, Statuses, Loops, Pasts
<1>2. /\ order' \in [Orders -> [status : Statuses, fill : 0..Size]]
      /\ resolved' \in Seq(Markets) /\ tracked' \in [Markets -> Nat]
      /\ book' \in [booked : [Orders -> Nat], baselined : BOOLEAN, sawStep : BOOLEAN]
      /\ counted' \in [Orders -> Nat] /\ loop' \in Loops /\ past' \in Pasts
      => BookTypeOK'
  BY DEF BookTypeOK, Statuses, Loops, Pasts
<1>3. CASE UNCHANGED bookVars
  BY <1>1, <1>2, <1>3 DEF bookVars
<1>4. CASE SyncLoads
  <2>1. tracked' \in [Markets -> Nat]
    BY <1>4, ExposureTyped DEF SyncLoads
  <2>2. loop' \in Loops
    BY <1>1, <1>4, LoopTyped DEF SyncLoads
  <2>3. past' \in Pasts
    BY <1>1, <1>4 DEF SyncLoads, Pasts
  <2> QED BY <1>1, <1>2, <1>4, <2>1, <2>2, <2>3, SyncEffect DEF SyncLoads
<1>5. CASE SyncFails
  <2>1. loop' \in Loops
    BY <1>1, <1>5, LoopTyped DEF SyncFails
  <2>2. past' \in Pasts
    <3> DEFINE b == past.blind \/ ~book.baselined \/ past.missed
    <3>1. b \in BOOLEAN
      OBVIOUS
    <3>2. past' = [past EXCEPT !.failed = past.failed + 1, !.blind = b]
      BY <1>5 DEF SyncFails
    <3> HIDE DEF b
    <3> QED BY <1>1, <3>1, <3>2, PastTyped
  <2> QED BY <1>1, <1>2, <1>5, <2>1, <2>2 DEF SyncFails
<1>6. CASE SettlementsFreed
  <2>1. tracked' \in [Markets -> Nat]
    BY <1>1, <1>6 DEF SettlementsFreed
  <2>2. loop' \in Loops
    BY <1>1, <1>6, LoopTyped DEF SettlementsFreed
  <2> QED BY <1>1, <1>2, <1>6, <2>1, <2>2 DEF SettlementsFreed
<1>7. CASE SettlementsUnknown
  <2>1. loop' \in Loops
    BY <1>1, <1>7, LoopTyped DEF SettlementsUnknown
  <2>2. past' \in Pasts
    BY <1>1, <1>7, PastTyped DEF SettlementsUnknown
  <2> QED BY <1>1, <1>2, <1>7, <2>1, <2>2 DEF SettlementsUnknown
<1>8. CASE PortfolioFull
  <2>1. past' \in Pasts
    BY <1>1, <1>8 DEF PortfolioFull, Pasts
  <2> QED BY <1>1, <1>2, <1>8, <2>1, LoopTyped DEF PortfolioFull
<1>9. CASE PassSelects
  <2>1. past' \in Pasts
    BY <1>1, <1>9 DEF PassSelects, Pasts
  <2>2. loop' \in Loops
    BY <1>1, <1>9, LoopTyped DEF PassSelects, Loops
  <2> QED BY <1>1, <1>2, <1>9, <2>1, <2>2 DEF PassSelects
<1>10. CASE StepDeclines
  <2>1. book' \in [booked : [Orders -> Nat], baselined : BOOLEAN, sawStep : BOOLEAN]
    BY <1>1, <1>10 DEF StepDeclines
  <2> QED BY <1>1, <1>2, <1>10, <2>1, LoopTyped DEF StepDeclines
<1>11. CASE StepThrows
  BY <1>1, <1>2, <1>11, LoopTyped DEF StepThrows
<1>12. CASE Restart
  <2>1. book' \in [booked : [Orders -> Nat], baselined : BOOLEAN, sawStep : BOOLEAN]
    BY <1>12 DEF Restart, FreshBook
  <2>2. \A o \in Orders : order[o].fill \in Nat
    BY <1>1
  <2>3. past' \in Pasts
    <3> DEFINE f == [o \in Orders |-> order[o].fill]
    <3>1. f \in [Orders -> Nat]
      BY <2>2
    <3>2. past' = [past EXCEPT !.stops = past.stops + 1, !.before = f, !.waited = FALSE, !.missed = FALSE]
      BY <1>12 DEF Restart
    <3> HIDE DEF f
    <3> QED BY <1>1, <3>1, <3>2, PastTyped
  <2>4. tracked' \in [Markets -> Nat] /\ counted' \in [Orders -> Nat]
    BY <1>12 DEF Restart, NoCash
  <2> QED BY <1>1, <1>2, <1>12, <2>1, <2>3, <2>4, LoopTyped DEF Restart
<1>13. ASSUME NEW o \in Orders, VenueFills(o) PROVE BookTypeOK'
  <2>1. PICK f \in order[o].fill + 1..Size :
          order' = [order EXCEPT ![o] = [status |-> IF f = Size THEN "dead" ELSE @.status, fill |-> f]]
    BY <1>13 DEF VenueFills
  <2>2. order[o] \in [status : Statuses, fill : 0..Size]
    BY <1>1
  <2>3. f \in 0..Size /\ order[o].status \in Statuses
    BY <2>2
  <2>4. [status |-> IF f = Size THEN "dead" ELSE order[o].status, fill |-> f]
           \in [status : Statuses, fill : 0..Size]
    BY <2>3 DEF Statuses
  <2>5. order' \in [Orders -> [status : Statuses, fill : 0..Size]]
    BY <1>1, <2>1, <2>4
  <2> QED BY <1>1, <1>2, <1>13, <2>5 DEF VenueFills
<1>14. ASSUME NEW o \in Orders, VenueKills(o) PROVE BookTypeOK'
  <2>1. order' \in [Orders -> [status : Statuses, fill : 0..Size]]
    <3>1. order[o] \in [status : Statuses, fill : 0..Size]
      BY <1>1
    <3>2. [order[o] EXCEPT !.status = "dead"] \in [status : Statuses, fill : 0..Size]
      BY <3>1 DEF Statuses
    <3>3. order' = [order EXCEPT ![o] = [order[o] EXCEPT !.status = "dead"]]
      BY <1>14 DEF VenueKills
    <3> QED BY <1>1, <3>2, <3>3
  <2> QED BY <1>1, <1>2, <1>14, <2>1 DEF VenueKills
<1>15. ASSUME NEW o \in Orders, ReservationExpires(o) PROVE BookTypeOK'
  <2>1. order' \in [Orders -> [status : Statuses, fill : 0..Size]]
    BY <1>1, <1>15 DEF ReservationExpires, Statuses
  <2>2. past' \in Pasts
    BY <1>1, <1>15 DEF ReservationExpires, Pasts
  <2> QED BY <1>1, <1>2, <1>15, <2>1, <2>2 DEF ReservationExpires
<1>16. ASSUME NEW o \in Orders, StepSubmits(o) PROVE BookTypeOK'
  <2>1. MarketOf[o] \in Markets
    OBVIOUS
  <2>2. tracked' \in [Markets -> Nat]
    BY <1>1, <1>16, <2>1 DEF StepSubmits
  <2>3. book' \in [booked : [Orders -> Nat], baselined : BOOLEAN, sawStep : BOOLEAN]
    <3>1. PICK b : /\ book' = [booked |-> b, baselined |-> book.baselined, sawStep |-> TRUE]
                   /\ book'.booked \in [Orders -> Nat]
      BY <1>16, SubmitEffect
    <3>2. book'.booked = b
      BY <3>1
    <3> QED BY <1>1, <3>1, <3>2
  <2>4. order' \in [Orders -> [status : Statuses, fill : 0..Size]] /\ counted' \in [Orders -> Nat]
    BY <1>16, SubmitEffect
  <2>5. loop' \in Loops
    BY <1>1, <1>16, LoopTyped DEF StepSubmits
  <2> QED BY <1>1, <1>2, <1>16, <2>2, <2>3, <2>4, <2>5 DEF StepSubmits
<1>17. ASSUME NEW o \in Orders, StepThrowsAfterSend(o) PROVE BookTypeOK'
  <2>1. order' \in [Orders -> [status : Statuses, fill : 0..Size]]
    BY <1>1, <1>17 DEF StepThrowsAfterSend, Statuses
  <2>2. past' \in Pasts
    BY <1>1, <1>17 DEF StepThrowsAfterSend, Pasts
  <2> QED BY <1>1, <1>2, <1>17, <2>1, <2>2, LoopTyped DEF StepThrowsAfterSend
<1>18. ASSUME NEW m \in Markets, MarketResolves(m) PROVE BookTypeOK'
  <2>1. resolved' \in Seq(Markets)
    BY <1>1, <1>18 DEF MarketResolves
  <2> QED BY <1>1, <1>2, <1>18, <2>1 DEF MarketResolves
<1> QED
  BY <1>3, <1>4, <1>5, <1>6, <1>7, <1>8, <1>9, <1>10, <1>11, <1>12, <1>13, <1>14, <1>15, <1>16,
     <1>17, <1>18 DEF BookNext

LEMMA BookTyped == BookSpec => []BookTypeOK
<1>1. BookInit => BookTypeOK
  BY ExposureAssumption DEF BookInit, BookTypeOK, Unsent, NoCash, FreshBook, Top
<1> QED BY <1>1, BookTypeStep, PTL DEF BookSpec

-----------------------------------------------------------------------------
(***************************************************************************)
(* A fill is counted once.                                                 *)
(***************************************************************************)

\* A process that has not loaded its orders yet is before its first pass, and a pass
\* never runs on an order the process sent and lost sight of, unless a load failed.
LoadsBeforePasses ==
    ~past.blind =>
        /\ ~book.baselined => loop.pc = "top" /\ ~book.sawStep /\ \A o \in Orders : counted[o] = 0
        /\ past.missed => loop.pc = "top"

\* What is booked was filled, what was filled before the process started is not
\* counted, and what it counts is booked.
CountedIsBooked ==
    /\ \A o \in Orders : /\ book.booked[o] <= order[o].fill /\ past.before[o] <= order[o].fill
                         /\ order[o].status = "none" => order[o].fill = 0
    /\ ~past.blind /\ book.baselined =>
         \A o \in Orders : counted[o] + past.before[o] <= book.booked[o]

LEMMA LoadsStep ==
  ASSUME BookTypeOK, LoadsBeforePasses, [BookNext]_bookVars PROVE LoadsBeforePasses'
<1> USE DEF LoadsBeforePasses
<1>1. /\ book \in [booked : [Orders -> Nat], baselined : BOOLEAN, sawStep : BOOLEAN]
      /\ loop \in Loops /\ past \in Pasts
  BY DEF BookTypeOK, Loops, Pasts
<1>2. CASE UNCHANGED bookVars
  BY <1>2 DEF bookVars
<1>3. CASE SyncLoads
  <2>1. book'.baselined
    BY <1>3, SyncEffect
  <2>2. ~past'.missed
    BY <1>1, <1>3 DEF SyncLoads, Pasts
  <2> QED BY <2>1, <2>2
<1>4. CASE SyncFails
  <2>1. past' = [past EXCEPT !.failed = @ + 1, !.blind = @ \/ ~book.baselined \/ past.missed]
    BY <1>4 DEF SyncFails
  <2>2. ~past'.blind => book.baselined /\ ~past.missed /\ past'.missed = past.missed
    BY <1>1, <2>1 DEF Pasts
  <2> QED BY <1>4, <2>2 DEF SyncFails
<1>5. CASE SettlementsFreed \/ SettlementsUnknown
  <2>1. loop.pc = "synced" /\ UNCHANGED <<book, counted>>
    BY <1>5 DEF SettlementsFreed, SettlementsUnknown
  <2>2. past'.blind = past.blind /\ past'.missed = past.missed
    BY <1>1, <1>5 DEF SettlementsFreed, SettlementsUnknown, Pasts
  <2> QED BY <2>1, <2>2
<1>6. CASE PortfolioFull \/ PassSelects
  <2>1. loop.pc = "settled" /\ UNCHANGED <<book, counted>>
    BY <1>6 DEF PortfolioFull, PassSelects
  <2>2. past'.blind = past.blind /\ past'.missed = past.missed
    BY <1>1, <1>6 DEF PortfolioFull, PassSelects, Pasts
  <2> QED BY <2>1, <2>2
<1>7. CASE StepDeclines \/ StepThrows
  <2>1. loop.pc = "pass" /\ UNCHANGED <<past, counted>> /\ book'.baselined = book.baselined
    BY <1>1, <1>7 DEF StepDeclines, StepThrows
  <2> QED BY <2>1
<1>8. CASE Restart
  <2>1. loop' = Top /\ book' = FreshBook /\ counted' = [o \in Orders |-> 0]
    BY <1>8 DEF Restart
  <2> QED BY <2>1 DEF Top, FreshBook
<1>9. ASSUME NEW o \in Orders, VenueFills(o) \/ VenueKills(o) \/ ReservationExpires(o)
      PROVE LoadsBeforePasses'
  <2>1. UNCHANGED <<loop, book, counted>>
    BY <1>9 DEF VenueFills, VenueKills, ReservationExpires
  <2>2. past'.blind = past.blind /\ past'.missed = past.missed
    BY <1>1, <1>9 DEF VenueFills, VenueKills, ReservationExpires, Pasts
  <2> QED BY <2>1, <2>2
<1>10. ASSUME NEW o \in Orders, StepSubmits(o) PROVE LoadsBeforePasses'
  <2>1. book'.baselined = book.baselined
    BY <1>10, SubmitEffect
  <2>2. loop.pc = "pass" /\ past' = past
    BY <1>10 DEF StepSubmits, MayEnter
  <2> QED BY <2>1, <2>2
<1>11. ASSUME NEW o \in Orders, StepThrowsAfterSend(o) PROVE LoadsBeforePasses'
  <2>1. loop.pc = "pass" /\ loop'.pc = "top" /\ book' = book
    BY <1>11 DEF StepThrowsAfterSend, MayEnter, Top
  <2>2. past'.blind = past.blind
    BY <1>1, <1>11 DEF StepThrowsAfterSend, Pasts
  <2> QED BY <2>1, <2>2
<1>12. ASSUME NEW m \in Markets, MarketResolves(m) PROVE LoadsBeforePasses'
  BY <1>12 DEF MarketResolves
<1> QED
  BY <1>2, <1>3, <1>4, <1>5, <1>6, <1>7, <1>8, <1>9, <1>10, <1>11, <1>12 DEF BookNext

LEMMA CountedStep ==
  ASSUME BookTypeOK, LoadsBeforePasses, CountedIsBooked, [BookNext]_bookVars PROVE CountedIsBooked'
<1> USE ExposureAssumption
<1>1. /\ book \in [booked : [Orders -> Nat], baselined : BOOLEAN, sawStep : BOOLEAN]
      /\ loop \in Loops /\ past \in Pasts
      /\ \A o \in Orders : /\ order[o] \in [status : Statuses, fill : 0..Size]
                           /\ order[o].fill \in Nat /\ book.booked[o] \in Nat
                           /\ counted[o] \in Nat /\ past.before[o] \in Nat
  BY DEF BookTypeOK, Statuses, Loops, Pasts
\* A step that changes no book and at most adds to a fill.
<1>2. ASSUME \A o \in Orders : /\ order'[o].fill \in Nat /\ order[o].fill <= order'[o].fill
                               /\ order'[o].status = "none" => order[o].status = "none" /\ order'[o].fill = order[o].fill,
             book'.booked = book.booked, book'.baselined = book.baselined, counted' = counted,
             past'.before = past.before, ~past'.blind => ~past.blind
      PROVE  CountedIsBooked'
  BY <1>1, <1>2 DEF CountedIsBooked
<1>3. CASE UNCHANGED bookVars
  <2>1. UNCHANGED <<order, book, counted, past>>
    BY <1>3 DEF bookVars
  <2> QED BY <1>1, <1>2, <2>1
<1>4. CASE SyncLoads
  <2>1. order' = order /\ past'.before = past.before /\ past'.blind = past.blind
    BY <1>1, <1>4 DEF SyncLoads, Pasts
  <2>2. ASSUME NEW o \in Orders
        PROVE  /\ book'.booked[o] = order[o].fill /\ book'.booked[o] = book.booked[o] + New(o)
               /\ New(o) \in Nat
    <3>1. book'.booked[o] = book.booked[o] + New(o) /\ New(o) \in Nat
      BY <1>4, SyncEffect
    <3>2. order[o].fill > book.booked[o] => o \in Durable
      BY <1>1 DEF CountedIsBooked, Durable, Statuses
    <3> QED BY <1>1, <3>1, <3>2 DEF New, CountedIsBooked
  <2>3. ASSUME ~past.blind, NEW o \in Orders PROVE counted'[o] + past.before[o] <= book'.booked[o]
    <3>1. CASE book.baselined
      <4>1. counted'[o] = counted[o] + New(o)
        BY <1>4, <3>1, SyncEffect
      <4> QED BY <1>1, <2>2, <2>3, <3>1, <4>1 DEF CountedIsBooked
    <3>2. CASE ~book.baselined
      <4>1. ~book.sawStep /\ counted[o] = 0
        BY <2>3, <3>2 DEF LoadsBeforePasses
      <4>2. counted'[o] = 0
        BY <1>4, <3>2, <4>1, SyncEffect
      <4> QED BY <1>1, <2>2, <4>2 DEF CountedIsBooked
    <3> QED BY <3>1, <3>2
  <2> QED BY <1>1, <2>1, <2>2, <2>3 DEF CountedIsBooked
<1>5. CASE SyncFails
  <2>1. order' = order /\ book' = book /\ counted' = counted
    BY <1>5 DEF SyncFails
  <2>2. past' = [past EXCEPT !.failed = @ + 1, !.blind = @ \/ ~book.baselined \/ past.missed]
    BY <1>5 DEF SyncFails
  <2>3. past'.before = past.before /\ (~past'.blind => ~past.blind)
    BY <1>1, <2>2 DEF Pasts
  <2> QED BY <1>1, <1>2, <2>1, <2>3
<1>6. CASE SettlementsFreed \/ SettlementsUnknown \/ PortfolioFull \/ PassSelects
  <2>1. order' = order /\ book' = book /\ counted' = counted
    BY <1>6 DEF SettlementsFreed, SettlementsUnknown, PortfolioFull, PassSelects
  <2>2. past'.before = past.before /\ past'.blind = past.blind
    BY <1>1, <1>6 DEF SettlementsFreed, SettlementsUnknown, PortfolioFull, PassSelects, Pasts
  <2> QED BY <1>1, <1>2, <2>1, <2>2
<1>7. CASE StepDeclines \/ StepThrows
  <2>1. /\ order' = order /\ counted' = counted /\ past' = past
        /\ book'.booked = book.booked /\ book'.baselined = book.baselined
    BY <1>1, <1>7 DEF StepDeclines, StepThrows
  <2> QED BY <1>1, <1>2, <2>1
<1>8. CASE Restart
  <2>1. /\ order' = order /\ book' = FreshBook /\ counted' = [o \in Orders |-> 0]
        /\ past'.before = [o \in Orders |-> order[o].fill]
    BY <1>1, <1>8 DEF Restart, Pasts
  <2> QED BY <1>1, <2>1 DEF CountedIsBooked, FreshBook
<1>9. ASSUME NEW o \in Orders, VenueFills(o) PROVE CountedIsBooked'
  <2>1. PICK f \in order[o].fill + 1..Size :
          order' = [order EXCEPT ![o] = [status |-> IF f = Size THEN "dead" ELSE @.status, fill |-> f]]
    BY <1>9 DEF VenueFills
  <2>2. order[o].status # "none" /\ UNCHANGED <<book, counted, past>>
    BY <1>9 DEF VenueFills
  <2>3. f \in Nat /\ order[o].fill <= f
    BY <1>1
  <2>4. \A p \in Orders : order'[p] = IF p = o THEN [status |-> IF f = Size THEN "dead" ELSE order[o].status, fill |-> f]
                                      ELSE order[p]
    BY <2>1 DEF BookTypeOK
  <2>5. \A p \in Orders : /\ order'[p].fill \in Nat /\ order[p].fill <= order'[p].fill
                          /\ order'[p].status = "none" => order[p].status = "none" /\ order'[p].fill = order[p].fill
    BY <1>1, <2>2, <2>3, <2>4
  <2> QED BY <1>2, <2>2, <2>5
<1>10. ASSUME NEW o \in Orders, VenueKills(o) \/ ReservationExpires(o) PROVE CountedIsBooked'
  <2>1. \A p \in Orders : /\ order'[p].fill = order[p].fill
                          /\ order'[p].status = "none" => order[p].status = "none"
    <3>1. PICK s \in {"dead", "expired"} : order' = [order EXCEPT ![o].status = s]
      BY <1>10 DEF VenueKills, ReservationExpires
    <3>2. order \in [Orders -> [status : Statuses, fill : 0..Size]]
      BY DEF BookTypeOK, Statuses
    <3> QED BY <3>1, <3>2
  <2>2. book' = book /\ counted' = counted /\ past'.before = past.before /\ past'.blind = past.blind
    BY <1>1, <1>10 DEF VenueKills, ReservationExpires, Pasts
  <2> QED BY <1>1, <1>2, <2>1, <2>2
<1>11. ASSUME NEW o \in Orders, StepSubmits(o) PROVE CountedIsBooked'
  <2>1. /\ order[o] = Unsent /\ past' = past /\ loop.pc = "pass"
    BY <1>11 DEF StepSubmits, MayEnter
  <2>2. order[o].fill = 0
    BY <2>1 DEF Unsent
  <2>3. book.booked[o] = 0 /\ past.before[o] = 0
    BY <1>1, <2>2 DEF CountedIsBooked
  <2>4. PICK f \in 0..Size, known \in BOOLEAN :
           /\ order' = [order EXCEPT ![o] = [status |-> IF f = Size THEN "dead" ELSE "resting",
                                             fill |-> f]]
           /\ book' = [booked |-> [book.booked EXCEPT ![o] = IF known THEN f ELSE 0],
                       baselined |-> book.baselined, sawStep |-> TRUE]
           /\ counted' = [counted EXCEPT ![o] = IF known THEN f ELSE 0]
    BY <1>11, SubmitEffect
  <2> DEFINE v == IF known THEN f ELSE 0
  <2>5. v \in Nat /\ v <= f /\ f \in Nat
    OBVIOUS
  <2>6. book'.booked = [book.booked EXCEPT ![o] = v] /\ book'.baselined = book.baselined
    BY <2>4
  <2>7. counted' = [counted EXCEPT ![o] = v]
    BY <2>4
  <2> HIDE DEF v
  <2>8. \A p \in Orders :
          /\ order'[p] = IF p = o THEN [status |-> IF f = Size THEN "dead" ELSE "resting", fill |-> f] ELSE order[p]
          /\ book'.booked[p] = IF p = o THEN v ELSE book.booked[p]
          /\ counted'[p] = IF p = o THEN v ELSE counted[p]
    BY <2>4, <2>6, <2>7 DEF BookTypeOK
  <2>9. \A p \in Orders : /\ book'.booked[p] <= order'[p].fill /\ past'.before[p] <= order'[p].fill
                          /\ order'[p].status = "none" => order'[p].fill = 0
    BY <1>1, <2>1, <2>3, <2>5, <2>8 DEF CountedIsBooked
  <2>10. ASSUME ~past'.blind, book'.baselined, NEW p \in Orders
         PROVE  counted'[p] + past'.before[p] <= book'.booked[p]
    BY <1>1, <2>1, <2>3, <2>5, <2>6, <2>8, <2>10 DEF CountedIsBooked
  <2> QED BY <2>9, <2>10 DEF CountedIsBooked
<1>12. ASSUME NEW o \in Orders, StepThrowsAfterSend(o) PROVE CountedIsBooked'
  <2>1. order[o] = Unsent
    BY <1>12 DEF StepThrowsAfterSend, MayEnter
  <2>2. \A p \in Orders : /\ order'[p].fill = order[p].fill
                          /\ order'[p].status = "none" => order[p].status = "none"
    BY <1>1, <1>12 DEF BookTypeOK, StepThrowsAfterSend
  <2>3. book' = book /\ counted' = counted /\ past'.before = past.before /\ past'.blind = past.blind
    BY <1>1, <1>12 DEF StepThrowsAfterSend, Pasts
  <2> QED BY <1>1, <1>2, <2>2, <2>3
<1>13. ASSUME NEW m \in Markets, MarketResolves(m) PROVE CountedIsBooked'
  <2>1. UNCHANGED <<order, book, counted, past>>
    BY <1>13 DEF MarketResolves
  <2> QED BY <1>1, <1>2, <2>1
<1> QED
  BY <1>3, <1>4, <1>5, <1>6, <1>7, <1>8, <1>9, <1>10, <1>11, <1>12, <1>13 DEF BookNext

\* However late a fill is learnt and whoever learns it, the session's profit takes it
\* in once, and takes in none that was there before the process started.
THEOREM FillsCountOnce == BookSpec => []FillCountedOnce
<1>1. BookInit => LoadsBeforePasses /\ CountedIsBooked
  BY ExposureAssumption DEF BookInit, LoadsBeforePasses, CountedIsBooked, Unsent, FreshBook, Top
<1>2. ASSUME BookTypeOK, LoadsBeforePasses, CountedIsBooked PROVE FillCountedOnce
  <2>1. SUFFICES ASSUME ~past.blind, NEW o \in Orders PROVE counted[o] + past.before[o] <= order[o].fill
    BY DEF FillCountedOnce
  <2>2. order[o].fill \in Nat /\ book.booked[o] \in Nat /\ counted[o] \in Nat /\ past.before[o] \in Nat
    <3>1. order[o] \in [status : Statuses, fill : 0..Size]
      BY <1>2 DEF BookTypeOK, Statuses
    <3> QED BY <1>2, <3>1, ExposureAssumption DEF BookTypeOK
  <2>3. CASE book.baselined
    BY <1>2, <2>1, <2>2, <2>3 DEF CountedIsBooked
  <2>4. CASE ~book.baselined
    BY <1>2, <2>1, <2>2, <2>4 DEF CountedIsBooked, LoadsBeforePasses
  <2> QED BY <2>3, <2>4
<1> QED BY <1>1, <1>2, BookTyped, LoadsStep, CountedStep, PTL DEF BookSpec

-----------------------------------------------------------------------------
(***************************************************************************)
(* The capital cap.                                                        *)
(***************************************************************************)

\* What each order may still lose.
RiskOf == [o \in Orders |->
              IF order[o] = Unsent \/ MarketOf[o] \in Range(resolved) THEN 0
              ELSE IF order[o].status = "dead" THEN order[o].fill ELSE Size]

\* The tracker covers what the database would list, market by market, once a process
\* has loaded it and sent nothing it lost sight of.
Covered ==
    /\ ~past.expired => \A o \in Orders : order[o].status # "expired"
    /\ ~past.expired /\ ~past.blind /\ book.baselined /\ ~past.missed =>
         \A m \in Markets : m \notin Range(resolved) => ExposureByMarket[m] <= tracked[m]

\* The order, its status and its fill.
LEMMA OrderTyped ==
  ASSUME BookTypeOK, NEW o \in Orders
  PROVE  /\ order[o] \in [status : Statuses, fill : 0..Size]
         /\ order[o].status \in Statuses /\ order[o].fill \in 0..Size /\ order[o].fill \in Nat
<1>1. order[o] \in [status : Statuses, fill : 0..Size]
  BY DEF BookTypeOK, Statuses
<1> QED BY <1>1, ExposureAssumption

LEMMA RiskTyped ==
  ASSUME BookTypeOK
  PROVE  /\ \A o \in 1 .. NumOrders : RiskOf[o] \in Int
         /\ AtRisk = Total(RiskOf, NumOrders) /\ AtRisk \in Int
         /\ \A m \in 1 .. NumMarkets : tracked[m] \in Nat
         /\ CashAtRisk(tracked) \in Int
<1>1. \A o \in 1 .. NumOrders : RiskOf[o] \in Int
  BY OrderTyped, ExposureAssumption DEF RiskOf, Orders
<1>2. AtRisk = Total(RiskOf, NumOrders)
  BY DEF AtRisk, RiskOf
<1>3. \A m \in 1 .. NumMarkets : tracked[m] \in Nat
  BY DEF BookTypeOK, Markets
<1>4. AtRisk \in Int
  BY <1>1, <1>2, TotalType, ExposureAssumption
<1>5. CashAtRisk(tracked) \in Int
  BY <1>3, TotalType, ExposureAssumption DEF CashAtRisk
<1> QED BY <1>1, <1>2, <1>3, <1>4, <1>5

\* A tracker that covers every market covers what is at risk: orders by market or all
\* at once amount to the same.
LEMMA RiskIsTracked ==
  ASSUME BookTypeOK, CountedIsBooked, Covered,
         ~past.expired, ~past.blind, book.baselined, ~past.missed
  PROVE  AtRisk <= CashAtRisk(tracked)
<1> USE ExposureAssumption
<1> DEFINE f == RiskOf
           part(m) == [o \in 1 .. NumOrders |-> IF MarketOf[o] = m THEN f[o] ELSE 0]
           by == [m \in 1 .. NumMarkets |-> Total(part(m), NumOrders)]
<1>1. \A o \in 1 .. NumOrders : f[o] \in Int
  BY RiskTyped
<1>2. MarketOf \in [1 .. NumOrders -> 1 .. NumMarkets]
  BY DEF Orders, Markets
<1>3. Total(by, NumMarkets) = Total(f, NumOrders)
  <2> HIDE DEF f
  <2> QED BY <1>1, <1>2, TotalByClass
<1>4. ASSUME NEW m \in 1 .. NumMarkets PROVE by[m] \in Int /\ by[m] <= tracked[m]
  <2> DEFINE g == part(m)
  <2>1. by[m] = Total(g, NumOrders)
    OBVIOUS
  <2>2. \A o \in 1 .. NumOrders : g[o] \in Int
    BY <1>1
  <2>3. tracked[m] \in Nat
    BY RiskTyped
  <2>4. CASE m \in Range(resolved)
    <3>1. \A o \in 1 .. NumOrders : g[o] = 0
      BY <2>4 DEF RiskOf, Orders
    <3> HIDE DEF g, by
    <3> QED BY <2>1, <2>3, <3>1, TotalOfZeros
  <2>5. CASE m \notin Range(resolved)
    <3> DEFINE h == HeldIn(m)
    <3>1. ASSUME NEW o \in 1 .. NumOrders PROVE h[o] \in Int /\ g[o] <= h[o]
      <4>1. o \in Orders
        BY DEF Orders
      <4>2. /\ order[o] \in [status : Statuses, fill : 0..Size]
            /\ order[o].status \in {"none", "resting", "dead"} /\ order[o].fill \in 0..Size
        BY <4>1, OrderTyped DEF Covered, Statuses
      <4>3. order[o].status = "none" => order[o] = Unsent
        BY <4>1, <4>2 DEF CountedIsBooked, Unsent
      <4>4. h[o] \in Int
        BY <4>1, ExposureTyped
      <4>5. CASE MarketOf[o] # m
        BY <4>1, <4>5 DEF HeldIn
      <4>6. CASE MarketOf[o] = m /\ order[o] = Unsent
        <5>1. g[o] = 0
          BY <4>1, <4>6 DEF RiskOf
        <5>2. h[o] \in Nat
          BY <4>1, ExposureTyped
        <5> HIDE DEF g, h
        <5> QED BY <5>1, <5>2
      <4>7. CASE MarketOf[o] = m /\ order[o].status = "resting"
        <5>1. order[o] # Unsent
          BY <4>7 DEF Unsent
        <5>2. g[o] = Size
          BY <2>5, <4>1, <4>7, <5>1 DEF RiskOf
        <5>3. h[o] = Size
          BY <4>1, <4>2, <4>7 DEF HeldIn, Durable, OrderExposure, Reserved
        <5> HIDE DEF g, h
        <5> QED BY <5>2, <5>3
      <4>8. CASE MarketOf[o] = m /\ order[o].status = "dead"
        <5>1. order[o] # Unsent
          BY <4>8 DEF Unsent
        <5>2. g[o] = order[o].fill
          BY <2>5, <4>1, <4>8, <5>1 DEF RiskOf
        <5>3. h[o] = order[o].fill
          BY <4>1, <4>2, <4>8 DEF HeldIn, Durable, OrderExposure, Reserved
        <5> HIDE DEF g, h
        <5> QED BY <4>2, <5>2, <5>3
      <4> QED BY <4>2, <4>3, <4>4, <4>5, <4>6, <4>7, <4>8
    <3>2. ExposureByMarket[m] = Total(h, NumOrders)
      BY DEF ExposureByMarket, HeldIn, Markets
    <3>3. ExposureByMarket[m] <= tracked[m]
      BY <2>5 DEF Covered, Markets
    <3> HIDE DEF g, h, by
    <3>4. Total(g, NumOrders) \in Int /\ Total(h, NumOrders) \in Int
      BY <2>2, <3>1, TotalType
    <3>5. Total(g, NumOrders) <= Total(h, NumOrders)
      BY <2>2, <3>1, TotalMonotone
    <3> QED BY <2>1, <2>3, <3>2, <3>3, <3>4, <3>5
  <2> QED BY <2>4, <2>5
<1>5. \A m \in 1 .. NumMarkets : tracked[m] \in Int
  BY RiskTyped
<1>6. Total(by, NumMarkets) <= Total(tracked, NumMarkets)
  <2> HIDE DEF by
  <2> QED BY <1>4, <1>5, TotalMonotone
<1> QED BY <1>3, <1>6, RiskTyped DEF CashAtRisk

\* The same after a step.
LEMMA RiskTypedAfter ==
  ASSUME BookTypeOK'
  PROVE  /\ \A o \in 1 .. NumOrders : RiskOf'[o] \in Int
         /\ \A m : \A o \in 1 .. NumOrders : HeldIn(m)'[o] \in Int
         /\ AtRisk' \in Int
<1> USE ExposureAssumption
<1>1. ASSUME NEW o \in Orders PROVE order'[o].fill \in 0..Size
  <2>1. order'[o] \in [status : Statuses, fill : 0..Size]
    BY DEF BookTypeOK, Statuses
  <2> QED BY <2>1
<1>2. ASSUME NEW o \in 1 .. NumOrders PROVE RiskOf'[o] \in Int
  BY <1>1 DEF RiskOf, Orders
<1>3. ASSUME NEW m, NEW o \in 1 .. NumOrders PROVE HeldIn(m)'[o] \in Int
  BY <1>1 DEF HeldIn, OrderExposure, Reserved, Orders
<1>4. ASSUME NEW g, g = RiskOf' PROVE AtRisk' \in Int
  <2>1. AtRisk' = Total(g, NumOrders)
    BY <1>4 DEF AtRisk, RiskOf
  <2>2. \A o \in 1 .. NumOrders : g[o] \in Int
    BY <1>2, <1>4
  <2> QED BY <2>1, <2>2, TotalType
<1> QED BY <1>2, <1>3, <1>4

\* A step that lets the risk of one order grow by at most d lets the whole grow by no
\* more, and one that lets none grow, by nothing; the same of the exposure of a market.
LEMMA RiskGrowsAtOne ==
  ASSUME BookTypeOK, BookTypeOK', NEW o \in Orders, NEW d \in Nat,
         \A p \in Orders : RiskOf'[p] <= RiskOf[p] + (IF p = o THEN d ELSE 0)
  PROVE  AtRisk' <= AtRisk + d
<1>1. ASSUME NEW f, NEW g, f = RiskOf, g = RiskOf' PROVE AtRisk' <= AtRisk + d
  <2>1. AtRisk = Total(f, NumOrders) /\ AtRisk' = Total(g, NumOrders)
    BY <1>1 DEF AtRisk, RiskOf
  <2>2. \A p \in 1 .. NumOrders :
           f[p] \in Int /\ g[p] \in Int /\ g[p] <= f[p] + (IF p = o THEN d ELSE 0)
    BY <1>1, RiskTyped, RiskTypedAfter DEF Orders
  <2>3. Total(g, NumOrders) <= Total(f, NumOrders) + d
    <3>1. o \in 1 .. NumOrders /\ d \in Int /\ NumOrders \in Nat
      BY ExposureAssumption DEF Orders
    <3> QED BY <2>2, <3>1, TotalGrowsAtOne
  <2> QED BY <2>1, <2>3
<1> QED BY <1>1

LEMMA RiskFalls ==
  ASSUME BookTypeOK, BookTypeOK', \A o \in Orders : RiskOf'[o] <= RiskOf[o]
  PROVE  AtRisk' <= AtRisk
<1>1. ASSUME NEW f, NEW g, f = RiskOf, g = RiskOf' PROVE AtRisk' <= AtRisk
  <2>1. AtRisk = Total(f, NumOrders) /\ AtRisk' = Total(g, NumOrders)
    BY <1>1 DEF AtRisk, RiskOf
  <2>2. \A o \in 1 .. NumOrders : f[o] \in Int /\ g[o] \in Int /\ g[o] <= f[o]
    BY <1>1, RiskTyped, RiskTypedAfter DEF Orders
  <2>3. Total(g, NumOrders) <= Total(f, NumOrders)
    BY <2>2, TotalMonotone, ExposureAssumption
  <2> QED BY <2>1, <2>3
<1> QED BY <1>1

LEMMA ExposureGrowsAtOne ==
  ASSUME BookTypeOK, BookTypeOK', NEW m \in Markets, NEW o \in Orders, NEW d \in Nat,
         \A p \in Orders : HeldIn(m)'[p] <= HeldIn(m)[p] + (IF p = o THEN d ELSE 0)
  PROVE  ExposureByMarket'[m] <= ExposureByMarket[m] + d
<1>1. ASSUME NEW f, NEW g, f = HeldIn(m), g = HeldIn(m)'
      PROVE  ExposureByMarket'[m] <= ExposureByMarket[m] + d
  <2>1. ExposureByMarket[m] = Total(f, NumOrders) /\ ExposureByMarket'[m] = Total(g, NumOrders)
    BY <1>1 DEF ExposureByMarket, HeldIn
  <2>2. \A p \in 1 .. NumOrders :
           f[p] \in Int /\ g[p] \in Int /\ g[p] <= f[p] + (IF p = o THEN d ELSE 0)
    BY <1>1, ExposureTyped, RiskTypedAfter DEF Orders
  <2>3. Total(g, NumOrders) <= Total(f, NumOrders) + d
    <3>1. o \in 1 .. NumOrders /\ d \in Int /\ NumOrders \in Nat
      BY ExposureAssumption DEF Orders
    <3> QED BY <2>2, <3>1, TotalGrowsAtOne
  <2> QED BY <2>1, <2>3
<1> QED BY <1>1

LEMMA ExposureFalls ==
  ASSUME BookTypeOK, BookTypeOK', NEW m \in Markets, \A o \in Orders : HeldIn(m)'[o] <= HeldIn(m)[o]
  PROVE  ExposureByMarket'[m] <= ExposureByMarket[m]
<1>1. ASSUME NEW f, NEW g, f = HeldIn(m), g = HeldIn(m)'
      PROVE  ExposureByMarket'[m] <= ExposureByMarket[m]
  <2>1. ExposureByMarket[m] = Total(f, NumOrders) /\ ExposureByMarket'[m] = Total(g, NumOrders)
    BY <1>1 DEF ExposureByMarket, HeldIn
  <2>2. \A o \in 1 .. NumOrders : f[o] \in Int /\ g[o] \in Int /\ g[o] <= f[o]
    BY <1>1, ExposureTyped, RiskTypedAfter DEF Orders
  <2>3. Total(g, NumOrders) <= Total(f, NumOrders)
    BY <2>2, TotalMonotone, ExposureAssumption
  <2> QED BY <2>1, <2>3
<1> QED BY <1>1

\* The venue moves an order that is out: what it may lose and what it is listed with fall.
VenueMoves(o) ==
    /\ order[o].status = "resting" /\ resolved' = resolved
    /\ \E f \in order[o].fill..Size, s \in {"resting", "dead"} :
          /\ s = "dead" \/ f < Size
          /\ order' = [order EXCEPT ![o] = [status |-> s, fill |-> f]]

LEMMA VenueLowers ==
  ASSUME BookTypeOK, NEW o \in Orders, VenueMoves(o)
  PROVE  /\ \A p \in Orders : RiskOf'[p] <= RiskOf[p]
         /\ \A m : \A p \in Orders : HeldIn(m)'[p] <= HeldIn(m)[p]
         /\ \A p \in Orders : order'[p].status = order[p].status \/ order'[p].status \in {"resting", "dead"}
<1> USE ExposureAssumption
<1>1. PICK f \in order[o].fill..Size, s \in {"resting", "dead"} :
         /\ s = "dead" \/ f < Size
         /\ order' = [order EXCEPT ![o] = [status |-> s, fill |-> f]]
  BY DEF VenueMoves
<1>2. order[o].fill \in 0..Size /\ f \in 0..Size /\ order[o].fill <= f /\ f <= Size
  BY OrderTyped
<1>3. order'[o] = [status |-> s, fill |-> f] /\ \A p \in Orders : p # o => order'[p] = order[p]
  BY <1>1 DEF BookTypeOK
<1>4. order'[o].status = s /\ order'[o].fill = f /\ order[o].status = "resting" /\ resolved' = resolved
  BY <1>3 DEF VenueMoves
<1>5. order[o] # Unsent /\ order'[o] # Unsent
  BY <1>4 DEF Unsent
<1>6. RiskOf'[o] <= RiskOf[o]
  <2>1. CASE MarketOf[o] \in Range(resolved)
    BY <1>4, <2>1 DEF RiskOf
  <2>2. CASE MarketOf[o] \notin Range(resolved)
    <3>1. RiskOf[o] = Size
      BY <1>4, <1>5, <2>2 DEF RiskOf
    <3>2. RiskOf'[o] = IF s = "dead" THEN f ELSE Size
      BY <1>4, <1>5, <2>2 DEF RiskOf
    <3> QED BY <1>2, <3>1, <3>2
  <2> QED BY <2>1, <2>2
<1>7. ASSUME NEW m PROVE HeldIn(m)'[o] <= HeldIn(m)[o]
  <2>1. CASE MarketOf[o] # m
    BY <2>1 DEF HeldIn
  <2>2. CASE MarketOf[o] = m
    <3>1. HeldIn(m)[o] = Size
      BY <1>2, <1>4, <2>2 DEF HeldIn, Durable, OrderExposure, Reserved
    <3>2. CASE s = "dead"
      <4>1. HeldIn(m)'[o] = f
        BY <1>2, <1>4, <2>2, <3>2 DEF HeldIn, Durable, OrderExposure, Reserved
      <4> QED BY <1>2, <3>1, <4>1
    <3>3. CASE s = "resting"
      <4>1. HeldIn(m)'[o] = Size
        BY <1>2, <1>4, <2>2, <3>3 DEF HeldIn, Durable, OrderExposure, Reserved
      <4> QED BY <3>1, <4>1
    <3> QED BY <3>2, <3>3
  <2> QED BY <2>1, <2>2
<1>8. ASSUME NEW p \in Orders, p # o
      PROVE  /\ RiskOf'[p] = RiskOf[p] /\ \A m : HeldIn(m)'[p] = HeldIn(m)[p]
             /\ order'[p] = order[p]
  BY <1>3, <1>4, <1>8 DEF RiskOf, HeldIn, Durable, OrderExposure, Reserved
<1>9. ASSUME NEW p \in Orders, NEW m
      PROVE  RiskOf'[p] <= RiskOf[p] /\ HeldIn(m)'[p] <= HeldIn(m)[p]
  <2>1. CASE p = o
    BY <1>6, <1>7, <2>1
  <2>2. CASE p # o
    <3>1. RiskOf[p] \in Int /\ HeldIn(m)[p] \in Int
      BY RiskTyped, ExposureTyped DEF Orders
    <3> QED BY <1>8, <2>2, <3>1
  <2> QED BY <2>1, <2>2
<1> QED BY <1>4, <1>8, <1>9

\* An order that goes out for the first time is worth at most its size.
Sends(o) ==
    /\ order[o] = Unsent /\ resolved' = resolved
    /\ \E f \in 0..Size, s \in {"resting", "dead"} : order' = [order EXCEPT ![o] = [status |-> s, fill |-> f]]

LEMMA SendingRaises ==
  ASSUME BookTypeOK, NEW o \in Orders, Sends(o)
  PROVE  /\ \A p \in Orders : RiskOf'[p] <= RiskOf[p] + (IF p = o THEN Size ELSE 0)
         /\ \A p \in Orders :
              HeldIn(MarketOf[o])'[p] <= HeldIn(MarketOf[o])[p] + (IF p = o THEN Size ELSE 0)
         /\ \A m : m # MarketOf[o] => \A p \in Orders : HeldIn(m)'[p] <= HeldIn(m)[p]
         /\ \A p \in Orders : order'[p].status = order[p].status \/ order'[p].status \in {"resting", "dead"}
<1> USE ExposureAssumption
<1>1. PICK f \in 0..Size, s \in {"resting", "dead"} : order' = [order EXCEPT ![o] = [status |-> s, fill |-> f]]
  BY DEF Sends
<1>2. order'[o] = [status |-> s, fill |-> f] /\ \A p \in Orders : p # o => order'[p] = order[p]
  BY <1>1 DEF BookTypeOK
<1>3. order'[o].status = s /\ order'[o].fill = f /\ resolved' = resolved
  BY <1>2 DEF Sends
<1>4. RiskOf[o] = 0 /\ \A m : HeldIn(m)[o] = 0
  <2>1. order[o] = Unsent /\ order[o].status = "none"
    BY DEF Sends, Unsent
  <2> QED BY <2>1 DEF RiskOf, HeldIn, Durable
<1>5. RiskOf'[o] <= Size
  BY <1>3 DEF RiskOf
<1>6. ASSUME NEW m PROVE HeldIn(m)'[o] <= Size
  BY <1>3 DEF HeldIn, Durable, OrderExposure, Reserved
<1>7. ASSUME NEW m, m # MarketOf[o] PROVE HeldIn(m)'[o] = 0
  BY <1>7 DEF HeldIn
<1>8. ASSUME NEW p \in Orders, p # o
      PROVE  /\ RiskOf'[p] = RiskOf[p] /\ \A m : HeldIn(m)'[p] = HeldIn(m)[p]
             /\ order'[p] = order[p]
  BY <1>2, <1>3, <1>8 DEF RiskOf, HeldIn, Durable, OrderExposure, Reserved
<1>9. \A p \in Orders : RiskOf[p] \in Int /\ \A m : HeldIn(m)[p] \in Int
  BY RiskTyped, ExposureTyped DEF Orders
<1>10. ASSUME NEW p \in Orders
       PROVE  /\ RiskOf'[p] <= RiskOf[p] + (IF p = o THEN Size ELSE 0)
              /\ HeldIn(MarketOf[o])'[p] <= HeldIn(MarketOf[o])[p] + (IF p = o THEN Size ELSE 0)
  <2>1. CASE p = o
    BY <1>4, <1>5, <1>6, <2>1
  <2>2. CASE p # o
    BY <1>8, <1>9, <2>2
  <2> QED BY <2>1, <2>2
<1>11. ASSUME NEW m, m # MarketOf[o], NEW p \in Orders PROVE HeldIn(m)'[p] <= HeldIn(m)[p]
  <2>1. CASE p = o
    BY <1>4, <1>7, <1>11, <2>1
  <2>2. CASE p # o
    BY <1>8, <1>9, <2>2
  <2> QED BY <2>1, <2>2
<1> QED BY <1>3, <1>8, <1>10, <1>11

LEMMA ExposureTypedAfter ==
  ASSUME BookTypeOK' PROVE \A m \in Markets : ExposureByMarket'[m] \in Int
<1>1. ASSUME NEW m \in Markets, NEW g, g = HeldIn(m)' PROVE ExposureByMarket'[m] \in Int
  <2>1. ExposureByMarket'[m] = Total(g, NumOrders)
    BY <1>1 DEF ExposureByMarket, HeldIn
  <2>2. \A p \in 1 .. NumOrders : g[p] \in Int
    BY <1>1, RiskTypedAfter
  <2> QED BY <2>1, <2>2, TotalType, ExposureAssumption
<1> QED BY <1>1

\* The actions of the model that do so.
LEMMA VenueActionsMove ==
  ASSUME BookTypeOK, Covered, ~past.expired, NEW o \in Orders, VenueFills(o) \/ VenueKills(o)
  PROVE  VenueMoves(o)
<1> USE ExposureAssumption
<1>1. /\ order[o] \in [status : Statuses, fill : 0..Size]
      /\ order[o].fill \in 0..Size /\ order[o].status = "resting" /\ resolved' = resolved
  BY OrderTyped DEF VenueFills, VenueKills, Covered
<1>2. CASE VenueFills(o)
  <2>1. PICK f \in order[o].fill + 1..Size :
          order' = [order EXCEPT ![o] = [status |-> IF f = Size THEN "dead" ELSE @.status, fill |-> f]]
    BY <1>2 DEF VenueFills
  <2> DEFINE s == IF f = Size THEN "dead" ELSE "resting"
  <2>2. order' = [order EXCEPT ![o] = [status |-> s, fill |-> f]]
    BY <1>1, <2>1
  <2>3. f \in order[o].fill..Size /\ s \in {"resting", "dead"} /\ (s = "dead" \/ f < Size)
    BY <1>1
  <2> HIDE DEF s
  <2> QED BY <1>1, <2>2, <2>3 DEF VenueMoves
<1>3. CASE VenueKills(o)
  <2> DEFINE f == order[o].fill
  <2>1. order' = [order EXCEPT ![o].status = "dead"]
    BY <1>3 DEF VenueKills
  <2>2. [order[o] EXCEPT !.status = "dead"] = [status |-> "dead", fill |-> f]
    BY <1>1
  <2>3. order' = [order EXCEPT ![o] = [status |-> "dead", fill |-> f]]
    BY <2>1, <2>2
  <2>4. f \in order[o].fill..Size
    BY <1>1
  <2> QED BY <1>1, <2>3, <2>4 DEF VenueMoves
<1> QED BY <1>2, <1>3

LEMMA SubmitsSend == ASSUME BookTypeOK, NEW o \in Orders, StepSubmits(o) PROVE Sends(o)
<1>1. PICK f \in 0..Size, known \in BOOLEAN :
         order' = [order EXCEPT ![o] = [status |-> IF f = Size THEN "dead" ELSE "resting", fill |-> f]]
  BY DEF StepSubmits
<1> DEFINE s == IF f = Size THEN "dead" ELSE "resting"
<1>2. order' = [order EXCEPT ![o] = [status |-> s, fill |-> f]] /\ s \in {"resting", "dead"}
  BY <1>1
<1>3. order[o] = Unsent /\ resolved' = resolved
  BY DEF StepSubmits, MayEnter
<1> HIDE DEF s
<1> QED BY <1>2, <1>3 DEF Sends

LEMMA ThrowsSend == ASSUME BookTypeOK, NEW o \in Orders, StepThrowsAfterSend(o) PROVE Sends(o)
<1>1. order[o] = Unsent /\ resolved' = resolved
  BY DEF StepThrowsAfterSend, MayEnter
<1>2. order' = [order EXCEPT ![o].status = "resting"]
  BY DEF StepThrowsAfterSend
<1>3. [order[o] EXCEPT !.status = "resting"] = [status |-> "resting", fill |-> 0]
  BY <1>1 DEF Unsent
<1>4. order' = [order EXCEPT ![o] = [status |-> "resting", fill |-> 0]]
  BY <1>2, <1>3
<1>5. 0 \in 0..Size
  BY ExposureAssumption
<1> QED BY <1>1, <1>4, <1>5 DEF Sends

\* A step that moves no order and frees no market's cash but a resolved one.
LEMMA CoveredKept ==
  ASSUME Covered, order' = order, resolved' = resolved,
         \A m \in Markets : m \notin Range(resolved) => tracked'[m] = tracked[m],
         /\ past'.expired = past.expired /\ (~past'.blind => ~past.blind)
         /\ past'.missed = past.missed /\ book'.baselined = book.baselined
  PROVE  Covered'
<1>1. ExposureByMarket' = ExposureByMarket
  BY DEF ExposureByMarket, Durable, OrderExposure, Reserved
<1> QED BY <1>1 DEF Covered

LEMMA CoveredStep ==
  ASSUME BookTypeOK, BookTypeOK', LoadsBeforePasses, Covered, [BookNext]_bookVars PROVE Covered'
<1> USE ExposureAssumption
<1>1. /\ book \in [booked : [Orders -> Nat], baselined : BOOLEAN, sawStep : BOOLEAN]
      /\ loop \in Loops /\ past \in Pasts /\ tracked \in [Markets -> Nat]
  BY DEF BookTypeOK, Loops, Pasts
<1>2. CASE UNCHANGED bookVars
  BY <1>2, CoveredKept DEF bookVars
<1>3. CASE SyncLoads
  <2>1. order' = order /\ resolved' = resolved /\ tracked' = ExposureByMarket
    BY <1>3 DEF SyncLoads
  <2>2. ExposureByMarket' = ExposureByMarket
    BY <2>1 DEF ExposureByMarket, Durable, OrderExposure, Reserved
  <2>3. past'.expired = past.expired
    BY <1>1, <1>3 DEF SyncLoads, Pasts
  <2>4. \A m \in Markets : ExposureByMarket[m] \in Nat
    BY ExposureTyped
  <2> QED BY <2>1, <2>2, <2>3, <2>4 DEF Covered
<1>4. CASE SyncFails
  <2>1. past' = [past EXCEPT !.failed = @ + 1, !.blind = @ \/ ~book.baselined \/ past.missed]
    BY <1>4 DEF SyncFails
  <2>2. past'.expired = past.expired /\ past'.missed = past.missed /\ (~past'.blind => ~past.blind)
    BY <1>1, <2>1 DEF Pasts
  <2>3. UNCHANGED <<order, resolved, tracked, book>>
    BY <1>4 DEF SyncFails
  <2> QED BY <2>2, <2>3, CoveredKept
<1>5. CASE SettlementsFreed
  <2>1. Recent \subseteq Range(resolved)
    <3>1. resolved \in Seq(Markets) /\ Len(resolved) \in Nat
      BY DEF BookTypeOK
    <3> DEFINE first == IF Len(resolved) > Window THEN Len(resolved) - Window + 1 ELSE 1
    <3>2. first \in Nat /\ first >= 1
      BY <3>1
    <3>3. \A i \in first .. Len(resolved) : resolved[i] \in Range(resolved) /\ i \in 1 .. Len(resolved)
      BY <3>1, <3>2 DEF Range
    <3>4. Recent = Range(SubSeq(resolved, first, Len(resolved)))
      BY DEF Recent
    <3> HIDE DEF first
    <3>5. SubSeq(resolved, first, Len(resolved)) \in Seq(Range(resolved))
      BY <3>1, <3>2, <3>3, SubSeqProperties
    <3> DEFINE s == SubSeq(resolved, first, Len(resolved))
    <3>6. \A i \in DOMAIN s : s[i] \in Range(resolved)
      BY <3>5
    <3> HIDE DEF s
    <3>7. Range(s) \subseteq Range(resolved)
      BY <3>6 DEF Range
    <3> QED BY <3>4, <3>7 DEF s
  <2>2. \A m \in Markets : m \notin Range(resolved) => tracked'[m] = tracked[m]
    BY <1>5, <2>1 DEF SettlementsFreed
  <2>3. UNCHANGED <<order, resolved, book, past>>
    BY <1>5 DEF SettlementsFreed
  <2> QED BY <2>2, <2>3, CoveredKept
<1>6. CASE SettlementsUnknown \/ PortfolioFull \/ PassSelects \/ StepDeclines \/ StepThrows
  <2>1. UNCHANGED <<order, resolved, tracked>>
    BY <1>6 DEF SettlementsUnknown, PortfolioFull, PassSelects, StepDeclines, StepThrows
  <2>2. /\ past'.expired = past.expired /\ past'.missed = past.missed /\ past'.blind = past.blind
        /\ book'.baselined = book.baselined
    BY <1>1, <1>6 DEF SettlementsUnknown, PortfolioFull, PassSelects, StepDeclines, StepThrows, Pasts
  <2> QED BY <2>1, <2>2, CoveredKept
<1>7. CASE Restart
  <2>1. order' = order /\ ~book'.baselined
    BY <1>7 DEF Restart, FreshBook
  <2>2. past'.expired = past.expired
    BY <1>1, <1>7 DEF Restart, Pasts
  <2> QED BY <2>1, <2>2 DEF Covered
<1>8. ASSUME NEW o \in Orders, ReservationExpires(o) PROVE Covered'
  <2>1. past'.expired
    BY <1>1, <1>8 DEF ReservationExpires, Pasts
  <2> QED BY <2>1 DEF Covered
<1>9. ASSUME NEW o \in Orders, VenueMoves(o), UNCHANGED <<tracked, book, past>> PROVE Covered'
  <2>1. /\ \A m : \A p \in Orders : HeldIn(m)'[p] <= HeldIn(m)[p]
        /\ \A p \in Orders : order'[p].status = order[p].status \/ order'[p].status \in {"resting", "dead"}
    BY <1>9, VenueLowers
  <2>2. \A m \in Markets : ExposureByMarket'[m] <= ExposureByMarket[m]
    BY <2>1, ExposureFalls
  <2>3. \A m \in Markets : ExposureByMarket[m] \in Nat /\ ExposureByMarket'[m] \in Int /\ tracked[m] \in Nat
    BY <1>1, ExposureTyped, ExposureTypedAfter
  <2>4. resolved' = resolved
    BY <1>9 DEF VenueMoves
  <2> QED BY <1>9, <2>1, <2>2, <2>3, <2>4 DEF Covered
<1>10. ASSUME NEW o \in Orders, VenueFills(o) \/ VenueKills(o) PROVE Covered'
  <2>1. CASE past.expired
    BY <1>10, <2>1 DEF VenueFills, VenueKills, Covered
  <2>2. CASE ~past.expired
    <3>1. VenueMoves(o)
      BY <1>10, <2>2, VenueActionsMove
    <3> QED BY <1>9, <1>10, <3>1 DEF VenueFills, VenueKills
  <2> QED BY <2>1, <2>2
<1>11. ASSUME NEW o \in Orders, StepSubmits(o) PROVE Covered'
  <2>1. Sends(o)
    BY <1>11, SubmitsSend
  <2>2. /\ \A p \in Orders :
             HeldIn(MarketOf[o])'[p] <= HeldIn(MarketOf[o])[p] + (IF p = o THEN Size ELSE 0)
        /\ \A m : m # MarketOf[o] => \A p \in Orders : HeldIn(m)'[p] <= HeldIn(m)[p]
        /\ \A p \in Orders : order'[p].status = order[p].status \/ order'[p].status \in {"resting", "dead"}
    BY <2>1, SendingRaises
  <2>3. MarketOf[o] \in Markets /\ Size \in Nat
    OBVIOUS
  <2>4. ExposureByMarket'[MarketOf[o]] <= ExposureByMarket[MarketOf[o]] + Size
    BY <2>2, <2>3, ExposureGrowsAtOne
  <2>5. \A m \in Markets : m # MarketOf[o] => ExposureByMarket'[m] <= ExposureByMarket[m]
    BY <2>2, ExposureFalls
  <2>6. \A m \in Markets : ExposureByMarket[m] \in Nat /\ ExposureByMarket'[m] \in Int /\ tracked[m] \in Nat
    BY <1>1, ExposureTyped, ExposureTypedAfter
  <2>7. \A m \in Markets : tracked'[m] = IF m = MarketOf[o] THEN tracked[m] + Size ELSE tracked[m]
    BY <1>1, <1>11 DEF StepSubmits
  <2>8. resolved' = resolved /\ past' = past
    BY <1>11 DEF StepSubmits
  <2>9. book'.baselined = book.baselined
    BY <1>11, SubmitEffect
  <2>10. ASSUME NEW m \in Markets, ExposureByMarket[m] <= tracked[m] PROVE ExposureByMarket'[m] <= tracked'[m]
    BY <2>4, <2>5, <2>6, <2>7, <2>10
  <2> QED BY <2>2, <2>8, <2>9, <2>10 DEF Covered
<1>12. ASSUME NEW o \in Orders, StepThrowsAfterSend(o) PROVE Covered'
  <2>1. past'.missed /\ past'.expired = past.expired
    BY <1>1, <1>12 DEF StepThrowsAfterSend, Pasts
  <2>2. Sends(o)
    BY <1>12, ThrowsSend
  <2> QED BY <2>1, <2>2, SendingRaises DEF Covered
<1>13. ASSUME NEW m \in Markets, MarketResolves(m) PROVE Covered'
  <2>1. UNCHANGED <<order, tracked, book, past>> /\ resolved' = Append(resolved, m)
    BY <1>13 DEF MarketResolves
  <2>2. Range(resolved) \subseteq Range(resolved')
    <3>1. resolved \in Seq(Markets)
      BY DEF BookTypeOK
    <3> QED BY <2>1, <3>1 DEF Range
  <2>3. ExposureByMarket' = ExposureByMarket
    BY <2>1 DEF ExposureByMarket, Durable, OrderExposure, Reserved
  <2> QED BY <2>1, <2>2, <2>3 DEF Covered
<1> QED
  BY <1>2, <1>3, <1>4, <1>5, <1>6, <1>7, <1>8, <1>10, <1>11, <1>12, <1>13 DEF BookNext

\* What the history says of an expiry and a failed load, no step takes back.
LEMMA PastKept ==
  ASSUME BookTypeOK, [BookNext]_bookVars, ~past'.expired, ~past'.blind
  PROVE  ~past.expired /\ ~past.blind
<1>1. past \in Pasts
  BY DEF BookTypeOK, Pasts
<1>2. CASE \/ UNCHANGED bookVars \/ SettlementsFreed \/ StepDeclines \/ StepThrows
           \/ \E o \in Orders : VenueFills(o) \/ VenueKills(o) \/ StepSubmits(o)
           \/ \E m \in Markets : MarketResolves(m)
  <2>1. past' = past
    BY <1>2 DEF bookVars, SettlementsFreed, StepDeclines, StepThrows, VenueFills, VenueKills,
                StepSubmits, MarketResolves
  <2> QED BY <2>1
<1>3. CASE SyncLoads
  BY <1>1, <1>3 DEF SyncLoads, Pasts
<1>4. CASE SyncFails
  <2>1. past' = [past EXCEPT !.failed = @ + 1, !.blind = @ \/ ~book.baselined \/ past.missed]
    BY <1>4 DEF SyncFails
  <2>2. past'.expired = past.expired /\ (~past'.blind => ~past.blind)
    BY <1>1, <2>1 DEF Pasts
  <2> QED BY <2>2
<1>5. CASE SettlementsUnknown \/ PortfolioFull \/ PassSelects
  <2>1. past'.expired = past.expired /\ past'.blind = past.blind
    BY <1>1, <1>5 DEF SettlementsUnknown, PortfolioFull, PassSelects, Pasts
  <2> QED BY <2>1
<1>6. CASE Restart
  <2>1. past'.expired = past.expired /\ past'.blind = past.blind
    BY <1>1, <1>6 DEF Restart, Pasts
  <2> QED BY <2>1
<1>7. ASSUME NEW o \in Orders, ReservationExpires(o) PROVE past'.expired
  BY <1>1, <1>7 DEF ReservationExpires, Pasts
<1>8. ASSUME NEW o \in Orders, StepThrowsAfterSend(o) PROVE past'.expired = past.expired /\ past'.blind = past.blind
  BY <1>1, <1>8 DEF StepThrowsAfterSend, Pasts
<1> QED BY <1>2, <1>3, <1>4, <1>5, <1>6, <1>7, <1>8 DEF BookNext

LEMMA CapStep ==
  ASSUME BookTypeOK, BookTypeOK', LoadsBeforePasses, CountedIsBooked, Covered, CapRespected,
         [BookNext]_bookVars
  PROVE  CapRespected'
<1> USE ExposureAssumption
<1>1. AtRisk \in Int /\ CashAtRisk(tracked) \in Int
  BY RiskTyped
<1>2. AtRisk' \in Int
  BY RiskTypedAfter
<1>3. SUFFICES ASSUME ~past'.expired, ~past'.blind PROVE AtRisk' <= CapitalCap
  BY DEF CapRespected
<1>4. ~past.expired /\ ~past.blind
  BY <1>3, PastKept
<1>5. AtRisk <= CapitalCap
  BY <1>4 DEF CapRespected
<1>6. CASE order' = order /\ resolved' = resolved
  <2>1. AtRisk' = AtRisk
    BY <1>6 DEF AtRisk
  <2> QED BY <1>5, <2>1
<1>7. ASSUME NEW o \in Orders, VenueFills(o) \/ VenueKills(o) PROVE AtRisk' <= CapitalCap
  <2>1. \A p \in Orders : RiskOf'[p] <= RiskOf[p]
    BY <1>4, <1>7, VenueActionsMove, VenueLowers
  <2>2. AtRisk' <= AtRisk
    BY <2>1, RiskFalls
  <2> QED BY <1>1, <1>2, <1>5, <2>2
<1>8. ASSUME NEW o \in Orders, ReservationExpires(o) PROVE AtRisk' <= CapitalCap
  <2>1. past'.expired
    BY <1>8 DEF ReservationExpires, BookTypeOK
  <2> QED BY <1>3, <2>1
<1>9. ASSUME NEW o \in Orders, Sends(o), MayEnter(o) PROVE AtRisk' <= CapitalCap
  <2>1. \A p \in Orders : RiskOf'[p] <= RiskOf[p] + (IF p = o THEN Size ELSE 0)
    BY <1>9, SendingRaises
  <2>2. Size \in Nat
    OBVIOUS
  <2>3. AtRisk' <= AtRisk + Size
    BY <2>1, <2>2, RiskGrowsAtOne
  <2>4. loop.pc = "pass" /\ CashAtRisk(tracked) + Size <= CapitalCap
    BY <1>9 DEF MayEnter
  <2>5. book.baselined /\ ~past.missed
    BY <1>4, <2>4 DEF LoadsBeforePasses
  <2>6. AtRisk <= CashAtRisk(tracked)
    BY <1>4, <2>5, RiskIsTracked
  <2> QED BY <1>1, <1>2, <2>2, <2>3, <2>4, <2>6
<1>10. ASSUME NEW m \in Markets, MarketResolves(m) PROVE AtRisk' <= CapitalCap
  <2>1. order' = order /\ Range(resolved) \subseteq Range(resolved')
    <3>1. resolved \in Seq(Markets)
      BY DEF BookTypeOK
    <3> QED BY <1>10, <3>1 DEF MarketResolves, Range
  <2>2. ASSUME NEW p \in Orders PROVE RiskOf'[p] <= RiskOf[p]
    <3>1. order[p].fill \in Nat
      BY OrderTyped
    <3> QED BY <2>1, <3>1 DEF RiskOf
  <2>3. AtRisk' <= AtRisk
    BY <2>2, RiskFalls
  <2> QED BY <1>1, <1>2, <1>5, <2>3
<1>11. ASSUME NEW o \in Orders, StepSubmits(o) \/ StepThrowsAfterSend(o) PROVE AtRisk' <= CapitalCap
  <2>1. Sends(o) /\ MayEnter(o)
    BY <1>11, SubmitsSend, ThrowsSend DEF StepSubmits, StepThrowsAfterSend
  <2> QED BY <1>9, <2>1
<1>12. CASE \/ UNCHANGED bookVars \/ SyncLoads \/ SyncFails \/ SettlementsFreed \/ SettlementsUnknown
            \/ PortfolioFull \/ PassSelects \/ StepDeclines \/ StepThrows \/ Restart
  <2>1. order' = order /\ resolved' = resolved
    BY <1>12 DEF bookVars, SyncLoads, SyncFails, SettlementsFreed, SettlementsUnknown, PortfolioFull,
                 PassSelects, StepDeclines, StepThrows, Restart
  <2> QED BY <1>6, <2>1
<1> QED BY <1>7, <1>8, <1>10, <1>11, <1>12 DEF BookNext

\* Whatever fills late, is submitted with an unknown outcome or lost sight of by a
\* throw, and whenever the process restarts, the cash at risk stays within the cap.
THEOREM CapIsRespected == BookSpec => []CapRespected
<1>1. BookInit => LoadsBeforePasses /\ CountedIsBooked
  BY ExposureAssumption DEF BookInit, LoadsBeforePasses, CountedIsBooked, Unsent, FreshBook, Top
<1>2. BookInit => Covered
  BY DEF BookInit, Covered, FreshBook, Unsent
<1>3. BookInit => CapRespected
  <2>1. SUFFICES ASSUME BookInit PROVE AtRisk = 0
    BY <2>1, ExposureAssumption DEF CapRespected
  <2>2. \A o \in 1 .. NumOrders : RiskOf[o] = 0
    BY <2>1 DEF BookInit, RiskOf, Orders
  <2>3. AtRisk = Total(RiskOf, NumOrders)
    BY DEF AtRisk, RiskOf
  <2> QED BY <2>2, <2>3, TotalOfZeros, ExposureAssumption
<1> QED BY <1>1, <1>2, <1>3, BookTyped, LoadsStep, CountedStep, CoveredStep, CapStep, PTL DEF BookSpec
=============================================================================

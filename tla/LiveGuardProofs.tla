-------------------------- MODULE LiveGuardProofs ---------------------------
(***************************************************************************)
(* What the operators of a trading process may rely on, for any number of  *)
(* markets, permits, failures and operator commands, and any losses.       *)
(***************************************************************************)
EXTENDS LiveGuard, SequenceTheorems, TLAPS

(***************************************************************************)
(* Type correctness, one lemma for each part of the state                  *)
(***************************************************************************)

LEMMA InitTyped == GuardInit => GuardTypeOK
  BY LiveGuardAssumption DEF GuardInit, GuardTypeOK, RowTyped, WatcherTyped, PassTyped,
     ReservationsTyped, FreshWatcher, Idle, RuntimeMode, Counters

\* The row of live_guard_state and the commands of the operators.
LEMMA RowStep == ASSUME GuardTypeOK, [GuardNext]_guardVars PROVE RowTyped'
<1> RowTyped
  BY DEF GuardTypeOK
<1>1. CASE UNCHANGED <<guard, why, halt, reset, change>>
  BY <1>1 DEF RowTyped
<1>2. CASE ChangeReads
  BY <1>2 DEF ChangeReads, RowTyped, RuntimeMode
<1>3. CASE ChangeWrites
  BY <1>3 DEF ChangeWrites, RowTyped, RuntimeMode
<1>4. CASE HaltSaves \/ HaltExits \/ ResetLoads
  BY <1>4 DEF HaltSaves, HaltExits, ResetLoads, RowTyped
<1>5. ASSUME NEW l \in Losses, ResetSaves(l) PROVE RowTyped'
  BY <1>5 DEF ResetSaves, RowTyped
<1>6. ASSUME NEW l \in Losses, SaveLatch(l) PROVE RowTyped'
  BY <1>6 DEF SaveLatch, LossGuardHalts, RowTyped
<1> QED
  BY <1>1, <1>2, <1>3, <1>4, <1>5, <1>6 DEF GuardNext, guardVars, PollReads, PollApplies, PollFails,
     Start, Crash, PassStarts, NoTrade, Reserve, Abort, LoadLatch, Submit, Refused, Throws, Expire

\* The mode watcher and its polls.
LEMMA WatcherStep == ASSUME GuardTypeOK, [GuardNext]_guardVars PROVE WatcherTyped'
<1> WatcherTyped
  BY DEF GuardTypeOK
<1>1. CASE UNCHANGED <<watcher, polled>>
  BY <1>1 DEF WatcherTyped
<1>2. CASE PollReads
  BY <1>2 DEF PollReads, GuardTypeOK, RowTyped, WatcherTyped
<1>3. ASSUME NEW m \in RuntimeMode, PollApplies(m) PROVE WatcherTyped'
  BY <1>3, LiveGuardAssumption DEF PollApplies, WatcherTyped
<1>4. CASE PollFails
  BY <1>4, LiveGuardAssumption DEF PollFails, WatcherTyped, RuntimeMode
<1>5. CASE Stopped
  BY <1>5, LiveGuardAssumption DEF Stopped, FreshWatcher, WatcherTyped, RuntimeMode
<1> QED
  BY <1>1, <1>2, <1>3, <1>4, <1>5 DEF GuardNext, guardVars, ChangeReads, ChangeWrites, HaltSaves,
     HaltExits, ResetLoads, ResetSaves, Start, Crash, PassStarts, NoTrade, Reserve, Abort,
     LoadLatch, SaveLatch, Submit, Refused, Throws, Expire

Passes == [pc : {"top", "market", "reserved", "loaded", "clear"},
           todo : 0..Universe, permit : 0..MaxPermits, previous : BOOLEAN]

\* A pass that is over, and one that takes the next market.
LEMMA FreshPass ==
  /\ Idle \in Passes /\ Idle.pc = "top" /\ Idle.todo = 0
  /\ \A n \in 1..Universe : Taking(n) \in Passes /\ Taking(n).pc = "market" /\ Taking(n).todo = n
  BY LiveGuardAssumption DEF Idle, Taking, Passes

\* NextMarket goes on to the next market of the pass, or ends it.
LEMMA NextMarketTyped ==
  ASSUME PassTyped, NEW todo \in 0..Universe, NextMarket(todo)
  PROVE  PassTyped' /\ pass'.pc \in {"top", "market"} /\ pass'.todo = todo
<1>1. agent' \in [up : BOOLEAN, admitted : BOOLEAN, warm : BOOLEAN]
  BY DEF NextMarket, PassTyped
<1>2. CASE todo = 0
  BY <1>1, <1>2, FreshPass DEF NextMarket, PassTyped, Passes
<1>3. CASE todo # 0
  <2>1. todo \in 1..Universe
    BY <1>3, LiveGuardAssumption
  <2> QED BY <1>1, <1>3, <2>1, FreshPass DEF NextMarket, PassTyped, Passes
<1> QED BY <1>2, <1>3

\* The process and its pass.
LEMMA PassStep == ASSUME GuardTypeOK, [GuardNext]_guardVars PROVE PassTyped'
<1> PassTyped /\ pass.todo \in 0..Universe
  BY DEF GuardTypeOK, PassTyped
<1>1. CASE UNCHANGED <<agent, pass>>
  BY <1>1 DEF PassTyped
<1>2. CASE Stopped
  BY <1>2, FreshPass DEF Stopped, PassTyped, Passes
<1>3. CASE Start
  BY <1>3, Zenon DEF Start, PassTyped
<1>4. CASE PassStarts
  <2>1. PICK n \in 1..Universe : pass' = Taking(n)
    <3>1. PICK n \in 1..(IF agent.warm /\ MaxSelected < Universe THEN MaxSelected ELSE Universe) :
              pass' = Taking(n)
      BY <1>4, Zenon DEF PassStarts
    <3>2. n \in 1..Universe
      BY LiveGuardAssumption
    <3> QED BY <3>1, <3>2
  <2>2. agent' = agent
    BY <1>4 DEF PassStarts
  <2> QED BY <2>1, <2>2, FreshPass, LiveGuardAssumption DEF PassTyped, Passes
<1>5. CASE NextMarket(pass.todo)
  BY <1>5, NextMarketTyped
<1>6. CASE NoTrade
  <2>1. pass.todo - 1 \in 0..Universe
    BY <1>6, LiveGuardAssumption DEF NoTrade, PassTyped
  <2> QED BY <1>6, <2>1, NextMarketTyped DEF NoTrade
<1>7. CASE Reserve
  <2>1. pass.todo - 1 \in 0..Universe /\ Len(res) + 1 \in 0..MaxPermits
    BY <1>7, LiveGuardAssumption DEF Reserve, PassTyped, GuardTypeOK, ReservationsTyped
  <2> QED BY <1>7, <2>1 DEF Reserve, PassTyped
<1>8. CASE LoadLatch
  BY <1>8 DEF LoadLatch, PassTyped, GuardTypeOK, RowTyped
<1>9. ASSUME NEW l \in Losses, SaveLatch(l) PROVE PassTyped'
  <2>1. CASE pass' = [pass EXCEPT !.pc = "clear"] /\ UNCHANGED agent
    BY <2>1 DEF PassTyped
  <2> QED BY <1>5, <1>9, <2>1 DEF SaveLatch
<1>10. CASE Throws
  BY <1>10, FreshPass DEF Throws, PassTyped, Passes
<1> QED
  BY <1>1, <1>2, <1>3, <1>4, <1>5, <1>6, <1>7, <1>8, <1>9, <1>10 DEF GuardNext, guardVars,
     PollReads, PollApplies, PollFails, ChangeReads, ChangeWrites, HaltSaves, HaltExits, ResetLoads,
     ResetSaves, Crash, Abort, Submit, Refused, Expire

\* GivenBack settles one reservation, or fails and leaves them all.
LEMMA GivenBackTyped ==
  ASSUME res \in Seq({"held", "settled"}), NEW r \in 1..Len(res), GivenBack(r)
  PROVE  res' \in Seq({"held", "settled"}) /\ Len(res') = Len(res)
  BY ExceptSeq DEF GivenBack

\* The reservations, and the permit a pass holds.
LEMMA ReservationsStep == ASSUME GuardTypeOK, [GuardNext]_guardVars PROVE ReservationsTyped'
<1>0. ReservationsTyped /\ PassTyped /\ pass.todo \in 0..Universe
  BY DEF GuardTypeOK, PassTyped
<1>1. CASE UNCHANGED <<pass, res>>
  BY <1>0, <1>1 DEF ReservationsTyped
<1>2. CASE pass' = Idle /\ UNCHANGED res
  BY <1>0, <1>2 DEF Idle, ReservationsTyped
<1>3. CASE PassStarts
  BY <1>0, <1>3 DEF PassStarts, Taking, ReservationsTyped
<1>4. ASSUME NEW todo \in 0..Universe, NextMarket(todo), pass.pc # "market", 
             res' \in Seq({"held", "settled"}), Len(res') = Len(res)
      PROVE  ReservationsTyped'
  BY <1>0, <1>4, NextMarketTyped DEF ReservationsTyped
<1>5. CASE NoTrade
  <2>1. pass.todo - 1 \in 0..Universe
    BY <1>0, <1>5, LiveGuardAssumption DEF NoTrade, PassTyped
  <2> QED BY <1>0, <1>5, <2>1, NextMarketTyped DEF NoTrade, ReservationsTyped
<1>6. CASE Reserve
  <2>1. res' \in Seq({"held", "settled"}) /\ Len(res') = Len(res) + 1
    BY <1>0, <1>6 DEF Reserve, ReservationsTyped
  <2>2. pass'.permit = Len(res) + 1
    BY <1>0, <1>6 DEF Reserve, PassTyped
  <2> QED BY <1>0, <1>6, <2>1, <2>2, LiveGuardAssumption DEF Reserve, ReservationsTyped
<1>7. CASE Abort \/ Refused
  BY <1>0, <1>4, <1>7, GivenBackTyped DEF Abort, Refused, ReservationsTyped
<1>8. CASE LoadLatch
  <2>1. pass'.permit = pass.permit
    BY <1>0, <1>8 DEF LoadLatch, PassTyped
  <2> QED BY <1>0, <1>8, <2>1 DEF LoadLatch, ReservationsTyped
<1>9. ASSUME NEW l \in Losses, SaveLatch(l) PROVE ReservationsTyped'
  <2>1. CASE pass' = [pass EXCEPT !.pc = "clear"] /\ UNCHANGED res
    <3>1. pass'.permit = pass.permit
      BY <1>0, <2>1 DEF PassTyped
    <3> QED BY <1>0, <1>9, <2>1, <3>1 DEF SaveLatch, ReservationsTyped
  <2>2. CASE GivenBack(pass.permit) /\ NextMarket(pass.todo)
    BY <1>0, <1>4, <1>9, <2>2, GivenBackTyped DEF SaveLatch, ReservationsTyped
  <2> QED BY <1>9, <2>1, <2>2 DEF SaveLatch
<1>10. CASE Submit
  <2>1. res' \in Seq({"held", "settled"}) /\ Len(res') = Len(res)
    BY <1>0, <1>10, ExceptSeq DEF Submit, ReservationsTyped
  <2> QED BY <1>0, <1>4, <1>10, <2>1 DEF Submit
<1>11. ASSUME NEW r \in DOMAIN res, Expire(r) PROVE ReservationsTyped'
  <2>1. res' \in Seq({"held", "settled"}) /\ Len(res') = Len(res)
    BY <1>0, <1>11, ExceptSeq DEF Expire, ReservationsTyped
  <2> QED BY <1>0, <1>11, <2>1 DEF Expire, ReservationsTyped
<1> QED
  BY <1>1, <1>2, <1>3, <1>5, <1>6, <1>7, <1>8, <1>9, <1>10, <1>11 DEF GuardNext, guardVars,
     PollReads, PollApplies, PollFails, ChangeReads, ChangeWrites, HaltSaves, HaltExits, Stopped,
     ResetLoads, ResetSaves, Start, Crash, Throws

\* The counters of what happened so far, one field at a time.
WithLag(c, n) == [c EXCEPT !.lag = n]
WithLeft(c, n) == [c EXCEPT !.left = n]
WithTraded(c, b) == [c EXCEPT !.traded = b]
WithAfterHalt(c, n) == [c EXCEPT !.afterHalt = n]

\* A counter that is set leaves the others alone.
LEMMA WithLagFields ==
  \A c \in Counters, v \in Nat :
     /\ WithLag(c, v) \in Counters
     /\ WithLag(c, v).lag = v /\ WithLag(c, v).left = c.left
     /\ WithLag(c, v).traded = c.traded /\ WithLag(c, v).afterHalt = c.afterHalt
  BY DEF Counters, WithLag

LEMMA WithLeftFields ==
  \A c \in Counters, v \in Nat :
     /\ WithLeft(c, v) \in Counters
     /\ WithLeft(c, v).lag = c.lag /\ WithLeft(c, v).left = v
     /\ WithLeft(c, v).traded = c.traded /\ WithLeft(c, v).afterHalt = c.afterHalt
  BY DEF Counters, WithLeft

LEMMA WithTradedFields ==
  \A c \in Counters, v \in BOOLEAN :
     /\ WithTraded(c, v) \in Counters
     /\ WithTraded(c, v).lag = c.lag /\ WithTraded(c, v).left = c.left
     /\ WithTraded(c, v).traded = v /\ WithTraded(c, v).afterHalt = c.afterHalt
  BY DEF Counters, WithTraded

LEMMA WithAfterHaltFields ==
  \A c \in Counters, v \in Nat :
     /\ WithAfterHalt(c, v) \in Counters
     /\ WithAfterHalt(c, v).lag = c.lag /\ WithAfterHalt(c, v).left = c.left
     /\ WithAfterHalt(c, v).traded = c.traded /\ WithAfterHalt(c, v).afterHalt = v
  BY DEF Counters, WithAfterHalt

\* What each step that writes several counters writes.
LEMMA CounterSteps ==
  ASSUME spent \in Counters, pass.todo \in Nat
  PROVE  /\ Start => /\ spent' \in Counters /\ spent'.lag = 0 /\ spent'.left = 0
                     /\ spent'.traded = FALSE /\ spent'.afterHalt = spent.afterHalt
         /\ Narrowed => /\ spent' \in Counters /\ spent'.traded = spent.traded
                        /\ spent'.afterHalt = spent.afterHalt
                        /\ watcher'.mode = "LIVE" => spent'.lag = 0
                        /\ watcher'.mode # "LIVE" => spent'.lag = spent.lag
                        /\ watcher'.mode # "LIVE" /\ watcher.mode = "LIVE" => spent'.left = pass.todo
                        /\ watcher'.mode # "LIVE" /\ watcher.mode # "LIVE" => spent'.left = spent.left
                        /\ watcher'.mode = "LIVE" => spent'.left = 0
         /\ Submit => /\ spent' \in Counters /\ spent'.traded = TRUE
                      /\ spent'.lag = spent.lag /\ spent'.left = spent.left
                      /\ spent'.afterHalt = IF why = "operator" THEN spent.afterHalt + 1
                                            ELSE spent.afterHalt
         /\ HaltSaves => /\ spent' \in Counters /\ spent'.traded = spent.traded
                         /\ spent'.lag = spent.lag /\ spent'.left = spent.left
                         /\ spent'.afterHalt = 0
<1>1. ASSUME Start
      PROVE  /\ spent' \in Counters /\ spent'.lag = 0 /\ spent'.left = 0
             /\ spent'.traded = FALSE /\ spent'.afterHalt = spent.afterHalt
  <2> DEFINE c == WithLag(spent, 0)
  <2> DEFINE d == WithLeft(c, 0)
  <2>1. spent' = WithTraded(d, FALSE)
    BY <1>1, Zenon DEF Start, WithLag, WithLeft, WithTraded
  <2>2. c \in Counters /\ c.lag = 0 /\ c.afterHalt = spent.afterHalt
    BY WithLagFields
  <2> HIDE DEF c
  <2>3. d \in Counters /\ d.lag = 0 /\ d.left = 0 /\ d.afterHalt = spent.afterHalt
    BY <2>2, WithLeftFields
  <2> HIDE DEF d
  <2> QED BY <2>1, <2>3, WithTradedFields
<1>2. ASSUME Narrowed
      PROVE  /\ spent' \in Counters /\ spent'.traded = spent.traded
             /\ spent'.afterHalt = spent.afterHalt
             /\ watcher'.mode = "LIVE" => spent'.lag = 0
             /\ watcher'.mode # "LIVE" => spent'.lag = spent.lag
             /\ watcher'.mode # "LIVE" /\ watcher.mode = "LIVE" => spent'.left = pass.todo
             /\ watcher'.mode # "LIVE" /\ watcher.mode # "LIVE" => spent'.left = spent.left
             /\ watcher'.mode = "LIVE" => spent'.left = 0
  <2> DEFINE c == WithLag(spent, 0)
  <2>1. spent' = IF watcher'.mode = "LIVE" THEN WithLeft(c, 0)
                 ELSE IF watcher.mode = "LIVE" THEN WithLeft(spent, pass.todo) ELSE spent
    BY <1>2, Zenon DEF Narrowed, WithLag, WithLeft
  <2>2. /\ c \in Counters /\ c.lag = 0 /\ c.traded = spent.traded
        /\ c.afterHalt = spent.afterHalt
    BY WithLagFields
  <2> HIDE DEF c
  <2>3. CASE watcher'.mode = "LIVE"
    BY <2>1, <2>2, <2>3, WithLeftFields
  <2>4. CASE watcher'.mode # "LIVE"
    BY <2>1, <2>4, WithLeftFields
  <2> QED BY <2>3, <2>4
<1>3. ASSUME Submit
      PROVE  /\ spent' \in Counters /\ spent'.traded = TRUE
             /\ spent'.lag = spent.lag /\ spent'.left = spent.left
             /\ spent'.afterHalt = IF why = "operator" THEN spent.afterHalt + 1
                                   ELSE spent.afterHalt
  <2> DEFINE c == WithTraded(spent, TRUE)
  <2> DEFINE n == IF why = "operator" THEN c.afterHalt + 1 ELSE c.afterHalt
  <2>1. spent' = WithAfterHalt(c, n)
    BY <1>3, Zenon DEF Submit, WithTraded, WithAfterHalt
  <2>2. /\ c \in Counters /\ c.traded = TRUE /\ c.lag = spent.lag /\ c.left = spent.left
        /\ c.afterHalt = spent.afterHalt /\ spent.afterHalt \in Nat
    BY WithTradedFields DEF Counters
  <2> HIDE DEF c
  <2>3. /\ n \in Nat
        /\ n = IF why = "operator" THEN spent.afterHalt + 1 ELSE spent.afterHalt
    BY <2>2
  <2> HIDE DEF n
  <2> QED BY <2>1, <2>2, <2>3, WithAfterHaltFields
<1>4. ASSUME HaltSaves
      PROVE  /\ spent' \in Counters /\ spent'.traded = spent.traded
             /\ spent'.lag = spent.lag /\ spent'.left = spent.left /\ spent'.afterHalt = 0
  <2> DEFINE c == [spent EXCEPT !.halts = @ + 1]
  <2>1. /\ c \in Counters /\ c.traded = spent.traded /\ c.lag = spent.lag /\ c.left = spent.left
    BY DEF Counters
  <2>2. spent' = WithAfterHalt(c, 0)
    BY <1>4, Zenon DEF HaltSaves, WithAfterHalt
  <2> HIDE DEF c
  <2> QED BY <2>1, <2>2, WithAfterHaltFields
<1> QED BY <1>1, <1>2, <1>3, <1>4

LEMMA CountersStep == ASSUME GuardTypeOK, [GuardNext]_guardVars PROVE spent' \in Counters
<1>0. spent \in Counters /\ pass.todo \in Nat
  BY DEF GuardTypeOK, PassTyped
<1>1. CASE UNCHANGED spent
  BY <1>0, <1>1
<1>2. CASE Narrowed \/ Start \/ Submit \/ HaltSaves
  BY <1>0, <1>2, CounterSteps
<1>3. CASE ChangeReads \/ ResetLoads \/ Crash
  BY <1>0, <1>3 DEF ChangeReads, ResetLoads, Crash, Counters
<1>4. CASE Reserve
  BY <1>0, <1>4 DEF Reserve, Counters
<1> QED
  BY <1>1, <1>2, <1>3, <1>4 DEF GuardNext, guardVars, PollReads, PollApplies, PollFails,
     ChangeWrites, HaltExits, ResetSaves, PassStarts, NoTrade, Abort, LoadLatch, SaveLatch,
     Refused, Throws, Expire

\* Every reachable state is well typed, whatever is interleaved: the row of
\* live_guard_state, the watcher, the pass and the reservations it made.
THEOREM GuardTypeCorrect == GuardSpec => []GuardTypeOK
<1>1. GuardTypeOK /\ [GuardNext]_guardVars => GuardTypeOK'
  BY RowStep, WatcherStep, PassStep, ReservationsStep, CountersStep, Zenon DEF GuardTypeOK
<1> QED BY <1>1, InitTyped, PTL DEF GuardSpec

(***************************************************************************)
(* The latch.  why = "none" says too little when the latch is engaged: a   *)
(* pass that had loaded it before a reset saves it back, engaged.          *)
(***************************************************************************)

\* Who engaged the latch is known only while it is engaged; a pass that loaded
\* it since has seen it; and an order is about to be sent after a halt only if
\* none was sent since.
LatchInv ==
    /\ why # "none" => guard.halted
    /\ why = "loss" /\ pass.pc = "loaded" => pass.previous
    /\ why = "operator" => spent.afterHalt <= (IF pass.pc = "clear" THEN 0 ELSE 1)

LEMMA LatchStep == ASSUME GuardTypeOK, LatchInv, [GuardNext]_guardVars PROVE LatchInv'
<1> USE DEF LatchInv
<1>0. /\ guard.halted \in BOOLEAN /\ pass.previous \in BOOLEAN /\ spent.afterHalt \in Nat
      /\ pass \in Passes /\ spent \in Counters /\ guard \in [halted : BOOLEAN, mode : RuntimeMode]
      /\ pass.todo \in Nat
  BY DEF GuardTypeOK, RowTyped, PassTyped, Passes, Counters
<1>1. CASE UNCHANGED <<guard, why, pass, spent>>
  BY <1>1
<1>2. ASSUME guard'.halted = guard.halted, why' = why, spent'.afterHalt = spent.afterHalt,
             pass'.pc \notin {"loaded", "clear"} \/ UNCHANGED pass
      PROVE  LatchInv'
  BY <1>0, <1>2
<1>3. CASE Narrowed /\ UNCHANGED <<guard, why, pass>>
  <2>1. spent'.afterHalt = spent.afterHalt
    BY <1>0, <1>3, CounterSteps
  <2> QED BY <1>2, <1>3, <2>1
<1>4. CASE ChangeReads \/ ResetLoads
  BY <1>0, <1>2, <1>4 DEF ChangeReads, ResetLoads, Counters
<1>5. CASE ChangeWrites
  BY <1>0, <1>2, <1>5 DEF ChangeWrites
<1>6. CASE HaltSaves
  <2>1. guard'.halted /\ spent'.afterHalt = 0 /\ why' = "operator"
    BY <1>0, <1>6, CounterSteps DEF HaltSaves
  <2> QED BY <2>1
<1>7. CASE HaltExits
  BY <1>1, <1>2, <1>7 DEF HaltExits, Stopped, Idle
<1>8. ASSUME NEW l \in Losses, ResetSaves(l) PROVE LatchInv'
  BY <1>1, <1>8 DEF ResetSaves
<1>9. CASE Start \/ Crash
  <2>1. spent'.afterHalt = spent.afterHalt
    BY <1>0, <1>9, CounterSteps DEF Crash, Counters
  <2>2. guard' = guard /\ why' = why /\ (pass'.pc = "top" \/ UNCHANGED pass)
    BY <1>9 DEF Start, Crash, Stopped, Idle
  <2> QED BY <1>2, <2>1, <2>2
<1>10. CASE PassStarts
  BY <1>2, <1>10 DEF PassStarts, Taking
<1>11. CASE NoTrade
  BY <1>2, <1>11 DEF NoTrade, NextMarket, Idle, Taking
<1>12. CASE Reserve
  BY <1>0, <1>2, <1>12 DEF Reserve, Passes, Counters
<1>13. CASE Abort \/ Refused
  BY <1>2, <1>13 DEF Abort, Refused, NextMarket, Idle, Taking
<1>14. CASE LoadLatch
  BY <1>0, <1>14 DEF LoadLatch, Passes
<1>15. ASSUME NEW l \in Losses, SaveLatch(l) PROVE LatchInv'
  <2> DEFINE halts == LossGuardHalts(LossCap, l, FALSE, pass.previous)
  <2>1. guard'.halted = halts /\ UNCHANGED spent
    BY <1>0, <1>15 DEF SaveLatch
  <2>2. CASE halts
    <3>1. pass'.pc \in {"top", "market"} /\ why' \in {"loss", why}
      BY <1>15, <2>2 DEF SaveLatch, NextMarket, Idle, Taking
    <3>2. pass.pc = "loaded"
      BY <1>15 DEF SaveLatch
    <3> QED BY <1>0, <2>1, <2>2, <3>1, <3>2
  <2>3. CASE ~halts
    <3>1. why' = "none"
      BY <1>15, <2>3 DEF SaveLatch
    <3> QED BY <3>1
  <2> QED BY <2>2, <2>3
<1>16. CASE Submit
  <2>1. pass'.pc \in {"top", "market"} /\ UNCHANGED <<guard, why>> /\ pass.pc = "clear"
    BY <1>16 DEF Submit, NextMarket, Idle, Taking
  <2>2. spent'.afterHalt = IF why = "operator" THEN spent.afterHalt + 1 ELSE spent.afterHalt
    BY <1>0, <1>16, CounterSteps
  <2> QED BY <1>0, <2>1, <2>2
<1>17. CASE Throws
  BY <1>2, <1>17 DEF Throws, Idle
<1> QED
  BY <1>1, <1>2, <1>3, <1>4, <1>5, <1>6, <1>7, <1>8, <1>9, <1>10, <1>11, <1>12, <1>13, <1>14,
     <1>15, <1>16, <1>17 DEF GuardNext, guardVars, PollReads, PollApplies, PollFails, Expire

(***************************************************************************)
(* The admission.  ~spent.traded alone is not inductive: an agent that was *)
(* not admitted must not even hold a reservation.                          *)
(***************************************************************************)

\* A process that is down has no pass; one that is up and was not admitted has
\* reserved nothing and sent nothing.
AdmissionInv ==
    /\ ~agent.up => pass.pc = "top" /\ pass.todo = 0 /\ watcher.mode = "LIVE"
    /\ agent.up /\ ~agent.admitted => ~spent.traded /\ pass.pc \in {"top", "market"}

LEMMA AdmissionStep ==
  ASSUME GuardTypeOK, AdmissionInv, [GuardNext]_guardVars PROVE AdmissionInv'
<1> USE DEF AdmissionInv
<1>0. /\ pass \in Passes /\ spent \in Counters /\ pass.todo \in 0..Universe /\ pass.todo \in Nat
      /\ agent \in [up : BOOLEAN, admitted : BOOLEAN, warm : BOOLEAN] /\ PassTyped
  BY DEF GuardTypeOK, PassTyped, Passes
<1>1. CASE UNCHANGED <<agent, pass, watcher, spent>>
  BY <1>1
<1>2. ASSUME agent.up, agent' = agent, spent'.traded = spent.traded,
             pass'.pc \in {"top", "market", pass.pc}
      PROVE  AdmissionInv'
  BY <1>0, <1>2
<1>3. CASE Narrowed /\ agent.up /\ UNCHANGED <<agent, pass>>
  <2>1. spent'.traded = spent.traded
    BY <1>0, <1>3, CounterSteps
  <2> QED BY <1>2, <1>3, <2>1
<1>4. CASE UNCHANGED <<agent, pass, watcher>> /\ spent'.traded = spent.traded
  BY <1>4
<1>5. CASE ChangeReads \/ ResetLoads \/ HaltSaves
  <2>1. spent'.traded = spent.traded
    BY <1>0, <1>5, CounterSteps DEF ChangeReads, ResetLoads, Counters
  <2> QED BY <1>4, <1>5, <2>1 DEF ChangeReads, ResetLoads, HaltSaves
<1>6. CASE Stopped
  BY <1>6 DEF Stopped, Idle, FreshWatcher
<1>7. CASE Start
  <2>1. spent'.traded = FALSE
    BY <1>0, <1>7, CounterSteps
  <2>2. pass' = pass /\ pass.pc = "top" /\ agent'.up
    BY <1>7 DEF Start
  <2> QED BY <2>1, <2>2
<1>8. ASSUME NEW todo \in 0..Universe, NextMarket(todo), agent.up, agent.admitted \/ UNCHANGED spent
      PROVE  AdmissionInv'
  <2>1. pass'.pc \in {"top", "market"}
    BY <1>0, <1>8, NextMarketTyped
  <2>2. agent'.up = agent.up /\ agent'.admitted = agent.admitted
    BY <1>0, <1>8 DEF NextMarket
  <2> QED BY <1>0, <1>8, <2>1, <2>2
<1>9. CASE PassStarts \/ Throws
  BY <1>2, <1>9 DEF PassStarts, Throws, Taking, Idle
<1>10. CASE NoTrade
  <2>1. pass.todo - 1 \in 0..Universe
    BY <1>0, <1>10, LiveGuardAssumption DEF NoTrade, PassTyped
  <2> QED BY <1>8, <1>10, <2>1 DEF NoTrade
<1>11. CASE Reserve
  <2>1. agent'.up /\ agent'.admitted
    BY <1>0, <1>11 DEF Reserve
  <2> QED BY <2>1
<1>12. CASE Abort \/ Refused
  BY <1>0, <1>8, <1>12 DEF Abort, Refused
<1>13. CASE Submit
  <2>1. agent.up /\ agent.admitted
    BY <1>0, <1>13 DEF Submit
  <2> QED BY <1>0, <1>8, <1>13, <2>1 DEF Submit
<1>14. CASE LoadLatch
  <2>1. agent'.up /\ agent'.admitted
    BY <1>0, <1>14 DEF LoadLatch
  <2> QED BY <2>1
<1>15. ASSUME NEW l \in Losses, SaveLatch(l) PROVE AdmissionInv'
  <2>1. agent.up /\ agent.admitted
    BY <1>0, <1>15 DEF SaveLatch
  <2>2. CASE NextMarket(pass.todo)
    BY <1>0, <1>8, <2>1, <2>2
  <2>3. CASE UNCHANGED agent
    BY <2>1, <2>3
  <2> QED BY <1>15, <2>2, <2>3 DEF SaveLatch
<1> QED
  BY <1>1, <1>3, <1>5, <1>6, <1>7, <1>9, <1>10, <1>11, <1>12, <1>13, <1>14, <1>15
     DEF GuardNext, guardVars, PollReads, PollApplies, PollFails, ChangeWrites, HaltExits,
     ResetSaves, Crash, Expire

(***************************************************************************)
(* The lag behind the mode.  ReadOnlyLag is not inductive: the reservations*)
(* of a narrowed watcher are paid for by the markets the pass has left.    *)
(***************************************************************************)

\* What the pass reserved since the mode narrowed, and what it has left, fit in
\* what it had left when the mode narrowed.
LagInv ==
    /\ spent.lag <= spent.left
    /\ agent.up /\ watcher.mode = "LIVE" => spent.lag = 0
    /\ agent.up /\ watcher.mode # "LIVE" => spent.lag + pass.todo <= spent.left

LEMMA LagStep ==
  ASSUME GuardTypeOK, AdmissionInv, LagInv, [GuardNext]_guardVars PROVE LagInv'
<1> USE DEF LagInv
<1>0. /\ pass \in Passes /\ spent \in Counters /\ pass.todo \in 0..Universe /\ pass.todo \in Nat
      /\ spent.lag \in Nat /\ spent.left \in Nat /\ PassTyped /\ Universe \in Nat
      /\ agent \in [up : BOOLEAN, admitted : BOOLEAN, warm : BOOLEAN]
  BY LiveGuardAssumption DEF GuardTypeOK, PassTyped, Passes, Counters
<1>1. CASE UNCHANGED <<agent, pass, watcher, spent>>
  BY <1>1
\* The pass has no more left than before.
<1>2. ASSUME agent.up => agent'.up, agent'.up => agent.up, UNCHANGED watcher,
             spent'.lag = spent.lag, spent'.left = spent.left,
             pass'.todo \in Nat, pass'.todo <= pass.todo
      PROVE  LagInv'
  BY <1>0, <1>2
<1>3. CASE Narrowed /\ agent.up /\ UNCHANGED <<agent, pass>>
  <2>1. spent' \in Counters
    BY <1>0, <1>3, CounterSteps
  <2>2. CASE watcher'.mode = "LIVE"
    <3>1. spent'.lag = 0 /\ spent'.left = 0
      BY <1>0, <1>3, <2>2, CounterSteps
    <3> QED BY <2>2, <3>1
  <2>3. CASE watcher'.mode # "LIVE" /\ watcher.mode = "LIVE"
    <3>1. spent'.lag = spent.lag /\ spent'.left = pass.todo
      BY <1>0, <1>3, <2>3, CounterSteps
    <3>2. spent.lag = 0
      BY <1>3, <2>3
    <3> QED BY <1>0, <1>3, <2>3, <3>1, <3>2
  <2>4. CASE watcher'.mode # "LIVE" /\ watcher.mode # "LIVE"
    <3>1. spent'.lag = spent.lag /\ spent'.left = spent.left
      BY <1>0, <1>3, <2>4, CounterSteps
    <3> QED BY <1>0, <1>3, <2>4, <3>1
  <2> QED BY <2>2, <2>3, <2>4
<1>4. CASE ChangeReads \/ ResetLoads \/ HaltSaves
  <2>1. spent'.lag = spent.lag /\ spent'.left = spent.left
    BY <1>0, <1>4, CounterSteps DEF ChangeReads, ResetLoads, Counters
  <2> QED BY <1>0, <1>2, <1>4, <2>1 DEF ChangeReads, ResetLoads, HaltSaves
<1>5. CASE Stopped /\ spent'.lag = spent.lag /\ spent'.left = spent.left
  BY <1>5 DEF Stopped
<1>6. CASE Crash
  <2>1. spent'.lag = spent.lag /\ spent'.left = spent.left
    BY <1>0, <1>6 DEF Crash, Counters
  <2> QED BY <1>5, <1>6, <2>1 DEF Crash
<1>7. CASE Start
  <2>1. spent'.lag = 0 /\ spent'.left = 0
    BY <1>0, <1>7, CounterSteps
  <2>2. pass' = pass /\ pass.todo = 0
    BY <1>7 DEF Start, AdmissionInv
  <2> QED BY <2>1, <2>2
<1>8. ASSUME NEW todo \in 0..Universe, NextMarket(todo), todo <= pass.todo, UNCHANGED watcher,
             spent'.lag = spent.lag, spent'.left = spent.left
      PROVE  LagInv'
  <2>1. pass'.todo = todo
    BY <1>0, <1>8, NextMarketTyped
  <2>2. agent'.up = agent.up
    BY <1>0, <1>8 DEF NextMarket
  <2> QED BY <1>0, <1>2, <1>8, <2>1, <2>2
<1>9. CASE PassStarts
  <2>1. spent' = spent /\ watcher' = watcher /\ agent' = agent /\ watcher.mode = "LIVE"
    BY <1>9 DEF PassStarts
  <2> QED BY <2>1
<1>10. CASE NoTrade
  <2>1. pass.todo - 1 \in 0..Universe
    BY <1>0, <1>10 DEF NoTrade, PassTyped
  <2> QED BY <1>0, <1>8, <1>10, <2>1 DEF NoTrade
<1>11. CASE Reserve
  <2>1. /\ pass'.todo = pass.todo - 1 /\ pass.todo > 0 /\ spent'.left = spent.left
        /\ spent'.lag = IF watcher.mode = "LIVE" THEN 0 ELSE spent.lag + 1
    BY <1>0, <1>11 DEF Reserve, PassTyped, Passes, Counters
  <2>2. agent.up /\ watcher' = watcher /\ agent' = agent
    BY <1>11 DEF Reserve
  <2> QED BY <1>0, <2>1, <2>2
<1>12. CASE Abort \/ Refused
  BY <1>0, <1>8, <1>12 DEF Abort, Refused
<1>13. CASE Submit
  <2>1. spent'.lag = spent.lag /\ spent'.left = spent.left
    BY <1>0, <1>13, CounterSteps
  <2> QED BY <1>0, <1>8, <1>13, <2>1 DEF Submit
<1>14. CASE LoadLatch
  <2>1. pass'.todo = pass.todo
    BY <1>0, <1>14 DEF LoadLatch, Passes
  <2> QED BY <1>0, <1>2, <1>14, <2>1 DEF LoadLatch
<1>15. ASSUME NEW l \in Losses, SaveLatch(l) PROVE LagInv'
  <2>1. UNCHANGED <<watcher, spent>>
    BY <1>15 DEF SaveLatch
  <2>2. CASE NextMarket(pass.todo)
    BY <1>0, <1>8, <2>1, <2>2
  <2>3. CASE pass' = [pass EXCEPT !.pc = "clear"] /\ UNCHANGED agent
    <3>1. pass'.todo = pass.todo
      BY <1>0, <2>3 DEF Passes
    <3> QED BY <1>0, <1>2, <2>1, <2>3, <3>1
  <2> QED BY <1>15, <2>2, <2>3 DEF SaveLatch
<1>16. CASE Throws
  BY <1>0, <1>2, <1>16 DEF Throws, Idle
<1> QED
  BY <1>1, <1>3, <1>4, <1>5, <1>6, <1>7, <1>9, <1>10, <1>11, <1>12, <1>13, <1>14, <1>15, <1>16
     DEF GuardNext, guardVars, PollReads, PollApplies, PollFails, ChangeWrites, HaltExits,
     ResetSaves, Expire

(***************************************************************************)
(* What the operators may rely on                                          *)
(***************************************************************************)

LEMMA GuardInvariant == GuardSpec => [](GuardTypeOK /\ LatchInv /\ AdmissionInv /\ LagInv)
<1>1. GuardInit => LatchInv /\ AdmissionInv /\ LagInv
  BY DEF GuardInit, LatchInv, AdmissionInv, LagInv, Idle, FreshWatcher
<1>2. GuardTypeOK /\ LatchInv /\ AdmissionInv /\ LagInv /\ [GuardNext]_guardVars
        => GuardTypeOK' /\ LatchInv' /\ AdmissionInv' /\ LagInv'
  <2>1. GuardTypeOK /\ [GuardNext]_guardVars => GuardTypeOK'
    BY RowStep, WatcherStep, PassStep, ReservationsStep, CountersStep, Zenon DEF GuardTypeOK
  <2> QED BY <2>1, LatchStep, AdmissionStep, LagStep
<1> QED BY <1>1, <1>2, InitTyped, PTL DEF GuardSpec

\* Of the passes in flight when a halt is saved at most one sends an order; an
\* agent that was refused at its start sends none; and past the moment the mode
\* narrows only what the pass had left is entered.
THEOREM OperatorsObeyed == GuardSpec => []OrdersObeyOperators
<1>1. GuardTypeOK /\ LatchInv /\ AdmissionInv /\ LagInv => OrdersObeyOperators
  <2> SUFFICES ASSUME GuardTypeOK, LatchInv, AdmissionInv, LagInv PROVE OrdersObeyOperators
    OBVIOUS
  <2>1. OneOrderAfterHalt
    BY DEF OneOrderAfterHalt, LatchInv, GuardTypeOK, Counters
  <2>2. HaltedStartNeverTrades
    BY DEF HaltedStartNeverTrades, AdmissionInv
  <2>3. ReadOnlyLag
    BY DEF ReadOnlyLag, LagInv
  <2> QED BY <2>1, <2>2, <2>3 DEF OrdersObeyOperators
<1> QED BY <1>1, GuardInvariant, PTL

\* A latch the loss guard engaged is disengaged by a guard reset and by no
\* pass: one that loaded the row before the breach was saved saves it again.
THEOREM BreachLatches == GuardSpec => BreachStaysLatched
<1>1. ASSUME GuardTypeOK, LatchInv, [GuardNext]_guardVars, why = "loss", guard.halted,
             ~guard'.halted
      PROVE  reset = "loaded" /\ reset' = "idle"
  <2>0. guard \in [halted : BOOLEAN, mode : RuntimeMode]
    BY <1>1 DEF GuardTypeOK, RowTyped
  <2>1. CASE guard'.halted = guard.halted
    BY <1>1, <2>1
  <2>2. CASE ChangeWrites
    BY <1>1, <2>0, <2>2 DEF ChangeWrites
  <2>3. CASE HaltSaves
    BY <1>1, <2>0, <2>3 DEF HaltSaves
  <2>4. ASSUME NEW l \in Losses, ResetSaves(l) PROVE reset = "loaded" /\ reset' = "idle"
    BY <2>4 DEF ResetSaves
  <2>5. ASSUME NEW l \in Losses, SaveLatch(l) PROVE FALSE
    <3>1. guard'.halted = LossGuardHalts(LossCap, l, FALSE, pass.previous) /\ pass.previous
      BY <1>1, <2>0, <2>5 DEF SaveLatch, LatchInv
    <3> QED BY <1>1, <3>1 DEF LossGuardHalts
  <2> QED
    BY <1>1, <2>1, <2>2, <2>3, <2>4, <2>5 DEF GuardNext, guardVars, PollReads, PollApplies,
       PollFails, ChangeReads, HaltExits, ResetLoads, Start, Crash, PassStarts, NoTrade, Reserve,
       Abort, LoadLatch, Submit, Refused, Throws, Expire
<1>2. GuardTypeOK /\ LatchInv /\ [GuardNext]_guardVars
        => [why = "loss" /\ guard.halted /\ ~guard'.halted
              => reset = "loaded" /\ reset' = "idle"]_guardVars
  BY <1>1
<1> QED BY <1>2, GuardInvariant, PTL DEF GuardSpec, BreachStaysLatched
=============================================================================

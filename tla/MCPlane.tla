------------------------------ MODULE MCPlane ------------------------------
(***************************************************************************)
(* The parts of the system that share no state with each other in one run: *)
(* a behaviour is a behaviour of one part, chosen at the start.            *)
(***************************************************************************)
EXTENDS EventLedger, OrderPath, ControlPlane, Admission, Calibration, ForecastDesk, PaperLoop,
        Settlement, LiveFeed, Telegram, StartUp, Wizard, Upkeep, Setup, OwnerStream, Scouting,
        EmergencyStop, WalletSetup, Terminal, MemRecoveryLedger

\* OrderPath: forecasts, books and histories on either side of every rule.
PlaneForecasts == {-1, 2, 20, 45, 50, 62, 85, 97}
PlaneQuotes == {<<1, 3>>, <<40, 41>>, <<28, 32>>, <<40, 46>>, <<4, 7>>, <<93, 95>>, <<60, 75>>}
PlaneQualities == {[days |-> -1, flow |-> 0, wallets |-> 0, age |-> 0],
                   [days |-> 40, flow |-> -2000, wallets |-> 2, age |-> 10]}
PlaneExposures == {<<0, 0>>, <<150, 600>>, <<0, 930>>}

\* EventLedger: one event that reserves, one that fills, the others settle.
PlaneTopic == [e \in Events |-> CASE e = 1 -> "RESERVATION_CREATED" [] e = 2 -> "ORDER_FILLED"
                                  [] OTHER -> "SETTLEMENT"]

\* Calibration: one model with every pair, and one with too few samples.
PlaneResolutions == [model : {"a"}, p : 1..3, y : {0, 1}] \cup {[model |-> "b", p |-> 2, y |-> 1]}

\* PaperLoop: two deep books and a shallow one.
PlanePaperMarkets == {[id |-> 1, bid |-> 40, ask |-> 50, depth |-> 100],
                      [id |-> 2, bid |-> 60, ask |-> 62, depth |-> 40],
                      [id |-> 3, bid |-> 20, ask |-> 22, depth |-> 100]}
PlanePaperForecasts == {-1, 30, 50, 70}
PlaneFeeBps == [maker |-> 0, taker |-> 100]

\* Settlement: a reward that is paid back, and one that is paid.
PlaneRewards == {-1, 2}

\* Telegram: both users ask for changes and say yes.
PlaneSayings == {Owner, Guest} \X {"change", "yes"}

\* Wizard: one key to mint, and one number to answer with.
PlaneMinted == <<"k1">>
PlaneNumbers == "1" :> 1

\* Scouting: of three markets the least traded is not asked for; one of the
\* most traded ends too soon.
PlaneMarket(question, volume, ends, tokens) ==
    [question |-> question, volume |-> volume, ends |-> ends, tokens |-> tokens]
PlaneListings ==
    {<<PlaneMarket("q1", 5, "late", 2), PlaneMarket("q2", 9, "none", 2), PlaneMarket("q3", 7, "late", 2)>>,
     <<PlaneMarket("q1", 2, "late", 2), PlaneMarket("q2", 4, "soon", 2), PlaneMarket("q1", 7, "late", 2),
       PlaneMarket("", 7, "late", 2)>>}
PlaneTouches == {[spread |-> 1, depth |-> 1], [spread |-> 1, depth |-> 9], [spread |-> 9, depth |-> 9]}
PlaneWallets == <<"w1", "w2">>

\* The markets and the tick that are named below.
ASSUME PlaneAssumption == {"m1", "m2"} \subseteq EvidenceMarkets /\ "t1" \in Ticks

\* Of one market no more than 21 dollars can be lost: the hypothesis under which the
\* report is proved to balance holds of this instance.
ASSUME PlaneLosses == Bearable(2100)

VARIABLE part   \* the part whose behaviour this is

Group1 == <<ledgerVars, orderVars, controlVars, admissionVars>>
Group2 == <<calibrationVars, deskVars, paperVars, settlementVars>>
Group3 == <<feedVars, telegramVars, startUpVars, wizardVars>>
Group4 == <<upkeepVars, setupVars, streamVars, scoutVars>>
Group5 == <<stopVars, walletVars, terminalVars, doubleVars>>
planeVars == <<part, Group1, Group2, Group3, Group4, Group5>>

\* Admission: the evidence with overlapping ticks, and a start beside one tick.
Evidenced ==
    \/ \E p \in SUBSET {"YES", "NO"} : MarketCloses("m1", p)
    \/ MarketCloses("m2", {"YES"})
    \/ \E e \in closed : ListingDrops(e)
    \/ \E t \in Ticks : TickFetches(t) \/ TickInserts(t) \/ TickRefreshes(t) \/ TickFails(t)
Admits ==
    \/ Startup \/ DayPasses \/ MarketCloses("m1", {"YES"})
    \/ TickFetches("t1") \/ TickInserts("t1") \/ TickRefreshes("t1")

Parts == {"events", "outbox", "order", "control", "evidence", "start", "calibration", "desk",
          "paper", "settlement", "feed", "telegram", "processes", "wizard", "backup", "update",
          "setup", "stream", "discovery", "watchlist", "emergency", "wallet", "console",
          "double"}

PlaneInit ==
    /\ part \in Parts
    /\ LedgerInit /\ OrderInit /\ ControlInit /\ AdmissionInit
    /\ CalibrationInit /\ DeskInit /\ PaperInit /\ SettlementInit
    /\ FeedInit /\ TelegramInit /\ StartUpInit /\ WizardInit
    /\ UpkeepInit /\ SetupInit /\ StreamInit /\ ScoutInit
    /\ StopInit /\ WalletInit /\ TerminalInit /\ DoubleInit
    /\ part # "setup" => dotenv = BlankEnv

PlaneNext ==
    /\ UNCHANGED part
    /\ \/ /\ part = "events" /\ (Writers \/ Engine)
          /\ UNCHANGED <<orderVars, controlVars, admissionVars, Group2, Group3, Group4, Group5>>
       \/ /\ part = "outbox" /\ (Writers \/ Outbox)
          /\ UNCHANGED <<orderVars, controlVars, admissionVars, Group2, Group3, Group4, Group5>>
       \/ /\ part = "order" /\ OrderNext
          /\ UNCHANGED <<ledgerVars, controlVars, admissionVars, Group2, Group3, Group4, Group5>>
       \/ /\ part = "control" /\ ControlNext
          /\ UNCHANGED <<ledgerVars, orderVars, admissionVars, Group2, Group3, Group4, Group5>>
       \/ /\ part = "evidence" /\ Evidenced
          /\ UNCHANGED <<ledgerVars, orderVars, controlVars, Group2, Group3, Group4, Group5>>
       \/ /\ part = "start" /\ Admits
          /\ UNCHANGED <<ledgerVars, orderVars, controlVars, Group2, Group3, Group4, Group5>>
       \/ /\ part = "calibration" /\ CalibrationNext
          /\ UNCHANGED <<deskVars, paperVars, settlementVars, Group1, Group3, Group4, Group5>>
       \/ /\ part = "desk" /\ DeskNext
          /\ UNCHANGED <<calibrationVars, paperVars, settlementVars, Group1, Group3, Group4, Group5>>
       \/ /\ part = "paper" /\ PaperNext
          /\ UNCHANGED <<calibrationVars, deskVars, settlementVars, Group1, Group3, Group4, Group5>>
       \/ /\ part = "settlement" /\ SettlementNext
          /\ UNCHANGED <<calibrationVars, deskVars, paperVars, Group1, Group3, Group4, Group5>>
       \/ /\ part = "feed" /\ FeedNext
          /\ UNCHANGED <<telegramVars, startUpVars, wizardVars, Group1, Group2, Group4, Group5>>
       \/ /\ part = "telegram" /\ TelegramNext
          /\ UNCHANGED <<feedVars, startUpVars, wizardVars, Group1, Group2, Group4, Group5>>
       \/ /\ part = "processes" /\ StartUpNext
          /\ UNCHANGED <<feedVars, telegramVars, wizardVars, Group1, Group2, Group4, Group5>>
       \/ /\ part = "wizard" /\ WizardNext
          /\ UNCHANGED <<feedVars, telegramVars, startUpVars, Group1, Group2, Group4, Group5>>
       \/ /\ part = "backup" /\ Keeping
          /\ UNCHANGED <<setupVars, streamVars, scoutVars, Group1, Group2, Group3, Group5>>
       \/ /\ part = "update" /\ Updating
          /\ UNCHANGED <<setupVars, streamVars, scoutVars, Group1, Group2, Group3, Group5>>
       \/ /\ part = "setup" /\ SetupNext
          /\ UNCHANGED <<upkeepVars, streamVars, scoutVars, Group1, Group2, Group3, Group5>>
       \/ /\ part = "stream" /\ StreamNext
          /\ UNCHANGED <<upkeepVars, setupVars, scoutVars, Group1, Group2, Group3, Group5>>
       \/ /\ part = "discovery" /\ Discovers
          /\ UNCHANGED <<upkeepVars, setupVars, streamVars, Group1, Group2, Group3, Group5>>
       \/ /\ part = "watchlist" /\ Watches
          /\ UNCHANGED <<upkeepVars, setupVars, streamVars, Group1, Group2, Group3, Group5>>
       \/ /\ part = "emergency" /\ StopNext
          /\ UNCHANGED <<walletVars, terminalVars, doubleVars, Group1, Group2, Group3, Group4>>
       \/ /\ part = "wallet" /\ WalletNext
          /\ UNCHANGED <<stopVars, terminalVars, doubleVars, Group1, Group2, Group3, Group4>>
       \/ /\ part = "console" /\ TerminalNext
          /\ UNCHANGED <<stopVars, walletVars, doubleVars, Group1, Group2, Group3, Group4>>
       \/ /\ part = "double" /\ DoubleNext
          /\ UNCHANGED <<stopVars, walletVars, terminalVars, Group1, Group2, Group3, Group4>>

\* The fairness of the parts that have liveness properties.
PlaneFairness ==
    /\ WF_controlVars(part = "control" /\ Sweeps)
    /\ \A t \in Ticks : WF_admissionVars(part = "evidence" /\ TickGoesOn(t))
    /\ WF_admissionVars(part = "start" /\ TickGoesOn("t1"))

PlaneSpec == PlaneInit /\ [][PlaneNext]_planeVars /\ PlaneFairness

\* Every part's state stays within its types, ranges and pairings.
PlaneTypeOK ==
    /\ LedgerTypeOK /\ OrderTypeOK /\ ControlTypeOK /\ AdmissionTypeOK
    /\ CalibrationTypeOK /\ DeskTypeOK /\ PaperTypeOK /\ SettlementTypeOK
    /\ FeedTypeOK /\ TelegramTypeOK /\ StartUpTypeOK /\ WizardTypeOK
    /\ UpkeepTypeOK /\ SetupTypeOK /\ StreamTypeOK /\ ScoutTypeOK
    /\ StopTypeOK /\ WalletTypeOK /\ TerminalTypeOK /\ DoubleTypeOK

\* What the agent claims of its own skill is computed as it is defined: the fit
\* that corrects its forecasts (calibration), and the profit it reports on paper.
EvaluationIsSound == IsotonicFit /\ PaperReportBalances

\* Between the owner and the agent nothing is acted on or kept back unseen: a change
\* the bot confirms runs once on its owner's word, what was not sent is owed to quota
\* or digest, and a key pressed at the terminal does what the screen says.
OwnerIsHeard == ConfirmedOnce /\ OwnerIsTold /\ KeysAreHeard

\* Whoever asks after an order gets the verdict it has: the reconciler of the control
\* plane does not contradict the venue, nor the tests' ledger the one of production.
VerdictsHold == NoVerdictAgainstVenue /\ DoublesAgree

\* What the setup tells its owner is what the next start finds: the key of the
\* address it named, and settings the start accepts.
SetupIsTrue == ToldKeyIsUsed /\ SetupLeadsToStart
============================================================================

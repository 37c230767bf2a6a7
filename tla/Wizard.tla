------------------------------- MODULE Wizard -------------------------------
(***************************************************************************)
(* Setting the agent up from a chat: the onboarding wizard and the wallet  *)
(* command, which mint a signer on the server, and the terminal that edits *)
(* the same .env.  A key is written to keystore.json and then to .env; the *)
(* agent signs with the one in .env.  An address is written as its key.    *)
(***************************************************************************)
EXTENDS Integers, Sequences, FiniteSets

CONSTANTS
    Minted,         \* the keys that are minted, a sequence
    Own,            \* the operator's own key, imported at the terminal
    Others,         \* addresses without a key here
    Numbers,        \* text of a number |-> the number
    CodexReady,     \* whether the server has a ChatGPT login
    DefaultCap, DefaultBps,
    VaultSet,       \* whether a vault passphrase was set up beforehand
    MaxEdits        \* bound on the terminal's edits

VARIABLES
    env,        \* what .env holds of the wallet and the bounds
    keyfile,    \* the key in keystore.json
    procAddress,\* process.env.WALLET_ADDRESS of the bot's process
    wizard,     \* the user's OnboardState
    asked,      \* a pending /wallet create
    saving,     \* a turn between its two writes: what it still has to do
    told,       \* the last address the chat named as the new signer's
    minted,     \* keys minted so far
    terminal,   \* the .env the terminal has read and will write back, and its edits so far
    clobbered   \* the terminal wrote over a change it had not seen

wizardVars == <<env, keyfile, procAddress, wizard, asked, saving, told, minted, terminal, clobbered>>

Unset == "unset"

\* A key that is minted was never seen before.
ASSUME WizardAssumption ==
    /\ Len(Minted) \in Nat /\ Unset # Own
    /\ \A i \in 1..Len(Minted) : Minted[i] \notin {Unset, Own}
    /\ \A i, j \in 1..Len(Minted) : Minted[i] = Minted[j] => i = j

Keys == {Minted[i] : i \in DOMAIN Minted} \cup {Own}
NoSession == [step |-> "none", account |-> Unset, signer |-> Unset, cap |-> 0]
Fresh0 == [NoSession EXCEPT !.step = "provider"]
FirstEnv == [key |-> Unset, address |-> Unset, account |-> Unset, funder |-> Unset,
             mode |-> "none", cap |-> 0, loss |-> 0, passphrase |-> VaultSet]
NotSaving == [from |-> "none", key |-> Unset]
Typed == {"batal", "ya", "LIVE", "", "junk"} \cup DOMAIN Numbers
Steps == {"none", "provider", "baseurl", "model", "wallet", "wallet_confirm", "mode", "mode_confirm",
          "account", "funder", "capital", "loss"}

\* resolveLossCapPusd rounds down: a small cap makes a loss cap of nothing.
LossCap(cap, bps) == (cap * bps) \div 10000
AmountSaid(said, default) == IF said = "" THEN default ELSE IF said \in DOMAIN Numbers THEN Numbers[said] ELSE 0

(***************************************************************************)
(* onboardNext: the next state, and .env with what is written to it        *)
(***************************************************************************)

Stay(s) == [next |-> s, env |-> env]
Goto(s, there) == [next |-> [s EXCEPT !.step = there], env |-> env]
Save(s, there, saved) == [next |-> [s EXCEPT !.step = there], env |-> saved]

Brain(s, said) ==
    CASE s.step = "provider" ->
           (IF said = "1" /\ CodexReady THEN Goto(s, "model")
            ELSE IF said = "2" THEN Goto(s, "model")
            ELSE IF said = "3" THEN Goto(s, "baseurl") ELSE Stay(s))
      [] s.step = "baseurl" -> IF said = "junk" THEN Goto(s, "model") ELSE Stay(s)
      [] s.step = "model" -> IF said = "" THEN Stay(s) ELSE Goto(s, "wallet")

\* `fresh` is the key minted for this turn, and the confirming turn alone.
Wallet(s, said, fresh) ==
    CASE s.step = "wallet" ->
           (IF said \in {"2", "3"} THEN Goto(s, "mode")
            ELSE IF said = "1" /\ env.passphrase THEN Goto(s, "wallet_confirm") ELSE Stay(s))
      [] s.step = "wallet_confirm" ->
           (IF said # "ya" THEN Goto(s, "wallet") ELSE IF fresh = Unset THEN Stay(s)
            ELSE Goto([s EXCEPT !.signer = fresh], "mode"))
      [] s.step = "mode" -> IF said = "1" THEN Goto(s, "mode_confirm") ELSE Stay(s)
      [] s.step = "mode_confirm" ->
           IF said = "LIVE" THEN Save(s, "account", [env EXCEPT !.mode = "LIVE"]) ELSE Goto(s, "mode")

\* The signer the answers are compared with: the one of .env comes first.
SignerSeen(s) == IF procAddress # Unset THEN procAddress ELSE s.signer
Bounds(s, said) ==
    CASE s.step = "account" ->
           (IF said \notin Keys \cup Others \/ said = SignerSeen(s) THEN Stay(s)
            ELSE Save([s EXCEPT !.account = said], "funder", [env EXCEPT !.account = said]))
      [] s.step = "funder" ->
           (IF said \notin Keys \cup Others \/ said \in {SignerSeen(s), s.account} THEN Stay(s)
            ELSE Save(s, "capital", [env EXCEPT !.funder = said]))
      [] s.step = "capital" ->
           (IF AmountSaid(said, DefaultCap) <= 0 THEN Stay(s)
            ELSE Save([s EXCEPT !.cap = AmountSaid(said, DefaultCap)], "loss", [env EXCEPT !.cap = AmountSaid(said, DefaultCap)]))
      [] s.step = "loss" ->
           (IF AmountSaid(said, DefaultBps) <= 0 THEN Stay(s)
            ELSE Save(NoSession, "none", [env EXCEPT !.loss = LossCap(s.cap, AmountSaid(said, DefaultBps))]))

OnboardNext(s, said, fresh) ==
    IF said = "batal" THEN Stay(NoSession)
    ELSE IF s.step \in {"provider", "baseurl", "model"} THEN Brain(s, said)
    ELSE IF s.step \in {"wallet", "wallet_confirm", "mode", "mode_confirm"} THEN Wallet(s, said, fresh)
    ELSE Bounds(s, said)

(***************************************************************************)
(* The handlers                                                            *)
(***************************************************************************)

\* loadDotEnv, which every turn begins with: .env overrides the process.
Loaded == IF env.address # Unset THEN env.address ELSE procAddress
Serves == saving = NotSaving

\* A turn that mints nothing, and the one that starts a session.
OnboardTurn(said) ==
    /\ Serves /\ procAddress' = Loaded
    /\ LET s == IF wizard.step = "none" THEN Fresh0 ELSE wizard
           turn == IF wizard.step = "none" /\ said = "" THEN Stay(Fresh0) ELSE OnboardNext(s, said, Unset)
       IN  /\ ~(s.step = "wallet_confirm" /\ said = "ya")
           /\ wizard' = turn.next /\ env' = turn.env
    /\ UNCHANGED <<keyfile, asked, saving, told, minted, terminal, clobbered>>

MintsTo(from) ==
    /\ minted < Len(Minted) /\ minted' = minted + 1
    /\ keyfile' = Minted[minted'] /\ saving' = [from |-> from, key |-> keyfile']

\* The confirming turn: keystore.json is written first.
WizardMints ==
    /\ Serves /\ wizard.step = "wallet_confirm" /\ env.passphrase
    /\ MintsTo("wizard") /\ procAddress' = Loaded
    /\ UNCHANGED <<env, wizard, asked, told, terminal, clobbered>>

\* Slip: the keystore line is not among the writes of the turn.
WizardKeepsKey(e, key) == e
\* The turn's writes and the keystore line; WALLET_ADDRESS is not among them.
WizardWrites(e, key) == [e EXCEPT !.key = key]
WizardSaves ==
    /\ saving.from = "wizard" /\ saving' = NotSaving
    /\ env' = WizardWrites(env, saving.key)
    /\ wizard' = OnboardNext(wizard, "ya", saving.key).next
    /\ procAddress' = saving.key /\ told' = saving.key
    /\ UNCHANGED <<keyfile, asked, minted, terminal, clobbered>>

\* /wallet create asks first, and creates on YES while that is pending.
WalletAsks ==
    /\ Serves /\ asked' = TRUE /\ procAddress' = Loaded
    /\ UNCHANGED <<env, keyfile, wizard, saving, told, minted, terminal, clobbered>>
WalletMints ==
    /\ Serves /\ asked /\ asked' = FALSE /\ procAddress' = Loaded
    /\ IF env.passphrase THEN MintsTo("wallet") ELSE UNCHANGED <<minted, keyfile, saving>>
    /\ UNCHANGED <<env, wizard, told, terminal, clobbered>>
WalletSaves ==
    /\ saving.from = "wallet" /\ saving' = NotSaving
    /\ env' = [env EXCEPT !.key = saving.key, !.address = saving.key] /\ told' = saving.key
    /\ UNCHANGED <<keyfile, procAddress, wizard, asked, minted, terminal, clobbered>>

TimeRunsOut ==
    /\ \/ wizard' = NoSession /\ UNCHANGED asked
       \/ asked' = FALSE /\ UNCHANGED wizard
    /\ Serves /\ UNCHANGED <<env, keyfile, procAddress, saving, told, minted, terminal, clobbered>>

BotRestarts ==
    /\ wizard' = NoSession /\ asked' = FALSE /\ saving' = NotSaving /\ procAddress' = env.address
    /\ UNCHANGED <<env, keyfile, told, minted, terminal, clobbered>>

(***************************************************************************)
(* The terminal: promptWalletSetup reads .env and writes it back           *)
(***************************************************************************)

TerminalReads ==
    /\ ~terminal.reading /\ terminal.edits < MaxEdits
    /\ terminal' = [reading |-> TRUE, read |-> env, edits |-> terminal.edits + 1]
    /\ keyfile' = Own /\ told' = Unset
    /\ UNCHANGED <<env, procAddress, wizard, asked, saving, minted, clobbered>>
TerminalWrites ==
    /\ terminal.reading /\ terminal' = [terminal EXCEPT !.reading = FALSE, !.read = FirstEnv]
    /\ env' = [terminal.read EXCEPT !.key = Own, !.address = Own, !.passphrase = TRUE]
    /\ clobbered' = (clobbered \/ env # terminal.read)
    /\ UNCHANGED <<keyfile, procAddress, wizard, asked, saving, told, minted>>

-----------------------------------------------------------------------------

WizardInit ==
    /\ env = FirstEnv /\ keyfile = Unset /\ procAddress = Unset /\ wizard = NoSession /\ asked = FALSE
    /\ saving = NotSaving /\ told = Unset /\ minted = 0
    /\ terminal = [reading |-> FALSE, read |-> FirstEnv, edits |-> 0] /\ clobbered = FALSE

WizardNext ==
    \/ \E said \in Typed \cup Keys \cup Others : OnboardTurn(said)
    \/ WizardMints \/ WizardSaves \/ WalletAsks \/ WalletMints \/ WalletSaves
    \/ TimeRunsOut \/ BotRestarts \/ TerminalReads \/ TerminalWrites

-----------------------------------------------------------------------------

WizardTypeOK ==
    /\ wizard.step \in Steps /\ env.mode \in {"none", "LIVE"}
    /\ {env.key, env.address, keyfile, saving.key, told} \subseteq {Unset, Own} \cup {Minted[i] : i \in 1..minted}

\* The address the chat last gave the operator to fund is the one the agent
\* signs for after any restart, unless the terminal was writing .env at the
\* same time: a key is never shown that exists only in memory or only in a
\* file the agent does not read.
ToldKeyIsUsed == told # Unset /\ ~clobbered /\ ~terminal.reading /\ saving = NotSaving => env.key = told
=============================================================================

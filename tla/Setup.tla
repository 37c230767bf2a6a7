------------------------------- MODULE Setup -------------------------------
(***************************************************************************)
(* Setting the agent up at the terminal: `polyroot onboard` and `setup`    *)
(* ask their questions one at a time and write what they learn, some of it *)
(* at once and some at the end; what they wrote is judged by three checks  *)
(* written apart: the doctors, the preflight of `run` and the start.  An   *)
(* address is written as its key; amounts are in half dollars.             *)
(***************************************************************************)
EXTENDS Integers, FiniteSets

CONSTANTS
    WalletKeys,     \* keys the owner may create or import
    VenueAddresses, \* addresses of the owner's proxy wallets
    OldRaw,         \* the raw key an older installation left in .env
    CapAnswers, BpsAnswers,     \* numbers typed for the bounds; 0 stands for anything else
    StandardCap, StandardBps,
    MaxSessions     \* bound on the commands run

VARIABLES
    dotenv,     \* ~/.polyroot/.env
    keystore,   \* the key sealed in keystore.json
    dialog,    \* the command in progress: its next question and the answers so far
    ended       \* what the last command that ended said, and the number of commands so far

setupVars == <<dotenv, keystore, dialog, ended>>

None == "none"

ASSUME SetupAssumption ==
    /\ None \notin WalletKeys \cup VenueAddresses
    /\ CapAnswers \subseteq Nat /\ BpsAnswers \subseteq Nat /\ {StandardCap, StandardBps} \subseteq Nat \ {0}

BlankEnv == [sealed |-> None, address |-> None, account |-> None, funder |-> None, raw |-> None,
             creds |-> FALSE, provider |-> FALSE, cap |-> 0, loss |-> 0, markets |-> None]
NoSetup == [command |-> None, step |-> None, brain |-> None, key |-> None, account |-> None, funder |-> None,
            detected |-> FALSE, cap |-> 0, bps |-> 0, markets |-> None]
Addresses == WalletKeys \cup VenueAddresses
Floored(amount) == amount - (amount % 2)

\* resolveLossCapPusd: whole dollars, and nothing without both bounds.
LossCapOf(cap, bps) == IF cap <= 0 \/ bps <= 0 THEN 0 ELSE Floored((cap * bps) \div 10000)

(***************************************************************************)
(* The checks                                                              *)
(***************************************************************************)

Distinct(account, funder, signer) == Cardinality({account, funder, signer}) = 3
HasKey(e) == e.sealed # None \/ e.raw # None
\* assertWalletKeyAlignment
Aligned(e) == e.sealed = None \/ e.raw = None \/ e.sealed = e.raw
SigningKey(e) == IF e.sealed # None THEN e.sealed ELSE e.raw

\* runPreflightCheck, before `run`.
PreflightPasses(e) ==
    /\ HasKey(e) /\ None \notin {e.account, e.funder}
    /\ e.address # None => Distinct(e.account, e.funder, e.address)
    /\ e.creds
\* assertRuntimeEnv
RuntimeEnvPasses(e) == HasKey(e) /\ None \notin {e.account, e.funder} /\ e.account # e.funder /\ Aligned(e)
\* The bounds startAgent insists on.
BoundsPass(e) == e.loss > 0 /\ e.cap > 0
Starts(e) == PreflightPasses(e) /\ RuntimeEnvPasses(e) /\ BoundsPass(e)

\* runWalletVerify: against the address of the key itself.
WalletVerified(e) ==
    /\ HasKey(e) /\ Aligned(e)
    /\ e.address \in {None, SigningKey(e)}
    /\ None \notin {e.account, e.funder} /\ Distinct(e.account, e.funder, SigningKey(e))

\* runLivePreflight, for doctor --live: nothing further is checked without a database.
LivePreflight(e, world) ==
    /\ world.database /\ world.tables /\ world.metricsKey
    /\ BoundsPass(e)
    /\ e.markets # None /\ world.book
    /\ WalletVerified(e) /\ e.creds
    /\ ~world.halted /\ ~world.staleUnknown /\ world.funderCash

\* runDoctor: a loss cap of 0 is one that is set.
DoctorPasses(e, database, rpc) == database /\ rpc /\ HasKey(e)

(***************************************************************************)
(* Commands, and how they end                                              *)
(***************************************************************************)

Asking(command, question) == dialog.command = command /\ dialog.step = question
\* The next question, of a dialog that has taken this answer.
Answer(question, d) == dialog' = [d EXCEPT !.step = question]
AsksNext(question) == Answer(question, dialog)

Begins(command, question) ==
    /\ dialog.command = None /\ ended.commands < MaxSessions
    /\ dialog' = [NoSetup EXCEPT !.command = command, !.step = question]
    /\ ended' = [ended EXCEPT !.commands = @ + 1]
    /\ UNCHANGED <<dotenv, keystore>>
\* What is printed last; an .env written since makes an earlier statement void.
Ends(said) ==
    /\ dialog' = NoSetup
    /\ ended' = [ended EXCEPT !.said = said]

\* EOF or Ctrl-C at any question, and a refusal that stops the command.
Cancels ==
    /\ dialog.command # None
    /\ dialog' = NoSetup /\ UNCHANGED <<dotenv, keystore, ended>>

\* A changed .env is not the one the last command spoke of.
WritesEnv(e) == dotenv' = e /\ ended' = [ended EXCEPT !.said = None, !.detected = FALSE]

(***************************************************************************)
(* onboard                                                                 *)
(***************************************************************************)

\* The menus of providers end in one of these; nothing is written yet.
Brains == {"keyed", "ambient", "ollama", "codex", "custom"}
OnboardProvider(brain) ==
    /\ Asking("onboard", "provider") /\ Answer("key", [dialog EXCEPT !.brain = brain])
    /\ UNCHANGED <<dotenv, keystore, ended>>

\* A key that is pasted, one the machine holds already, a login that may be
\* missing: only an owner who is asked and refuses to go on without it stops.
OnboardKey(loggedIn, goesOn) ==
    /\ Asking("onboard", "key") /\ dialog.brain # "custom"
    /\ CASE dialog.brain = "ollama" -> Answer("wallet", [dialog EXCEPT !.brain = None])
         [] dialog.brain = "codex" /\ (loggedIn \/ goesOn) -> Answer("wallet", [dialog EXCEPT !.brain = None])
         [] dialog.brain = "codex" /\ ~(loggedIn \/ goesOn) -> dialog' = NoSetup
         [] OTHER -> AsksNext("reach")
    /\ UNCHANGED <<dotenv, keystore, ended>>

\* A web address is asked for twice at most; the name it may be saved under only
\* adds it to the menu.
OnboardCustom(wellFormed) ==
    /\ Asking("onboard", "key") /\ dialog.brain = "custom"
    /\ IF wellFormed THEN AsksNext("reach") ELSE dialog' = NoSetup
    /\ UNCHANGED <<dotenv, keystore, ended>>

\* pingModelsEndpoint: what answers with a key is not required to.  A provider of
\* the machine has no address ("vertex", "azure"), and never answers.
OnboardReach(reachable, goesOn) ==
    /\ Asking("onboard", "reach") /\ (reachable => dialog.brain # "ambient")
    /\ IF reachable \/ goesOn THEN Answer("wallet", [dialog EXCEPT !.brain = None]) ELSE dialog' = NoSetup
    /\ UNCHANGED <<dotenv, keystore, ended>>

\* A key is created, or imported, and sealed into keystore.json at once.
OnboardWallet(key) ==
    /\ Asking("onboard", "wallet") /\ keystore' = key
    /\ Answer("mode", [dialog EXCEPT !.key = key]) /\ UNCHANGED <<dotenv, ended>>

OnboardMode == Asking("onboard", "mode") /\ AsksNext("addresses") /\ UNCHANGED <<dotenv, keystore, ended>>

TypedFunder(funder, account, signer) == funder \notin {signer, account}

\* Addresses that the venue names are taken as they are; typed ones are compared.
OnboardAddresses(account, funder) ==
    /\ Asking("onboard", "addresses")
    /\ \/ dotenv.creds /\ Answer("bounds", [dialog EXCEPT !.account = account, !.funder = funder, !.detected = TRUE])
       \/ /\ account # dialog.key /\ TypedFunder(funder, account, dialog.key)
          /\ Answer("bounds", [dialog EXCEPT !.account = account, !.funder = funder])
    /\ UNCHANGED <<dotenv, keystore, ended>>

Bounded(amount, standard) == IF amount > 0 THEN amount ELSE standard
OnboardBounds(cap, bps) ==
    /\ Asking("onboard", "bounds")
    /\ Answer("write", [dialog EXCEPT !.cap = Bounded(cap, StandardCap), !.bps = Bounded(bps, StandardBps)])
    /\ UNCHANGED <<dotenv, keystore, ended>>

\* writeEnv and mergeEnvPreserving: lines it does not manage stay, a raw key among them.
OnboardWrites ==
    /\ Asking("onboard", "write")
    /\ dotenv' = [dotenv EXCEPT !.sealed = dialog.key, !.address = dialog.key,
           !.account = dialog.account, !.funder = dialog.funder, !.provider = TRUE, !.markets = "auto",
           !.cap = dialog.cap, !.loss = LossCapOf(dialog.cap, dialog.bps)]
    /\ ended' = [ended EXCEPT !.said = None, !.detected = dialog.detected]
    /\ AsksNext("check") /\ UNCHANGED keystore

\* Migration and doctor; when both pass, a LIVE pass is offered, yes by default,
\* which asks neither the preflight nor assertRuntimeEnv.
OnboardChecks(migrated, database, rpc) ==
    /\ Asking("onboard", "check") /\ UNCHANGED <<dotenv, keystore>>
    /\ \/ migrated /\ DoctorPasses(dotenv, database, rpc) /\ AsksNext("demo") /\ UNCHANGED ended
       \/ ~(migrated /\ DoctorPasses(dotenv, database, rpc)) /\ Ends("onboarded")
OnboardDemo == Asking("onboard", "demo") /\ Ends("onboarded") /\ UNCHANGED <<dotenv, keystore>>

(***************************************************************************)
(* setup                                                                   *)
(***************************************************************************)

\* The cap is floored here, and half a dollar becomes nothing.
SetupBounds(cap, bps) ==
    /\ Asking("setup", "bounds")
    /\ Answer("markets", [dialog EXCEPT
           !.cap = IF cap > 0 THEN Floored(cap) ELSE Bounded(dotenv.cap, StandardCap), !.bps = Bounded(bps, StandardBps)])
    /\ UNCHANGED <<dotenv, keystore, ended>>

\* promptMarketBrowser: markets that cannot be fetched, or numbers that name none of
\* them, keep the old list; what is picked are both tokens of each market.
Browsed(fetched, named) == IF fetched /\ named THEN "picked" ELSE None

\* Kept, found by the agent, or a list that was picked or pasted; a list that
\* cannot be read or is empty keeps the old one.
SetupMarkets(markets) ==
    /\ Asking("setup", "markets") /\ Answer("wallet", [dialog EXCEPT !.markets = markets])
    /\ UNCHANGED <<dotenv, keystore, ended>>

\* promptWalletSetup writes both files at once.
SetupWallet(key) ==
    /\ Asking("setup", "wallet") /\ keystore' = key
    /\ WritesEnv([dotenv EXCEPT !.sealed = key, !.address = key])
    /\ AsksNext("creds")
SetupKeepsWallet ==
    /\ Asking("setup", "wallet") /\ dotenv.sealed # None /\ AsksNext("creds")
    /\ UNCHANGED <<dotenv, keystore, ended>>

SetupCreds(entered) ==
    /\ Asking("setup", "creds") /\ UNCHANGED keystore /\ AsksNext("save")
    /\ IF entered THEN WritesEnv([dotenv EXCEPT !.creds = TRUE]) ELSE UNCHANGED <<dotenv, ended>>

\* buildSetupEnvUpdate: a cap of nothing is replaced once more.
Stored(e, s) ==
    LET cap == Bounded(s.cap, StandardCap)
    IN  [e EXCEPT !.cap = cap, !.loss = LossCapOf(cap, s.bps), !.markets = IF s.markets = None THEN @ ELSE s.markets]
SetupSaves ==
    /\ Asking("setup", "save") /\ dotenv' = Stored(dotenv, dialog) /\ UNCHANGED keystore
    /\ dialog' = NoSetup
    /\ ended' = [ended EXCEPT !.said = "saved", !.detected = FALSE, !.cap = dialog.cap,
                              !.loss = LossCapOf(dialog.cap, dialog.bps)]

\* runSetKeyCommand
SetKey ==
    /\ dialog.command = None /\ ~dotenv.provider
    /\ dotenv' = [dotenv EXCEPT !.provider = TRUE] /\ UNCHANGED <<keystore, dialog, ended>>

-----------------------------------------------------------------------------

SetupInit ==
    /\ dotenv \in {BlankEnv, [BlankEnv EXCEPT !.raw = OldRaw]}
    /\ keystore = None /\ dialog = NoSetup
    /\ ended = [said |-> None, commands |-> 0, detected |-> FALSE, cap |-> 0, loss |-> 0]

SetupNext ==
    \/ Begins("onboard", "provider") \/ Begins("setup", "bounds") \/ Cancels
    \/ \E brain \in Brains : OnboardProvider(brain)
    \/ \E ready, goesOn \in BOOLEAN : OnboardKey(ready, goesOn) \/ OnboardReach(ready, goesOn)
    \/ \E wellFormed \in BOOLEAN : OnboardCustom(wellFormed)
    \/ OnboardMode \/ OnboardWrites \/ OnboardDemo
    \/ \E key \in WalletKeys : OnboardWallet(key) \/ SetupWallet(key)
    \/ \E account, funder \in Addresses : OnboardAddresses(account, funder)
    \/ \E cap \in CapAnswers, bps \in BpsAnswers : OnboardBounds(cap, bps) \/ SetupBounds(cap, bps)
    \/ \E migrated, database, rpc \in BOOLEAN : OnboardChecks(migrated, database, rpc)
    \/ \E markets \in {None, "auto"} \cup {Browsed(f, n) : f, n \in BOOLEAN} : SetupMarkets(markets)
    \/ \E entered \in BOOLEAN : SetupCreds(entered)
    \/ SetupKeepsWallet \/ SetupSaves \/ SetKey

-----------------------------------------------------------------------------

SetupTypeOK ==
    /\ {dotenv.sealed, dotenv.address, keystore} \subseteq WalletKeys \cup {None}
    /\ {dotenv.account, dotenv.funder} \subseteq Addresses \cup {None}
    /\ dotenv.markets \in {None, "auto", "picked"} /\ dotenv.loss \in Nat /\ dotenv.cap \in Nat

\* After "Setup complete", an owner who has entered the venue's credentials can
\* start: the questions asked cover what the start insists on.  What they leave
\* open is an older raw key kept in .env, proxy addresses the venue named, and a
\* loss cap that rounds down to nothing.
OnboardedStarts ==
    ended.said = "onboarded" /\ dotenv.creds => Starts(dotenv) \/ ~Aligned(dotenv) \/ ended.detected \/ dotenv.loss = 0

\* "doctor --live: infrastructure proven" is true of every .env these commands
\* can leave behind, finished or cancelled: it never passes one that `run` refuses.
Sound == [database |-> TRUE, tables |-> TRUE, metricsKey |-> TRUE, book |-> TRUE, halted |-> FALSE,
          staleUnknown |-> FALSE, funderCash |-> TRUE]
DoctorProves == LivePreflight(dotenv, Sound) => Starts(dotenv)

\* The limits that setup says it saved are those in .env, down to the dollar.
ToldLimitsAreStored ==
    ended.said = "saved" /\ ended.cap > 0 => dotenv.cap = ended.cap /\ dotenv.loss = ended.loss

\* The questions of the setup, the checks after it and the start agree.
SetupLeadsToStart == OnboardedStarts /\ DoctorProves /\ ToldLimitsAreStored
=============================================================================

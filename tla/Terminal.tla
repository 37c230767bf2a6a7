------------------------------ MODULE Terminal ------------------------------
(***************************************************************************)
(* The owner at the terminal (cli.ts): the console reads one command after *)
(* another through a readline session that every question shares, menus    *)
(* take the keys away from it in raw mode, a log is followed until the     *)
(* owner interrupts, and an agent started here takes the terminal over.    *)
(***************************************************************************)
EXTENDS Integers

CONSTANTS
    Options,        \* how many options a menu has
    PerPage,        \* PAGE of askChoiceArrows
    MenuDigits,     \* digits the owner presses
    MaxBuffer       \* bound: no digit is pressed once the buffer holds this number

VARIABLES
    console,    \* what the process waits for
    readline,   \* the shared readline: none, open, or closed by the end of input
    asking,     \* [asked, stale]: its question is registered; one before was abandoned
    keys,       \* [raw, muted] of the terminal; raw mode pauses the readline
    menu,       \* [cursor, buffer] of the menu on the screen; an empty buffer is 0
    typed,      \* the number typed since the last pause, or 0, or Interfered
    follower    \* what prints the log: none, an interval or a child process

terminalVars == <<console, readline, asking, keys, menu, typed, follower>>

ASSUME TerminalAssumption ==
    Options \in Nat \ {0} /\ PerPage \in Nat \ {0} /\ MenuDigits \subseteq 0..9 /\ MaxBuffer \in Nat

NoMenu == [cursor |-> 0, buffer |-> 0]
Asked == [asked |-> TRUE, stale |-> FALSE]
Dispatching == console = "command"

\* A readline has one question: it may ignore a new one until a line has
\* answered the question that was abandoned.
Registered(stale) == IF stale THEN {TRUE, FALSE} ELSE {TRUE}

\* askOnShared, up to its wait: getSharedSession opens a readline if there is none.
QuestionAsked(place, muted) ==
    /\ console' = place /\ readline' = "open" /\ keys' = [raw |-> FALSE, muted |-> muted]
    /\ \E asked \in Registered(asking.stale) : asking' = [asking EXCEPT !.asked = asked]

\* closeSharedSession: an abandoned question goes with its readline.
SessionCloses == readline' = "none" /\ asking' = Asked
Quits == console' = "gone" /\ SessionCloses

(***************************************************************************)
(* Questions                                                               *)
(***************************************************************************)

Questions == {"prompt", "following", "numbered"}
\* What follows a question: its finally unmutes, and the log stops being followed.
Returns(place) ==
    /\ console' = place /\ keys' = [raw |-> FALSE, muted |-> FALSE] /\ follower' = "none"
    /\ UNCHANGED <<menu, typed>>

\* A line that the abandoned question takes is lost.
LineLost ==
    /\ console \in Questions /\ ~asking.asked /\ asking.stale
    /\ asking' = [asking EXCEPT !.stale = FALSE]
    /\ UNCHANGED <<console, readline, keys, menu, typed, follower>>

\* runConsole: a blank line asks again, any other is a command.
PromptAnswered(blank) ==
    /\ console = "prompt" /\ asking.asked /\ Returns(IF blank THEN "idle" ELSE "command")
    /\ asking' = Asked /\ UNCHANGED readline

\* Enter, too, ends `logs --follow`.
FollowAnswered ==
    /\ console = "following" /\ asking.asked /\ Returns("idle")
    /\ asking' = Asked /\ UNCHANGED readline

\* The numbered list: Enter alone is the default, what is out of range is asked again.
NumberAnswered(inRange) ==
    /\ console = "numbered" /\ asking.asked /\ UNCHANGED <<readline, follower>>
    /\ IF inRange THEN Returns("chosen") ELSE UNCHANGED <<console, keys, menu, typed>>
    /\ asking' = Asked

\* Ctrl-C rejects the question, which stays unanswered there: the prompt
\* is shown again, a followed log is left, a choice is cancelled.
Interrupted ==
    /\ console \in Questions /\ Returns("idle") /\ UNCHANGED readline
    /\ asking' = [asked |-> TRUE, stale |-> asking.asked \/ asking.stale]

\* The end of the input closes the readline, which is kept as the shared session.
InputEnds ==
    /\ console \in Questions /\ readline = "open" /\ readline' = "closed"
    /\ Returns("idle") /\ UNCHANGED asking

\* askConsoleLine; ERR_USE_AFTER_CLOSE leaves the console quietly.
PromptShown ==
    /\ console = "idle" /\ UNCHANGED <<menu, typed, follower>>
    /\ IF readline = "closed" THEN Quits /\ UNCHANGED keys ELSE QuestionAsked("prompt", FALSE)

(***************************************************************************)
(* Menus: askChoice and askChoiceArrows                                    *)
(***************************************************************************)

\* A terminal without raw mode, colours or a TTY gets the numbered list.
ChoiceAsked(arrows) ==
    /\ Dispatching /\ UNCHANGED <<follower, typed>>
    /\ \/ /\ arrows /\ console' = "menu" /\ keys' = [raw |-> TRUE, muted |-> FALSE]
          /\ menu' = [cursor |-> 1, buffer |-> 0] /\ UNCHANGED <<readline, asking>>
       \/ ~arrows /\ QuestionAsked("numbered", FALSE) /\ UNCHANGED menu

\* done(): raw mode ends, and with it the listener and the timer of the digits.
MenuDone(place) ==
    /\ console' = place /\ keys' = [raw |-> FALSE, muted |-> FALSE]
    /\ menu' = NoMenu /\ typed' = 0 /\ UNCHANGED <<readline, asking, follower>>

\* Enter or space.
OptionPicked == console = "menu" /\ MenuDone("chosen")
\* Esc and Ctrl-C reject the menu, and askChoice falls back to the numbered list.
MenuCancelled ==
    /\ console = "menu" /\ menu' = NoMenu /\ typed' = 0 /\ UNCHANGED follower
    /\ QuestionAsked("numbered", FALSE)

\* The digits are appended to the buffer and read as one number.
Joined(number, d) == 10 * number + d
\* What the owner has typed of a number, until a zero or an arrow comes between.
Interfered == -1
Heard(d) == IF typed = Interfered \/ (typed = 0 /\ d = 0) THEN typed
            ELSE IF d = 0 THEN Interfered ELSE Joined(typed, d)

\* The arrows go round; they leave the digits of the buffer alone.
ArrowPressed(step) ==
    /\ console = "menu" /\ typed' = Heard(0)
    /\ menu' = [menu EXCEPT !.cursor = ((@ - 1 + step + Options) % Options) + 1]
    /\ UNCHANGED <<console, readline, asking, keys, follower>>

\* digitBufferTarget: the cursor, where the buffer names no option.
DigitBufferTarget(buffer, cursor) == IF buffer \in 1..Options THEN buffer ELSE cursor

\* Only 1 to 9 are digits of a number: a zero is no key of the menu.
DigitPressed(d) ==
    /\ console = "menu" /\ menu.buffer < MaxBuffer
    /\ LET buffer == Joined(menu.buffer, d)
       IN  menu' = IF d = 0 THEN menu
                   ELSE [cursor |-> DigitBufferTarget(buffer, menu.cursor), buffer |-> buffer]
    /\ typed' = Heard(d)
    /\ UNCHANGED <<console, readline, asking, keys, follower>>

\* 800 ms after the last digit.
BufferEmptied(m) == [m EXCEPT !.buffer = 0]
DigitsPause ==
    /\ console = "menu" /\ menu.buffer # 0 /\ menu' = BufferEmptied(menu) /\ typed' = 0
    /\ UNCHANGED <<console, readline, asking, keys, follower>>

\* menuFrame: the first of the options shown.
FirstShown(cursor) ==
    IF Options <= PerPage THEN 1
    ELSE LET centred == cursor - PerPage \div 2
         IN  IF centred < 1 THEN 1 ELSE IF centred > Options - PerPage + 1 THEN Options - PerPage + 1 ELSE centred

(***************************************************************************)
(* Commands                                                                *)
(***************************************************************************)

\* exit, quit
ConsoleLeft ==
    Dispatching /\ Quits /\ UNCHANGED <<keys, menu, typed, follower>>

\* snapshot, status, health, markets, help and what is not understood print; an
\* error of any command is printed.  A choice that is made goes on in its command.
CommandReturns ==
    /\ console \in {"command", "chosen"} /\ console' = "idle"
    /\ UNCHANGED <<readline, asking, keys, menu, typed, follower>>

\* runSetupFlow closes the readline; a setup that succeeds returns, one that fails
\* or is cancelled exits.
SetupReturns(succeeds) ==
    /\ Dispatching /\ console' = (IF succeeds THEN "idle" ELSE "gone") /\ SessionCloses
    /\ UNCHANGED <<keys, menu, typed, follower>>

\* runConsoleLogs: the lines of a file every second, or the journal of the unit.
LogsFollowed(by) ==
    /\ Dispatching /\ follower' = by /\ QuestionAsked("following", TRUE) /\ UNCHANGED <<menu, typed>>

\* run: another agent keeps the console, the guard's refusal comes first.  The
\* readline closes before the arguments are read, which may fail.
RunRefused ==
    /\ Dispatching /\ console' = "idle"
    /\ UNCHANGED <<readline, asking, keys, menu, typed, follower>>
AgentStarted(valid) ==
    /\ Dispatching /\ console' = (IF valid THEN "agent" ELSE "idle") /\ SessionCloses
    /\ UNCHANGED <<keys, menu, typed, follower>>

\* SIGINT reaches the agent, whose shutdown ends the process.
AgentStops ==
    /\ console = "agent" /\ ~keys.raw /\ readline = "none" /\ console' = "gone"
    /\ UNCHANGED <<readline, asking, keys, menu, typed, follower>>

\* restart, and a halt that is chosen: `pkill -f node.*/dist/cli.js` stops every
\* process of the installed agent, this one too; one run from its sources goes on.
AgentsKilled(installed) ==
    /\ console \in {"command", "chosen"} /\ console' = (IF installed THEN "gone" ELSE "idle")
    /\ UNCHANGED <<readline, asking, keys, menu, typed, follower>>

-----------------------------------------------------------------------------

TerminalInit ==
    /\ console = "idle" /\ readline = "none" /\ asking = Asked
    /\ keys = [raw |-> FALSE, muted |-> FALSE]
    /\ menu = NoMenu /\ typed = 0 /\ follower = "none"

TerminalNext ==
    \/ PromptShown \/ LineLost \/ Interrupted \/ InputEnds \/ FollowAnswered
    \/ \E b \in BOOLEAN : PromptAnswered(b) \/ NumberAnswered(b) \/ ChoiceAsked(b)
    \/ OptionPicked \/ MenuCancelled \/ DigitsPause
    \/ \E step \in {-1, 1} : ArrowPressed(step)
    \/ \E d \in MenuDigits : DigitPressed(d)
    \/ ConsoleLeft \/ CommandReturns \/ RunRefused \/ AgentStops
    \/ \E b \in BOOLEAN : SetupReturns(b) \/ AgentStarted(b) \/ AgentsKilled(b)
    \/ \E by \in {"interval", "child"} : LogsFollowed(by)

-----------------------------------------------------------------------------

TerminalTypeOK ==
    /\ readline \in {"none", "open", "closed"} /\ follower \in {"none", "interval", "child"}
    /\ menu.cursor \in 0..Options /\ menu.buffer <= Joined(MaxBuffer, 9)

\* A number typed without a pause, an arrow or a zero is the option under the
\* cursor, however the pauses fall, and that option is on the page.
TypedIsPointedAt ==
    /\ typed \in 1..Options => menu.cursor = typed
    /\ console = "menu" => menu.cursor - FirstShown(menu.cursor) \in 0..PerPage - 1

\* Nothing is left behind at the terminal: raw mode ends with the menu, muting and
\* the printing of a log with their question, and an agent in the foreground finds
\* no readline that would swallow the interrupt meant for it.
TerminalIsHandedOn ==
    /\ keys.raw => console = "menu"
    /\ keys.muted \/ follower # "none" => console = "following"
    /\ console = "agent" => readline = "none"

\* A key does what the screen says, and the next reader finds the terminal as it was.
KeysAreHeard == TypedIsPointedAt /\ TerminalIsHandedOn
=============================================================================

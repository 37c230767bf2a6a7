------------------------------ MODULE Telegram ------------------------------
(***************************************************************************)
(* The remote control: a bot that polls Telegram, routes every message of  *)
(* a batch in turn, and runs a command that changes something only when    *)
(* the same user says YES to it.  Telegram keeps an update until a later   *)
(* poll confirms it, so a bot that dies sees the same messages again; its  *)
(* offset, its pending confirmations and its rate window die with it.      *)
(***************************************************************************)
EXTENDS Integers, Sequences, FiniteSets, SequencesExt

CONSTANTS
    Owner, Guest,   \* a static owner, and a user who needs to be paired
    Sayings,        \* the <<user, kind>> messages that are sent; kinds: read, change, yes, closed
    PageSize,       \* updates one poll may return
    PerMinute,      \* RATE_LIMIT_PER_MIN
    MaxPairings,    \* the backlog at which requestPairing throws
    MaxSayings, MaxDeaths, MaxGrants  \* bounds: messages, deaths, operator commands

VARIABLES
    chat,       \* all messages ever sent; an update id is an index
    confirmed,  \* updates Telegram need not deliver again
    bot,        \* the poller: [booted, offset, batch, at]; `at` is the message being routed
    session,    \* TelegramSession: pending confirmations and hits of the minute
    pairing,    \* rows of telegram_pairing: [user, status, live]
    allowlist,
    operator,   \* the second statement a CLI command has still to execute
    ran,        \* the changes that were executed: [user, asked, by]
    unheard,    \* messages the rate limit refused, and the YES of a stranger
    budget      \* deaths and operator commands so far

telegramVars == <<chat, confirmed, bot, session, pairing, allowlist, operator, ran, unheard, budget>>

TgUsers == {Owner, Guest}

ASSUME TelegramAssumption ==
    /\ PageSize \in Nat \ {0} /\ {PerMinute, MaxSayings} \subseteq Nat
    /\ Sayings \subseteq TgUsers \X {"read", "change", "yes", "closed"}

NoPending == [asked |-> 0, late |-> FALSE]
Boot == [booted |-> FALSE, offset |-> 1, batch |-> << >>, at |-> 0, allowed |-> FALSE]
FreshSession == [pending |-> [u \in TgUsers |-> NoPending], hits |-> [u \in TgUsers |-> 0]]

UserSays(u, kind) ==
    /\ Len(chat) < MaxSayings /\ chat' = Append(chat, [user |-> u, kind |-> kind])
    /\ UNCHANGED <<confirmed, bot, session, pairing, allowlist, operator, ran, unheard, budget>>

(***************************************************************************)
(* The poller                                                              *)
(***************************************************************************)

\* getUpdates confirms what is below the offset and returns a page of the rest.
Page == LET from == (IF bot.offset > 1 THEN bot.offset ELSE confirmed + 1)
            upto == from + PageSize - 1
        IN  [i \in 1..((IF upto < Len(chat) THEN upto ELSE Len(chat)) - from + 1) |-> from + i - 1]
\* What the first page after a start is for: the frontier is learnt and
\* nothing is acted upon.
OnBoot(page) == [bot EXCEPT !.booted = TRUE, !.offset = IF page = << >> THEN @ ELSE Last(page) + 1]

Fetches ==
    /\ bot.batch = << >> /\ bot.at = 0
    /\ (Page # << >> \/ ~bot.booted)
    /\ confirmed' = IF bot.offset > 1 THEN bot.offset - 1 ELSE confirmed
    /\ bot' = IF bot.booted THEN [bot EXCEPT !.batch = Page] ELSE OnBoot(Page)
    /\ UNCHANGED <<chat, session, pairing, allowlist, operator, ran, unheard, budget>>

\* The next message of the batch: the offset moves first, the rate limit
\* comes before everything, and who may speak is read from the table.
Takes ==
    /\ bot.batch # << >> /\ bot.at = 0
    /\ LET id == Head(bot.batch)
           u == chat[id].user
           ok == session.hits[u] < PerMinute
       IN  /\ session' = IF ok THEN [session EXCEPT !.hits[u] = @ + 1] ELSE session
           /\ unheard' = IF ok THEN unheard ELSE unheard \cup {id}
           /\ bot' = [bot EXCEPT !.offset = id + 1, !.batch = Tail(@), !.at = IF ok THEN id ELSE 0,
                                 !.allowed = u = Owner \/ u \in allowlist]
    /\ UNCHANGED <<chat, confirmed, pairing, allowlist, operator, ran, budget>>

\* takeConfirm: whatever is pending is gone, and runs if it is not too late.
\* Slip: the pending command stays for the next YES.
KeepsConfirm(u) == session
TakeConfirm(u) == [session EXCEPT !.pending[u] = NoPending]

RoutesYes ==
    LET u == chat[bot.at].user
        p == session.pending[u]
    IN  /\ bot.at # 0 /\ chat[bot.at].kind = "yes"
        /\ session' = IF bot.allowed THEN TakeConfirm(u) ELSE session
        /\ ran' = IF bot.allowed /\ p.asked # 0 /\ ~p.late
                  THEN Append(ran, [user |-> u, asked |-> p.asked, by |-> bot.at]) ELSE ran
        /\ unheard' = IF bot.allowed THEN unheard ELSE unheard \cup {bot.at}
        /\ bot' = [bot EXCEPT !.at = 0, !.allowed = FALSE]
        /\ UNCHANGED <<chat, confirmed, pairing, allowlist, operator, budget>>

\* requestPairing: a pending code that is still valid is not sent again, and
\* the backlog counts the expired ones too.
Challenge(rows, u) ==
    IF \E i \in DOMAIN rows : rows[i].user = u /\ rows[i].status = "pending" /\ rows[i].live THEN rows
    ELSE IF Cardinality({i \in DOMAIN rows : rows[i].status = "pending"}) >= MaxPairings THEN rows
    ELSE Append(rows, [user |-> u, status |-> "pending", live |-> TRUE])

\* Every other message withdraws what is pending.  A stranger is challenged; a
\* read command runs, a closed one is refused, a change waits for a YES.
RoutesOther ==
    LET u == chat[bot.at].user
        kind == chat[bot.at].kind
    IN  /\ bot.at # 0 /\ kind # "yes"
        /\ pairing' = IF bot.allowed THEN pairing ELSE Challenge(pairing, u)
        /\ session' = [session EXCEPT !.pending[u] = IF bot.allowed /\ kind = "change"
                                                     THEN [asked |-> bot.at, late |-> FALSE] ELSE NoPending]
        /\ bot' = [bot EXCEPT !.at = 0, !.allowed = FALSE]
        /\ UNCHANGED <<chat, confirmed, allowlist, operator, ran, unheard, budget>>

MinutePasses ==
    /\ \E u \in TgUsers : session.hits[u] >= PerMinute
    /\ session' = [session EXCEPT !.hits = FreshSession.hits]
    /\ UNCHANGED <<chat, confirmed, bot, pairing, allowlist, operator, ran, unheard, budget>>

ConfirmExpires(u) ==
    /\ session.pending[u].asked # 0 /\ ~session.pending[u].late
    /\ session' = [session EXCEPT !.pending[u].late = TRUE]
    /\ UNCHANGED <<chat, confirmed, bot, pairing, allowlist, operator, ran, unheard, budget>>

\* The process dies, which the restart and update commands bring about.
BotDies ==
    /\ budget.deaths < MaxDeaths /\ budget' = [budget EXCEPT !.deaths = @ + 1]
    /\ bot' = Boot /\ session' = FreshSession
    /\ UNCHANGED <<chat, confirmed, pairing, allowlist, operator, ran, unheard>>

(***************************************************************************)
(* The operator's commands, two statements each, and the clock             *)
(***************************************************************************)

OperatorActs == budget.grants < MaxGrants /\ budget' = [budget EXCEPT !.grants = @ + 1]
NoOperator == [does |-> "nothing", user |-> Owner]

CodeExpires(i) ==
    /\ pairing[i].status = "pending" /\ pairing[i].live
    /\ pairing' = [pairing EXCEPT ![i].live = FALSE]
    /\ UNCHANGED <<chat, confirmed, bot, session, allowlist, operator, ran, unheard, budget>>

Approves(i) ==
    /\ OperatorActs /\ operator = NoOperator
    /\ pairing[i].status = "pending" /\ pairing[i].live
    /\ pairing' = [pairing EXCEPT ![i].status = "approved"]
    /\ operator' = [does |-> "lists", user |-> pairing[i].user]
    /\ UNCHANGED <<chat, confirmed, bot, session, allowlist, ran, unheard>>

AllowsDirectly(u) ==
    /\ OperatorActs /\ allowlist' = allowlist \cup {u}
    /\ UNCHANGED <<chat, confirmed, bot, session, pairing, operator, ran, unheard>>

Revokes(u) ==
    /\ OperatorActs /\ operator = NoOperator
    /\ allowlist' = allowlist \ {u} /\ operator' = [does |-> "revokes", user |-> u]
    /\ UNCHANGED <<chat, confirmed, bot, session, pairing, ran, unheard>>

OperatorGoesOn ==
    /\ operator # NoOperator /\ operator' = NoOperator
    /\ allowlist' = IF operator.does = "lists" THEN allowlist \cup {operator.user} ELSE allowlist
    /\ pairing' = [i \in DOMAIN pairing |->
                     IF operator.does = "revokes" /\ pairing[i].user = operator.user
                     THEN [pairing[i] EXCEPT !.status = "revoked"] ELSE pairing[i]]
    /\ UNCHANGED <<chat, confirmed, bot, session, ran, unheard, budget>>

-----------------------------------------------------------------------------

TelegramInit ==
    /\ chat = << >> /\ confirmed = 0 /\ bot = Boot /\ session = FreshSession
    /\ pairing = << >> /\ allowlist = {} /\ operator = NoOperator
    /\ ran = << >> /\ unheard = {} /\ budget = [deaths |-> 0, grants |-> 0]

TelegramNext ==
    \/ \E s \in Sayings : UserSays(s[1], s[2])
    \/ Fetches \/ Takes \/ RoutesYes \/ RoutesOther
    \/ MinutePasses \/ \E u \in TgUsers : ConfirmExpires(u)
    \/ BotDies
    \/ \E i \in DOMAIN pairing : CodeExpires(i) \/ Approves(i)
    \/ AllowsDirectly(Guest) \/ Revokes(Guest) \/ OperatorGoesOn

-----------------------------------------------------------------------------

TelegramTypeOK ==
    /\ bot.offset \in 1..(Len(chat) + 1) /\ confirmed \in 0..Len(chat) /\ confirmed < bot.offset + PageSize * MaxSayings
    /\ bot.at \in 0..Len(chat) /\ unheard \subseteq DOMAIN chat
    /\ \A u \in TgUsers : session.hits[u] \in 0..PerMinute /\ session.pending[u].asked \in 0..Len(chat)
    /\ \A i \in DOMAIN pairing : pairing[i].status \in {"pending", "approved", "revoked"}

\* What changed something was asked for and confirmed by one and the same
\* user, who said nothing in between that the bot listened to; no request and
\* no YES counts twice, however often the bot dies between running a command
\* and confirming its update.
ConfirmedOnce ==
    /\ \A k \in DOMAIN ran :
         LET r == ran[k]
         IN  /\ chat[r.asked] = [user |-> r.user, kind |-> "change"]
             /\ chat[r.by] = [user |-> r.user, kind |-> "yes"] /\ r.asked < r.by
             /\ \A i \in (r.asked + 1)..(r.by - 1) : chat[i].user = r.user => i \in unheard
    /\ \A j, k \in DOMAIN ran : j # k => ran[j].asked # ran[k].asked /\ ran[j].by # ran[k].by
=============================================================================

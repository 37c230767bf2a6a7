---------------------------- MODULE ForecastDesk ----------------------------
(***************************************************************************)
(* How the agent asks a model for a probability with the owner's Codex     *)
(* login: the login file that the agent, the command line and the codex    *)
(* program share, the refresh of an expired token, the answer, and what a  *)
(* step writes down.                                                       *)
(***************************************************************************)
EXTENDS Integers, FiniteSets

CONSTANTS
    Askers,         \* processes that use the login file
    DeskMarkets,         \* markets
    MaxTokens,      \* bound on the refresh tokens the server gives out
    MaxDeskFaults   \* bound on lost answers, failed writes and crashes

ASSUME DeskAssumption == MaxTokens \in Nat \ {0}

VARIABLES
    file,       \* auth.json: its refresh token, its access token, the account id
    server,     \* the refresh token the server takes, the live access token
    asker,      \* asker -> where it is and the credentials it holds
    cooling,    \* lastForecastFail: markets that failed less than 45 s ago
    written,    \* what steps left in the tables: <<table, market>>
    deskFaults  \* history: faults, and whether one lost a token

deskVars == <<file, server, asker, cooling, written, deskFaults>>

Resting == [pc |-> "rest", topic |-> {}, access |-> 0, refresh |-> 0]
NotCalibrated == {"failed", "null"}

(***************************************************************************)
(* loadCodexAuth                                                           *)
(***************************************************************************)

\* forecast: a market that failed a moment ago is not asked about again.
Asks(a, m) ==
    /\ asker[a].pc = "rest" /\ m \notin cooling
    /\ asker' = [asker EXCEPT ![a] = [Resting EXCEPT !.pc = "reading", !.topic = {m}]]
    /\ UNCHANGED <<file, server, cooling, written, deskFaults>>

\* The token tells when it expires, so the file alone decides on a refresh.
ReadsLogin(a) ==
    /\ asker[a].pc = "reading"
    /\ asker' = [asker EXCEPT
          ![a].access = file.access, ![a].refresh = file.refresh,
          ![a].pc = IF file.access = server.access THEN "calling" ELSE "refreshing"]
    /\ UNCHANGED <<file, server, cooling, written, deskFaults>>

\* The server answers the newest token only, and takes it out of use.
Refreshes(a) ==
    /\ asker[a].pc = "refreshing"
    /\ IF asker[a].refresh # server.refresh
       THEN asker' = [asker EXCEPT ![a].pc = "failed"] /\ server' = server
       ELSE /\ server.refresh < MaxTokens
            /\ server' = [refresh |-> server.refresh + 1, access |-> server.refresh + 1]
            /\ asker' = [asker EXCEPT ![a].pc = "writing", ![a].access = server'.access, ![a].refresh = server'.refresh]
    /\ UNCHANGED <<file, cooling, written, deskFaults>>

\* The request may reach the server and its answer not come back.
RefreshIsLost(a) ==
    /\ asker[a].pc = "refreshing" /\ deskFaults.count < MaxDeskFaults
    /\ \/ asker[a].refresh = server.refresh /\ server.refresh < MaxTokens
          /\ server' = [refresh |-> server.refresh + 1, access |-> server.refresh + 1]
          /\ deskFaults' = [count |-> deskFaults.count + 1, lost |-> TRUE]
       \/ server' = server /\ deskFaults' = [deskFaults EXCEPT !.count = @ + 1]
    /\ asker' = [asker EXCEPT ![a].pc = "failed"]
    /\ UNCHANGED <<file, cooling, written>>

\* Slip: the merge keeps the refresh token the file has.
MergeAccessOnly(creds) == [file EXCEPT !.access = creds.access, !.nested = TRUE]
\* Read, merge and write of the file in one turn.  A login kept at the root of
\* the file becomes one under "tokens", and its account id stays behind.
MergeIntoFile(creds) == [refresh |-> creds.refresh, access |-> creds.access, nested |-> TRUE,
                         account |-> file.account /\ file.nested]

WritesLogin(a) ==
    /\ asker[a].pc = "writing"
    /\ file' = MergeIntoFile(asker[a])
    /\ asker' = [asker EXCEPT ![a].pc = "calling"]
    /\ UNCHANGED <<server, cooling, written, deskFaults>>

\* A write that fails is swallowed: the fresh token is used all the same.
WriteFails(a) ==
    /\ asker[a].pc = "writing" /\ deskFaults.count < MaxDeskFaults
    /\ deskFaults' = [count |-> deskFaults.count + 1, lost |-> TRUE]
    /\ asker' = [asker EXCEPT ![a].pc = "calling"]
    /\ UNCHANGED <<file, server, cooling, written>>

AccessExpires ==
    /\ server.access # 0 /\ server' = [server EXCEPT !.access = 0]
    /\ UNCHANGED <<file, asker, cooling, written, deskFaults>>

(***************************************************************************)
(* forecastDetailed and the step that follows                              *)
(***************************************************************************)

\* An answer without a number from 0 to 1 in its JSON object is no forecast.
Answered(a, answer) ==
    /\ asker[a].pc = "calling"
    /\ answer = "p" => asker[a].access = server.access
    /\ asker' = [asker EXCEPT ![a].pc = answer]
    /\ UNCHANGED <<file, server, cooling, written, deskFaults>>

\* persistStep: a snapshot of a registered market, a forecast if there is one,
\* the decision always; each INSERT may fail alone.
StepRows(m, answer, registered) ==
    (IF registered THEN {<<"market_snapshots", m>>} ELSE {})
        \cup (IF answer = "p" THEN {<<"forecasts", m>>} ELSE {}) \cup {<<"shadow_log", m>>}

StepEnds0(a, registered, failing) ==
    /\ asker[a].pc \in {"p"} \cup NotCalibrated
    /\ LET m == asker[a].topic
       IN  /\ cooling' = IF asker[a].pc = "p" THEN cooling \ m ELSE cooling \cup m
           /\ written' = written \cup {r \in UNION {StepRows(t, asker[a].pc, registered) : t \in m} : r[1] # failing}
    /\ asker' = [asker EXCEPT ![a] = Resting]
    /\ UNCHANGED <<file, server, deskFaults>>

CoolsDown(m) ==
    /\ m \in cooling /\ cooling' = cooling \ {m}
    /\ UNCHANGED <<file, server, asker, written, deskFaults>>

AskerDies(a) ==
    /\ asker[a].pc # "rest" /\ deskFaults.count < MaxDeskFaults
    /\ deskFaults' = [count |-> deskFaults.count + 1, lost |-> deskFaults.lost \/ asker[a].pc = "writing"]
    /\ asker' = [asker EXCEPT ![a] = Resting]
    /\ UNCHANGED <<file, server, cooling, written>>

-----------------------------------------------------------------------------

DeskInit ==
    /\ file = [refresh |-> 1, access |-> 1, nested |-> FALSE, account |-> TRUE]
    /\ server = [refresh |-> 1, access |-> 1]
    /\ asker = [a \in Askers |-> Resting] /\ cooling = {} /\ written = {}
    /\ deskFaults = [count |-> 0, lost |-> FALSE]

DeskNext ==
    \/ \E a \in Askers :
          \/ \E m \in DeskMarkets : Asks(a, m)
          \/ ReadsLogin(a) \/ Refreshes(a) \/ RefreshIsLost(a) \/ WritesLogin(a) \/ WriteFails(a) \/ AskerDies(a)
          \/ \E answer \in {"p", "null"} : Answered(a, answer)
          \/ \E r \in BOOLEAN, f \in {"none", "market_snapshots", "forecasts", "shadow_log"} : StepEnds0(a, r, f)
    \/ AccessExpires \/ \E m \in DeskMarkets : CoolsDown(m)

-----------------------------------------------------------------------------

DeskTypeOK ==
    /\ {server.refresh, server.access} \subseteq 0..MaxTokens /\ cooling \subseteq DeskMarkets
    /\ file.refresh \in 1..server.refresh
    /\ \A a \in Askers : asker[a].pc = "rest" <=> asker[a].topic = {}

\* However the refreshes of processes that share the file interleave, the login
\* survives: the token the server takes is in the file or about to be written,
\* unless an answer, a write or the process that held it was lost.
LoginSurvives ==
    deskFaults.lost \/ \E t \in {file} \cup {asker[a] : a \in {b \in Askers : asker[b].pc = "writing"}} :
                          t.refresh = server.refresh
=============================================================================

------------------------------ MODULE StartUp ------------------------------
(***************************************************************************)
(* How an agent process starts, trades and stops, and what keeps two of    *)
(* them from trading the same markets: a look at the systemd unit, a probe *)
(* of the metrics port, and the bind of that port as the final arbiter.    *)
(***************************************************************************)
EXTENDS Integers, FiniteSets

CONSTANTS
    Procs,          \* process slots; a slot that ended may be started again
    Service,        \* the one systemd starts and restarts
    MaxStarts       \* bound on starts

Nobody == "nobody"

ASSUME StartUpAssumption == Nobody \notin Procs

VARIABLES
    procs,      \* [pc, once, passing, jobs] of each process
    port,       \* who is bound to the metrics port
    starts      \* starts so far

startUpVars == <<procs, port, starts>>

Off == [pc |-> "off", once |-> FALSE, passing |-> FALSE, jobs |-> FALSE]
At(p, here) == procs[p].pc = here
Goes(p, there) == procs' = [procs EXCEPT ![p].pc = there]
\* pool.end and process.exit: the jobs and the port go with the process.
Exits(p) == procs' = [procs EXCEPT ![p] = Off] /\ port' = IF port = p THEN Nobody ELSE port

\* bootstrapAgent starts the reservation expiry job and the smart money sync.
Boots(p, once) ==
    /\ At(p, "off") /\ starts < MaxStarts /\ starts' = starts + 1
    /\ p = Service => ~once
    /\ procs' = [procs EXCEPT ![p] = [pc |-> "cash", once |-> once, passing |-> FALSE, jobs |-> TRUE]]
    /\ UNCHANGED port

\* LIVE refuses a funder without readable cash.
ChecksCash(p) ==
    /\ At(p, "cash") /\ UNCHANGED starts
    /\ \/ Goes(p, "hydrate") /\ UNCHANGED port
       \/ Exits(p)
\* seenStore.hydrate; a failure is fatal.  A single run skips the guard.
Hydrates(p) ==
    /\ At(p, "hydrate") /\ UNCHANGED starts
    /\ \/ Goes(p, IF procs[p].once THEN "single" ELSE "unit") /\ UNCHANGED port
       \/ Exits(p)

\* assertSingleInstance: the unit's active main process is somebody else.  An
\* unreadable unit passes.
ChecksUnit(p) ==
    /\ At(p, "unit") /\ UNCHANGED starts
    /\ \/ p # Service /\ ~At(Service, "off") /\ Exits(p)
       \/ Goes(p, "probe") /\ UNCHANGED port

\* A probe that times out passes.
ProbesPort(p) ==
    /\ At(p, "probe") /\ UNCHANGED starts
    /\ \/ port # Nobody /\ Exits(p)
       \/ Goes(p, "bind") /\ UNCHANGED port

\* Slip: a metrics server that cannot start is only a warning.
WarnsOnly(p) == Goes(p, "jobs") /\ port' = IF port = Nobody THEN p ELSE port
\* MetricsServer.start, and EADDRINUSE ends the process.
BindsPort(p) == IF port = Nobody THEN Goes(p, "jobs") /\ port' = p ELSE Exits(p)
Binds(p) == At(p, "bind") /\ BindsPort(p) /\ UNCHANGED starts

\* The resolution sync, the arbitrage scan and the bot start, each optional.
StartsLoop(p) == At(p, "jobs") /\ Goes(p, "loop") /\ UNCHANGED <<port, starts>>

\* `while (this.running)`: a pass goes on to its end whatever happens to the
\* flag in between.
PassBegins(p) ==
    /\ At(p, "loop") \/ At(p, "single")
    /\ ~procs[p].passing /\ procs' = [procs EXCEPT ![p].passing = TRUE]
    /\ UNCHANGED <<port, starts>>
PassEnds(p) ==
    /\ procs[p].passing /\ UNCHANGED starts
    /\ IF At(p, "single") THEN Exits(p)
       ELSE procs' = [procs EXCEPT ![p].passing = FALSE] /\ UNCHANGED port

\* SIGTERM or SIGINT: the jobs stop, the loop is told to, and the metrics
\* server closes in its own time.
Signals(p) ==
    /\ procs[p].pc \in {"jobs", "loop"}
    /\ procs' = [procs EXCEPT ![p].pc = "stopping", ![p].jobs = FALSE]
    /\ UNCHANGED <<port, starts>>
PortCloses(p) == At(p, "stopping") /\ port = p /\ port' = Nobody /\ UNCHANGED <<procs, starts>>
\* The pool has closed, or ten seconds have passed.
ShutsDown(p) == At(p, "stopping") /\ Exits(p) /\ UNCHANGED starts
\* A signal before the handlers are there, kill -9 or an uncaught error.
Dies(p) == ~At(p, "off") /\ Exits(p) /\ UNCHANGED starts

-----------------------------------------------------------------------------

StartUpInit == procs = [p \in Procs |-> Off] /\ port = Nobody /\ starts = 0

StartUpNext ==
    \E p \in Procs :
        \/ \E once \in BOOLEAN : Boots(p, once)
        \/ ChecksCash(p) \/ Hydrates(p) \/ ChecksUnit(p) \/ ProbesPort(p) \/ Binds(p) \/ StartsLoop(p)
        \/ PassBegins(p) \/ PassEnds(p) \/ Signals(p) \/ PortCloses(p) \/ ShutsDown(p) \/ Dies(p)

-----------------------------------------------------------------------------

StartUpTypeOK ==
    /\ port \in Procs \cup {Nobody}
    /\ \A p \in Procs : At(p, "off") => procs[p] = Off /\ port # p

\* Two loops never trade side by side: however the starts, the checks that
\* fail open and the binds interleave, of two processes in the middle of a
\* pass over the markets one has been told to stop.
OneTrader ==
    \A p, q \in {r \in Procs : procs[r].passing /\ ~procs[r].once} :
        p # q => At(p, "stopping") \/ At(q, "stopping")
=============================================================================

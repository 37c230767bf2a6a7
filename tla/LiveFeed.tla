------------------------------ MODULE LiveFeed ------------------------------
(***************************************************************************)
(* The live feed of the order books: one WebSocket with its reconnects,    *)
(* the connect timeouts nobody clears, close events that come late, and    *)
(* the book of a market rebuilt from snapshots and deltas.  The promise of *)
(* connectWebSocket is never fulfilled, only rejected, so start waits for  *)
(* ever once the socket opens and the polling of metadata never begins.    *)
(***************************************************************************)
EXTENDS Integers, Sequences, SequencesExt

CONSTANTS
    Levels,         \* prices at which orders come and go
    BaseLevel,      \* a price at which the venue always has an order
    Rules,          \* versions of the settlement rule
    MaxReconnectAttempts,
    MaxWire,        \* bound on the messages under way
    MaxCalls,      \* bound on the calls of start and of stop
    MaxPending      \* bound on pending timeouts and close events

ASSUME FeedAssumption == BaseLevel \notin Levels /\ {MaxReconnectAttempts, MaxPending} \subseteq Nat

VARIABLES
    socket,     \* this.ws: null, connecting, open or closed
    closing,    \* sockets whose close event is still to come
    flags,      \* connecting, connected, the reconnect timer, the attempts
    timeouts,   \* pending connect timeouts: of start, and of reconnects
    calls,      \* calls of start and of stop
    wire,       \* messages under way on the open socket
    lob,        \* the venue's levels
    book,       \* OrderBook: [ready, levels]
    rule        \* the registered version of the settlement rule

feedVars == <<socket, closing, flags, timeouts, calls, wire, lob, book, rule>>

(***************************************************************************)
(* The connection                                                          *)
(***************************************************************************)

Connects(from) ==
    /\ socket' = "connecting" /\ wire' = << >>
    /\ timeouts[from] < MaxPending /\ timeouts' = [timeouts EXCEPT ![from] = @ + 1]

FeedStarts ==
    /\ calls.start < MaxCalls /\ calls' = [calls EXCEPT !.start = @ + 1]
    /\ ~flags.connecting /\ ~flags.connected
    /\ flags' = [flags EXCEPT !.connecting = TRUE]
    /\ Connects("start")
    /\ UNCHANGED <<closing, lob, book, rule>>

\* onopen; the venue answers the subscription with the whole book.
Opens ==
    /\ socket = "connecting" /\ socket' = "open"
    /\ flags' = [flags EXCEPT !.connected = TRUE, !.attempts = 0]
    /\ wire' = <<[kind |-> "snapshot", levels |-> lob]>>
    /\ UNCHANGED <<closing, timeouts, calls, lob, book, rule>>

\* onclose: an attempt is scheduled unless one is, or too many have failed.
Closed(f) ==
    IF f.timer \/ f.attempts >= MaxReconnectAttempts THEN [f EXCEPT !.connected = FALSE]
    ELSE [f EXCEPT !.connected = FALSE, !.timer = TRUE, !.attempts = @ + 1]

SocketDrops ==
    /\ socket \in {"connecting", "open"} /\ socket' = "closed" /\ wire' = << >>
    /\ flags' = Closed(flags)
    /\ UNCHANGED <<closing, timeouts, calls, lob, book, rule>>

\* The close event of a socket that was closed from here, whatever the feed
\* has done since.
CloseEventArrives ==
    /\ closing > 0 /\ closing' = closing - 1
    /\ flags' = Closed(flags)
    /\ UNCHANGED <<socket, timeouts, calls, wire, lob, book, rule>>

\* this.ws.close(): the close event of a live socket comes later.
ClosesSocket(left) ==
    /\ socket' = left /\ wire' = << >>
    /\ IF socket \in {"connecting", "open"} THEN closing < MaxPending /\ closing' = closing + 1
       ELSE closing' = closing

\* Nobody clears a connect timeout: it closes whatever socket there is then.
TimeoutFires(from) ==
    /\ timeouts[from] > 0 /\ timeouts' = [timeouts EXCEPT ![from] = @ - 1]
    /\ IF flags.connected THEN UNCHANGED <<flags, socket, wire, closing>>
       ELSE /\ ClosesSocket(IF socket = "null" THEN "null" ELSE "closed")
            /\ flags' = IF from = "start" THEN [flags EXCEPT !.connecting = FALSE] ELSE flags
    /\ UNCHANGED <<calls, lob, book, rule>>

ReconnectFires ==
    /\ flags.timer /\ flags' = [flags EXCEPT !.timer = FALSE]
    /\ IF flags.connected \/ flags.connecting THEN UNCHANGED <<socket, wire, timeouts>>
       ELSE Connects("reconnect")
    /\ UNCHANGED <<closing, calls, lob, book, rule>>

FeedStops ==
    /\ calls.stop < MaxCalls /\ calls.stop < calls.start
    /\ calls' = [calls EXCEPT !.stop = @ + 1]
    /\ ClosesSocket("null")
    /\ flags' = [flags EXCEPT !.connected = FALSE, !.timer = FALSE]
    /\ UNCHANGED <<timeouts, lob, book, rule>>

(***************************************************************************)
(* The messages                                                            *)
(***************************************************************************)

Sent(message) == IF socket = "open" THEN Append(wire, message) ELSE wire

VenueBookChanges(p) ==
    /\ Len(wire) < MaxWire
    /\ lob' = IF p \in lob THEN lob \ {p} ELSE lob \cup {p}
    /\ wire' = Sent([kind |-> "delta", level |-> p, gone |-> p \in lob])
    /\ UNCHANGED <<socket, closing, flags, timeouts, calls, book, rule>>

VenueRuleChanges(v) ==
    /\ Len(wire) < MaxWire /\ socket = "open" /\ wire' = Append(wire, [kind |-> "market", rule |-> v])
    /\ UNCHANGED <<socket, closing, flags, timeouts, calls, lob, book, rule>>

\* Slip: once the book is ready a snapshot is merged into it.
ApplyMerging(b, frame) ==
    IF frame.kind = "snapshot" /\ b.ready THEN [b EXCEPT !.levels = @ \cup frame.levels]
    ELSE CASE frame.kind = "snapshot"          -> [ready |-> TRUE, levels |-> frame.levels]
           [] frame.kind = "delta" /\ ~b.ready -> b
           [] OTHER -> [b EXCEPT !.levels = IF frame.gone THEN @ \ {frame.level} ELSE @ \cup {frame.level}]
\* OrderBook.apply: a frame that is not a delta replaces the book, a delta to a
\* book that has none is an error and changes nothing.
ApplyFrame(b, frame) ==
    CASE frame.kind = "snapshot"           -> [ready |-> TRUE, levels |-> frame.levels]
      [] frame.kind = "delta" /\ ~b.ready  -> b
      [] OTHER -> [b EXCEPT !.levels = IF frame.gone THEN @ \ {frame.level} ELSE @ \cup {frame.level}]

\* handleMessage: a book frame, or the metadata of a market.
MessageArrives ==
    /\ socket = "open" /\ wire # << >> /\ wire' = Tail(wire)
    /\ LET message == Head(wire)
       IN  IF message.kind = "market" THEN rule' = message.rule /\ book' = book
           ELSE book' = ApplyFrame(book, message) /\ rule' = rule
    /\ UNCHANGED <<socket, closing, flags, timeouts, calls, lob>>

-----------------------------------------------------------------------------

FeedInit ==
    /\ socket = "null" /\ closing = 0 /\ wire = << >>
    /\ flags = [connecting |-> FALSE, connected |-> FALSE, timer |-> FALSE, attempts |-> 0]
    /\ timeouts = [start |-> 0, reconnect |-> 0] /\ calls = [start |-> 0, stop |-> 0]
    /\ lob = {BaseLevel} /\ book = [ready |-> FALSE, levels |-> {}] /\ rule = "none"

FeedNext ==
    \/ FeedStarts \/ Opens \/ SocketDrops \/ CloseEventArrives \/ ReconnectFires \/ FeedStops
    \/ \E from \in DOMAIN timeouts : TimeoutFires(from)
    \/ \E p \in Levels : VenueBookChanges(p)
    \/ \E v \in Rules : VenueRuleChanges(v)
    \/ MessageArrives

-----------------------------------------------------------------------------

FeedTypeOK ==
    /\ socket \in {"null", "connecting", "open", "closed"} /\ closing \in 0..MaxPending
    /\ flags.attempts \in 0..MaxReconnectAttempts
    /\ lob \subseteq Levels \cup {BaseLevel} /\ BaseLevel \in lob
    /\ book.levels # {} => book.ready

\* While a socket is open and nothing is under way on it, the book is the
\* venue's, though what the venue changed while there was no connection was
\* lost and the old book was kept: the first frame of a connection replaces it.
BookFollowsVenue == socket = "open" /\ wire = << >> => book.levels = lob
=============================================================================

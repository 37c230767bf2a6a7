--------------------------- MODULE AppendOnlyLog ---------------------------
(***************************************************************************)
(* What an event store promises: a log of numbered events that only grows, *)
(* in which neither an event nor a number appears twice.                   *)
(***************************************************************************)
EXTENDS Integers

CONSTANT Events

VARIABLE log    \* the visible rows: [id, seq]

LogInit == log = {}

Unique(rows) == \A r, s \in rows : r.id = s.id \/ r.seq = s.seq => r = s

\* One or more events become visible at once.
LogAppend ==
    /\ log \subseteq log' /\ log' \subseteq [id : Events, seq : Nat]
    /\ Unique(log')

LogSpec == LogInit /\ [][LogAppend]_log
=============================================================================

--------------------------- MODULE MCReservations ---------------------------
(* Two callers, two intents, up to three reservations over a short horizon. *)
EXTENDS Reservations, TLC

CONSTANTS c1, c2, i1, i2

Symmetry == Permutations({c1, c2}) \cup Permutations({i1, i2})
=============================================================================

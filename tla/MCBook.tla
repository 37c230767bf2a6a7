------------------------------- MODULE MCBook -------------------------------
(* Two orders, each for a market of its own.                               *)
EXTENDS ExposureBook

OwnMarket == [o \in Orders |-> o]
=============================================================================

----------------------------- MODULE OrderLife -----------------------------
(***************************************************************************)
(* What the executor promises of an order, whatever calls, failures and    *)
(* restarts it took: its permit is spent on one order, the venue is asked  *)
(* once and only for that order, and the ledger's verdict is written once, *)
(* when the order's fate is sealed, and says what that fate is.            *)
(***************************************************************************)

CONSTANTS Orders, Permits, PermitOf, Unclaimed

VARIABLES
  holder,   \* permit -> the order it is spent on, or Unclaimed
  fate,     \* order -> UNASKED, or the status the venue has it in
  verdict   \* order -> what the ledger closed it with, or NONE

Statuses == {"NONE", "SENT", "LIVE", "MATCHED", "CANCELED"}

LifeInit ==
  /\ holder = [p \in Permits |-> Unclaimed]
  /\ fate = [o \in Orders |-> "UNASKED"]
  /\ verdict = [o \in Orders |-> "NONE"]

Claim(o) ==
  /\ holder[PermitOf[o]] = Unclaimed
  /\ holder' = [holder EXCEPT ![PermitOf[o]] = o]
  /\ UNCHANGED <<fate, verdict>>

\* The one request for an order, with whatever the venue makes of it.
Ask(o) ==
  /\ holder[PermitOf[o]] = o /\ fate[o] = "UNASKED" /\ verdict[o] = "NONE"
  /\ \E status \in Statuses : fate' = [fate EXCEPT ![o] = status]
  /\ UNCHANGED <<holder, verdict>>

\* A request on the wire arrives or is lost; a resting order ends.
Happens(o) ==
  /\ fate[o] \in {"SENT", "LIVE"}
  /\ \E status \in Statuses \ {"SENT"} :
       /\ status = "NONE" => fate[o] = "SENT"
       /\ fate' = [fate EXCEPT ![o] = status]
  /\ UNCHANGED <<holder, verdict>>

\* An order that was never asked for is dead once its permit is gone.
Close(o) ==
  /\ verdict[o] = "NONE"
  /\ \/ fate[o] = "MATCHED" /\ verdict' = [verdict EXCEPT ![o] = "ACKNOWLEDGED"]
     \/ /\ fate[o] \in {"NONE", "CANCELED"} \/ (fate[o] = "UNASKED" /\ holder[PermitOf[o]] # Unclaimed)
        /\ verdict' = [verdict EXCEPT ![o] = "DEFINITIVE_REJECT"]
  /\ UNCHANGED <<holder, fate>>

LifeNext == \E o \in Orders : Claim(o) \/ Ask(o) \/ Happens(o) \/ Close(o)

LifeSpec == LifeInit /\ [][LifeNext]_<<holder, fate, verdict>>
=============================================================================

----------------------------- MODULE Envelopes -----------------------------
(***************************************************************************)
(* What the reservations of an account promise of its money: it is free or *)
(* in the envelope of a reservation; an envelope is filled once, from what *)
(* is free; what is taken out is spent, or all that is left goes back at   *)
(* once and for good; new money comes only as an operator attests it.      *)
(***************************************************************************)
EXTENDS RunningTotal, Sequences

CONSTANT Attestations   \* what the operator may say the account has

VARIABLES
  free,       \* money no reservation holds
  envelopes   \* one per reservation: what it still holds, what it spent

PurseInit == free = 0 /\ envelopes = <<>>

Reserve ==
  \E x \in 1 .. free :
    /\ free' = free - x
    /\ envelopes' = Append(envelopes, [held |-> x, spent |-> 0])

Spend(e) ==
  /\ \E x \in 1 .. envelopes[e].held :
       envelopes' = [envelopes EXCEPT ![e] = [held |-> @.held - x, spent |-> @.spent + x]]
  /\ UNCHANGED free

Return(e) ==
  /\ free' = free + envelopes[e].held
  /\ envelopes' = [envelopes EXCEPT ![e] = [held |-> 0, spent |-> @.spent]]

HeldInAll == Total([e \in DOMAIN envelopes |-> envelopes[e].held], Len(envelopes))
Credit ==
  /\ free' > free /\ free' + HeldInAll \in Attestations
  /\ UNCHANGED envelopes

PurseNext ==
  \/ Reserve
  \/ \E e \in DOMAIN envelopes : Spend(e) \/ Return(e)
  \/ Credit

PurseSpec == PurseInit /\ [][PurseNext]_<<free, envelopes>>
=============================================================================

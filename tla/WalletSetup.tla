---------------------------- MODULE WalletSetup -----------------------------
(***************************************************************************)
(* The contracts of setting a deposit wallet up (wallet-setup.ts): the     *)
(* life cycle, the relayer operation and its nonce, the call that approves *)
(* and the check of the spender.  A setup service drives them: it persists *)
(* what they accept and sends it to a relayer that may be slow or lose it, *)
(* so that what was answered, what was done and what is known can differ.  *)
(***************************************************************************)
EXTENDS Integers, FiniteSets

CONSTANTS
    Spenders,       \* who an allowance may name
    Required,       \* the spender the mandate requires
    MaxAttempts     \* bound on the attempts of the operation

ASSUME RequiredIsSpender == Required \in Spenders
ASSUME AttemptsAssumption == MaxAttempts \in Nat

VARIABLES
    life,       \* WalletLifecycleState
    found,      \* what the last discovery reported
    operation,  \* the durable relayer operation of the creation
    relaying,   \* nonces on their way to the relayer
    onchain     \* the relayer's last nonce, wallets deployed, allowances that stand

walletVars == <<life, found, operation, relaying, onchain>>

NoOperation == [nonce |-> -1, status |-> "none", attempts |-> 0]
LifeStates == {"DISCOVERING", "EXISTING", "ABSENT", "SETUP_AUTHORIZED", "CREATING", "DEPLOYED",
               "APPROVAL_PENDING", "READY", "UNKNOWN", "FAILED", "BLOCKED"}

(***************************************************************************)
(* advanceWalletLifecycle: the events of any state                         *)
(***************************************************************************)

LifecycleExits ==
    /\ \/ life # "BLOCKED" /\ life' \in {"BLOCKED", "FAILED"}
       \/ life = "UNKNOWN" /\ life' = "DISCOVERING"        \* REDISCOVER
       \/ life = "FAILED" /\ life' = "DISCOVERING"         \* RESET
    /\ UNCHANGED <<found, operation, relaying, onchain>>

\* A confirmation that does not come: noteConfirmationTimeout, and NETWORK_FAILURE.
TimedOut(o) == IF o.status = "SUBMITTED" THEN [o EXCEPT !.status = "UNKNOWN"] ELSE o
NetworkFails ==
    /\ life \notin {"BLOCKED", "FAILED", "READY"}
    /\ life' = "UNKNOWN" /\ operation' = TimedOut(operation)
    /\ UNCHANGED <<found, relaying, onchain>>

(***************************************************************************)
(* The steps, in their order                                               *)
(***************************************************************************)

\* discoverWallet
DiscoversWallet ==
    /\ life = "DISCOVERING"
    /\ found' = IF onchain.wallets > 0 THEN "EXISTING" ELSE "ABSENT"
    /\ life' = found' /\ UNCHANGED <<operation, relaying, onchain>>

\* Without the owner's token nothing changes.
Authorizes ==
    /\ life \in {"EXISTING", "ABSENT"} /\ life' = "SETUP_AUTHORIZED"
    /\ UNCHANGED <<found, operation, relaying, onchain>>

\* Slip: an operation whose confirmation did not come is sent with a new nonce.
SubmitAnew(o) ==
    [nonce |-> IF o.nonce = -1 \/ o.status = "UNKNOWN" THEN onchain.last + 1 ELSE o.nonce,
     status |-> IF o.nonce = -1 THEN "SUBMITTED" ELSE o.status, attempts |-> o.attempts + 1]
\* submitRelayerOp: the operation that is recorded keeps its nonce and its status.
Submit(o) ==
    [nonce |-> IF o.nonce = -1 THEN onchain.last + 1 ELSE o.nonce,
     status |-> IF o.nonce = -1 THEN "SUBMITTED" ELSE o.status, attempts |-> o.attempts + 1]

\* reconcileWalletCreate: a wallet that was found is not deployed again.
Creates ==
    /\ life = "SETUP_AUTHORIZED" /\ life' = "CREATING" /\ UNCHANGED <<found, onchain>>
    /\ IF found = "EXISTING"
       THEN UNCHANGED <<operation, relaying>>
       ELSE /\ operation.attempts < MaxAttempts
            /\ operation' = Submit(operation) /\ relaying' = relaying \cup {operation'.nonce}

\* checkRelayerNonce: one past the last, neither again nor further.
NonceAdvances(nonce) == nonce = onchain.last + 1
RelayerReceives(nonce) ==
    /\ nonce \in relaying /\ relaying' = relaying \ {nonce}
    /\ onchain' = IF NonceAdvances(nonce)
                  THEN [onchain EXCEPT !.last = nonce, !.wallets = @ + 1] ELSE onchain
    /\ UNCHANGED <<life, found, operation>>

\* A request that is lost, and one that is received and delivered once more.
RequestIsLost(nonce) ==
    /\ nonce \in relaying /\ relaying' = relaying \ {nonce}
    /\ UNCHANGED <<life, found, operation, onchain>>
RequestIsRepeated ==
    /\ operation.nonce \in 0..onchain.last /\ operation.nonce \notin relaying
    /\ relaying' = relaying \cup {operation.nonce} /\ UNCHANGED <<life, found, operation, onchain>>

\* Only a confirmation receipt shows the wallet.
DeploymentConfirmed ==
    /\ life = "CREATING" /\ onchain.wallets > 0 /\ life' = "DEPLOYED"
    /\ operation' = IF operation.nonce = -1 THEN operation ELSE [operation EXCEPT !.status = "CONFIRMED"]
    /\ UNCHANGED <<found, relaying, onchain>>

\* checkApprovalCall: from the account wallet, and for the intended spender.
ApprovalsSubmitted ==
    /\ life = "DEPLOYED" /\ life' = "APPROVAL_PENDING"
    /\ \E mined \in BOOLEAN :
          onchain' = [onchain EXCEPT !.allows = IF mined THEN @ \cup {Required} ELSE @]
    /\ UNCHANGED <<found, operation, relaying>>
\* The owner's own key may approve anyone, at any time, and revoke it.
OwnerApproves(spender) ==
    /\ onchain' = [onchain EXCEPT !.allows = IF spender \in @ THEN @ \ {spender} ELSE @ \cup {spender}]
    /\ spender # Required \/ life # "READY"
    /\ UNCHANGED <<life, found, operation, relaying>>

\* Slip: any standing allowance counts.
AnyAllowance == onchain.allows # {}
\* availableToTrade: only the required spender's allowance counts.
AvailableToTrade == Required \in onchain.allows
ApprovalsVerified ==
    /\ life = "APPROVAL_PENDING" /\ AvailableToTrade /\ life' = "READY"
    /\ UNCHANGED <<found, operation, relaying, onchain>>

-----------------------------------------------------------------------------

WalletInit ==
    /\ life = "DISCOVERING" /\ found = "ABSENT" /\ operation = NoOperation /\ relaying = {}
    /\ onchain = [last |-> -1, wallets |-> 0, allows |-> {}]

WalletNext ==
    \/ LifecycleExits \/ NetworkFails \/ DiscoversWallet \/ Authorizes \/ Creates \/ RequestIsRepeated
    \/ \E nonce \in relaying : RelayerReceives(nonce) \/ RequestIsLost(nonce)
    \/ DeploymentConfirmed \/ ApprovalsSubmitted \/ ApprovalsVerified
    \/ \E spender \in Spenders : OwnerApproves(spender)

-----------------------------------------------------------------------------

WalletTypeOK ==
    /\ life \in LifeStates /\ found \in {"EXISTING", "ABSENT"}
    /\ operation.attempts \in 0..MaxAttempts /\ relaying \subseteq Nat /\ onchain.allows \subseteq Spenders

\* However often the confirmation does not come, the request is lost or repeated
\* and the setup is taken up again from discovery, one wallet is deployed; and a
\* setup that is ready has that wallet, approved for the spender required.
OneWalletApproved ==
    /\ onchain.wallets <= 1
    /\ life = "READY" => onchain.wallets = 1 /\ Required \in onchain.allows
=============================================================================

------------------------------ MODULE TxDomain ------------------------------
(***************************************************************************)
(* The vocabulary of internal/domain: transaction rows, their statuses,    *)
(* signed transactions, attempts and receipts.                             *)
(*                                                                         *)
(* A row is known by its id.  The handler takes the id, a ULID, and         *)
(* created_at together, before its INSERT: the order of the ids is that of *)
(* created_at, but rows may appear in the table in another order.  What a  *)
(* row asks for (recipient, value, call data) is its payload; two rows may *)
(* ask for the same transfer, and the payload is all that a signed         *)
(* transaction carries of the row, so the hash of a signed transaction is  *)
(* the record itself.                                                      *)
(***************************************************************************)
EXTENDS Integers

CONSTANTS
    TxIds,      \* ids of the rows the clients may create
    Senders,    \* signer addresses; one pipeline each (the chain is fixed)
    SenderOf,   \* [TxIds -> Senders], the row's sender column
    Payloads,   \* what transfers ask for
    PayloadOf,  \* [TxIds -> Payloads]
    Erc20,      \* the payloads that call a token contract
    Faults,     \* the kinds of failure the environment may produce
    NULL        \* the SQL NULL / Go nil

FaultKinds == {"db",        \* a statement of the database fails
               "estimate",  \* gas estimation or signing fails
               "net",       \* an RPC call fails, perhaps after taking effect
               "endpoint",  \* an endpoint is marked unhealthy
               "stale",     \* an endpoint is still on a fork that was replaced
               "evict"}     \* nodes drop transactions from their pools

Statuses == {"QUEUED", "PENDING", "SUBMITTED", "INCLUDED",
             "CONFIRMED", "REVERTED", "FAILED"}

IsTerminal(st) == st \in {"CONFIRMED", "REVERTED", "FAILED"}

AttemptStatuses == {"BROADCAST", "CONFIRMED", "REPLACED", "DROPPED"}

(* types.Transaction after signing.  gas stands for the fee fields: a      *)
(* larger number is a fee high enough to replace a smaller one.            *)
SignedTx == [from : Senders, pay : Payloads, nonce : Nat, gas : Nat]

(* What executing a transaction did: it moved the funds, it succeeded      *)
(* without the token's Transfer event, or it reverted (receipt status 0).  *)
Outcomes == {"transferred", "silent", "reverted"}

(* TxReceipt: the block (number, and hash through the fork it belongs to)  *)
(* and the outcome.                                                        *)
Receipt == [num : Nat, fork : Nat, outcome : Outcomes]

Attempt == [hash : SignedTx, status : AttemptStatuses]

ASSUME DomainAssumption ==
    /\ TxIds \subseteq Nat \ {0}
    /\ SenderOf \in [TxIds -> Senders]
    /\ PayloadOf \in [TxIds -> Payloads]
    /\ Erc20 \subseteq Payloads
    /\ Faults \subseteq FaultKinds
    /\ NULL \notin Nat
    /\ NULL \notin SignedTx
    /\ NULL \notin Receipt
    /\ NULL \notin Statuses
=============================================================================

----------------------------- MODULE MCTxSender -----------------------------
(* Small instances of TxSender for TLC. *)
EXTENDS TxSender

OneSender == [t \in TxIds |-> CHOOSE s \in Senders : TRUE]
SamePayload == [t \in TxIds |-> CHOOSE p \in Payloads : TRUE]

(* A view for runs: states that differ only in tx_state_log, which no step *)
(* and no property reads, are one state.                                   *)
ButAudit == <<rows, attempts, cursor, chainVars, memory, procVars>>
=============================================================================

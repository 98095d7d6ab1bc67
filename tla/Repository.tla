----------------------------- MODULE Repository -----------------------------
(***************************************************************************)
(* The PostgreSQL repository (internal/infrastructure/postgres): the       *)
(* tables transactions, tx_attempts, nonce_cursors and tx_state_log, one   *)
(* operator per statement.  Every UPDATE of a row is "WHERE id = $n": it   *)
(* never looks at the status the row has by then.                          *)
(***************************************************************************)
EXTENDS TxDomain, Sequences, FiniteSets

VARIABLES
    status,     \* transactions.status; NULL: no such row yet
    nonce,      \* transactions.nonce
    finalHash,  \* transactions.final_tx_hash
    receipt,    \* transactions.block_number, block_hash, receipt_status
    attempts,   \* tx_attempts of a row, by attempt_number
    cursor,     \* nonce_cursors.next_nonce; NULL: no row
    audit       \* newest tx_state_log entry of a row, <<from, to>>

rows     == <<status, nonce, finalHash, receipt>>
repoVars == <<status, nonce, finalHash, receipt, attempts, cursor, audit>>

RepoTypeOK ==
    /\ status    \in [TxIds -> Statuses \cup {NULL}]
    /\ nonce     \in [TxIds -> Nat \cup {NULL}]
    /\ finalHash \in [TxIds -> SignedTx \cup {NULL}]
    /\ receipt   \in [TxIds -> Receipt \cup {NULL}]
    /\ attempts  \in [TxIds -> Seq(Attempt)]
    /\ cursor    \in [Senders -> Nat \cup {NULL}]
    /\ audit     \in [TxIds -> (Statuses \cup {NULL}) \X (Statuses \cup {NULL})]

RepoInit ==
    /\ status    = [t \in TxIds |-> NULL]
    /\ nonce     = [t \in TxIds |-> NULL]
    /\ finalHash = [t \in TxIds |-> NULL]
    /\ receipt   = [t \in TxIds |-> NULL]
    /\ attempts  = [t \in TxIds |-> <<>>]
    /\ cursor    = [s \in Senders |-> NULL]
    /\ audit     = [t \in TxIds |-> <<NULL, NULL>>]

DbFault == "db" \in Faults

WithStatus(st) == {t \in TxIds : status[t] = st}

-----------------------------------------------------------------------------
(* transactions *)

CreateTransaction(t) ==
    /\ status' = [status EXCEPT ![t] = "QUEUED"]
    /\ UNCHANGED <<nonce, finalHash, receipt, attempts, cursor>>

(* The oldest QUEUED row of the sender. *)
NextQueued(s, t) ==
    /\ t \in WithStatus("QUEUED")
    /\ SenderOf[t] = s
    /\ \A u \in WithStatus("QUEUED") : SenderOf[u] = s => t <= u

ClaimNextQueued(s, t) ==
    /\ NextQueued(s, t)
    /\ status' = [status EXCEPT ![t] = "PENDING"]
    /\ UNCHANGED <<nonce, finalHash, receipt, attempts, cursor>>

(* Mutants of AssignNonceAndMarkPending: the cursor goes up by two; the    *)
(* nonce before the cursor is taken.                                       *)
AssignEverySecondNonce(s, t) ==
    /\ cursor[s] # NULL
    /\ cursor' = [cursor EXCEPT ![s] = cursor[s] + 2]
    /\ nonce'  = [nonce EXCEPT ![t] = cursor[s]]
    /\ UNCHANGED <<status, finalHash, receipt, attempts>>
AssignNonceOffByOne(s, t) ==
    /\ cursor[s] # NULL
    /\ cursor' = [cursor EXCEPT ![s] = cursor[s] + 1]
    /\ nonce'  = [nonce EXCEPT ![t] = cursor[s] - 1]
    /\ UNCHANGED <<status, finalHash, receipt, attempts>>

(* One database transaction: the cursor's increment and the row's nonce. *)
AssignNonceAndMarkPending(s, t) ==
    /\ cursor[s] # NULL
    /\ cursor' = [cursor EXCEPT ![s] = cursor[s] + 1]
    /\ nonce'  = [nonce EXCEPT ![t] = cursor[s]]
    /\ UNCHANGED <<status, finalHash, receipt, attempts>>

MarkSubmitted(t, h) ==
    /\ status'    = [status EXCEPT ![t] = "SUBMITTED"]
    /\ finalHash' = [finalHash EXCEPT ![t] = h]
    /\ UNCHANGED <<nonce, receipt, attempts, cursor>>

(* Mutant of MarkWithReceipt: final_tx_hash is left as it is. *)
MarkKeepingHash(st, t, h, r) ==
    /\ status'  = [status EXCEPT ![t] = st]
    /\ receipt' = [receipt EXCEPT ![t] = r]
    /\ UNCHANGED <<nonce, cursor, finalHash>>

(* MarkConfirmed, MarkIncluded and MarkReverted write the same columns. *)
MarkWithReceipt(st, t, h, r) ==
    /\ status'    = [status EXCEPT ![t] = st]
    /\ finalHash' = [finalHash EXCEPT ![t] = h]
    /\ receipt'   = [receipt EXCEPT ![t] = r]
    /\ UNCHANGED <<nonce, cursor>>

MarkIncluded(t, h, r) ==
    MarkWithReceipt("INCLUDED", t, h, r) /\ UNCHANGED attempts

MarkReverted(t, h, r) ==
    MarkWithReceipt("REVERTED", t, h, r) /\ UNCHANGED attempts

(* Mutants of RevertToSubmitted: the nonce is cleared as well; the status  *)
(* is not set back.                                                        *)
RevertWithoutNonce(t) ==
    /\ status'  = [status EXCEPT ![t] = "SUBMITTED"]
    /\ receipt' = [receipt EXCEPT ![t] = NULL]
    /\ nonce'   = [nonce EXCEPT ![t] = NULL]
    /\ UNCHANGED <<finalHash, attempts, cursor>>

RevertReceiptOnly(t) ==
    /\ receipt' = [receipt EXCEPT ![t] = NULL]
    /\ UNCHANGED <<status, nonce, finalHash, attempts, cursor>>

RevertToSubmitted(t) ==
    /\ status'  = [status EXCEPT ![t] = "SUBMITTED"]
    /\ receipt' = [receipt EXCEPT ![t] = NULL]
    /\ UNCHANGED <<nonce, finalHash, attempts, cursor>>

(* Mutant of MarkFailed: WHERE status = 'PENDING' is added. *)
MarkFailedIfPending(t) ==
    /\ status' = [status EXCEPT ![t] = IF @ = "PENDING" THEN "FAILED" ELSE @]
    /\ UNCHANGED <<nonce, finalHash, receipt, attempts, cursor>>

MarkFailed(t) ==
    /\ status' = [status EXCEPT ![t] = "FAILED"]
    /\ UNCHANGED <<nonce, finalHash, receipt, attempts, cursor>>

(* The crash recovery UPDATE: every PENDING row, with no log entry. *)
ResetPendingToQueued ==
    /\ status' = [t \in TxIds |-> IF status[t] = "PENDING" THEN "QUEUED"
                                                           ELSE status[t]]
    /\ nonce'  = [t \in TxIds |-> IF status[t] = "PENDING" THEN NULL
                                                           ELSE nonce[t]]
    /\ UNCHANGED <<finalHash, receipt, attempts, cursor, audit>>

(* A page of the rows with a status: the first `limit` of them, by id,     *)
(* after the cursor.                                                       *)
RowsAfter(st, after) == {t \in WithStatus(st) : t > after}
Page(st, after, limit) ==
    {t \in RowsAfter(st, after) :
        Cardinality({u \in RowsAfter(st, after) : u < t}) < limit}

-----------------------------------------------------------------------------
(* tx_attempts *)

(* Mutant of AttemptNumberFree: the table has no UNIQUE constraint. *)
NoUniqueAttempt(t, n) == TRUE

(* UNIQUE (transaction_id, attempt_number): the INSERT fails otherwise. *)
AttemptNumberFree(t, n) == n \notin DOMAIN attempts[t]

CreateAttempt(t, n, h) ==
    /\ AttemptNumberFree(t, n)
    /\ attempts' = [attempts EXCEPT ![t] =
                      Append(@, [hash |-> h, status |-> "BROADCAST"])]
    /\ UNCHANGED <<status, nonce, finalHash, receipt, cursor>>

(* Mutant of Settled: the hash is not compared. *)
SettledAll(as, h, done) ==
    [i \in DOMAIN as |-> [as[i] EXCEPT !.status = "CONFIRMED"]]

(* MarkAttemptStatus on the attempts that markAttemptConfirmed goes        *)
(* through: the one with the row's hash is confirmed, the other broadcast  *)
(* ones are replaced.  `done` are those whose UPDATE did not fail.         *)
Settled(as, h, done) ==
    [i \in DOMAIN as |->
        [hash   |-> as[i].hash,
         status |-> IF i \notin done THEN as[i].status
                    ELSE IF as[i].hash = h THEN "CONFIRMED"
                    ELSE IF as[i].status = "BROADCAST" THEN "REPLACED"
                    ELSE as[i].status]]

MarkConfirmed(t, h, r) ==
    /\ MarkWithReceipt("CONFIRMED", t, h, r)
    /\ \E done \in SUBSET (DOMAIN attempts[t]) :
          /\ DbFault \/ done = DOMAIN attempts[t]
          /\ attempts' = [attempts EXCEPT ![t] = Settled(@, h, done)]

-----------------------------------------------------------------------------
(* nonce_cursors, tx_state_log *)

(* INSERT ... ON CONFLICT keeps the greater nonce; SetNonceCursor does not. *)
InitNonceCursor(s, n) ==
    cursor' = [cursor EXCEPT ![s] = IF cursor[s] # NULL /\ cursor[s] > n
                                    THEN cursor[s] ELSE n]

SetNonceCursor(s, n) == cursor' = [cursor EXCEPT ![s] = n]

(* Every caller ignores the error of the insert. *)
LogStateTransition(t, from, to) ==
    \/ audit' = [audit EXCEPT ![t] = <<from, to>>]
    \/ DbFault /\ UNCHANGED audit
=============================================================================

--------------------------- MODULE ReceiptPoller ----------------------------
(***************************************************************************)
(* internal/pipeline/receipt.go: the goroutine that looks for receipts.    *)
(* poll runs pollSubmitted (SUBMITTED -> INCLUDED, CONFIRMED or REVERTED)  *)
(* and then pollIncluded (INCLUDED -> CONFIRMED, or back to SUBMITTED when *)
(* a reorg took the receipt away).  Both read a page of rows, ask for the  *)
(* receipts of the hashes they read, and write row after row: each of the  *)
(* three is a step of its own here, so a row may be written long after it  *)
(* was read.                                                               *)
(***************************************************************************)
EXTENDS Repository, EvmChain

CONSTANTS
    ConfirmationBlocks,  \* depth at which an INCLUDED row is confirmed
    ReceiptChunkSize,    \* rows per page
    UintSize             \* 2^64 in the code: block numbers are uint64

ASSUME PollerAssumption ==
    /\ ConfirmationBlocks \in Nat
    /\ ReceiptChunkSize \in Nat \ {0}
    /\ UintSize \in Nat \ {0}

VARIABLE rp  \* where poll is, and its local variables

PollerPcs == {"submitted", "submittedReceipts", "applySubmitted", "head",
              "included", "includedReceipts", "applyIncluded", "rebroadcast",
              "resend"}

(* A row as it was read, and the answer to the request for its receipt. *)
Seen == [tx : TxIds, hash : SignedTx, block : Receipt \cup {NULL},
         got : Receipt \cup {NULL}]

PollerState ==
    [pc    : PollerPcs,
     after : Nat,                 \* pagination cursor, 0 is ""
     more  : BOOLEAN,             \* the page was full
     page  : SUBSET Seen,         \* rows of the page still to handle
     head  : Nat,                 \* currentBlock of pollIncluded
     cur   : TxIds \cup {NULL},   \* row to rebroadcast
     hash  : SignedTx \cup {NULL}] \* its latest attempt, when it was read

PollerTypeOK == rp \in PollerState

NewPoll == [pc |-> "submitted", after |-> 0, more |-> FALSE, page |-> {},
            head |-> 0, cur |-> NULL, hash |-> NULL]

PollerInit == rp = NewPoll

-----------------------------------------------------------------------------
(* Control flow shared by the two passes *)

(* pollSubmitted returns: poll goes on with pollIncluded, if it is used. *)
Return(pass) ==
    IF pass = "submitted" /\ ConfirmationBlocks > 0
    THEN [NewPoll EXCEPT !.pc = "head"]
    ELSE NewPoll

(* The rest of the page, the next page, or the end of the pass. *)
Continue(pass, apply, rest) ==
    IF rest # {} THEN [rp EXCEPT !.pc = apply, !.page = rest, !.cur = NULL,
                                 !.hash = NULL]
    ELSE IF rp.more THEN [rp EXCEPT !.pc = pass, !.page = {}, !.cur = NULL,
                                    !.hash = NULL]
    ELSE Return(pass)

Snapshot(t) == [tx |-> t, hash |-> finalHash[t], block |-> receipt[t],
                got |-> NULL]

(* One page: GetSubmittedTransactions or GetIncludedTransactions, of which *)
(* the rows in `wanted` are kept; an error or an empty page ends the pass. *)
FetchPage(pass, st, receipts, wanted) ==
    /\ rp.pc = pass
    /\ LET ids == Page(st, rp.after, ReceiptChunkSize) IN
       \/ /\ ids = {} \/ DbFault
          /\ rp' = Return(pass)
       \/ \E last \in ids :
            /\ \A t \in ids : t <= last
            /\ LET page == {Snapshot(t) : t \in ids \cap wanted}
                   more == Cardinality(ids) = ReceiptChunkSize
               IN  rp' = IF page # {}
                         THEN [rp EXCEPT !.pc = receipts, !.page = page,
                                         !.after = last, !.more = more]
                         ELSE IF more THEN [rp EXCEPT !.after = last]
                         ELSE Return(pass)
    /\ UNCHANGED <<repoVars, chainVars>>

-----------------------------------------------------------------------------
(* pollSubmitted *)

HasFinalHash == {t \in TxIds : finalHash[t] # NULL}

FetchSubmitted ==
    FetchPage("submitted", "SUBMITTED", "submittedReceipts", HasFinalHash)

(* hashToTx keeps one row per hash, the last of the page. *)
OfHash(page) ==
    {x \in page : \A y \in page : y.hash = x.hash => y.tx <= x.tx}

(* BatchTransactionReceipts: the answers found become the page. *)
Answered(page, f) == {[x EXCEPT !.got = f[x.tx]] : x \in page}
Answers(page) ==
    {f \in [{x.tx : x \in page} ->
              {NULL} \cup {ReceiptOf(m) : m \in mined \cup orphaned}] :
        /\ \A x \in page : ReceiptAnswer(x.hash, f[x.tx])
        /\ \A x, y \in page : x.hash = y.hash => f[x.tx] = f[y.tx]}

FetchSubmittedReceipts ==
    /\ rp.pc = "submittedReceipts"
    /\ \/ NetFault /\ rp' = Return("submitted")
       \/ \E f \in Answers(rp.page) :
            rp' = Continue("submitted", "applySubmitted",
                           {x \in Answered(OfHash(rp.page), f) : x.got # NULL})
    /\ UNCHANGED <<repoVars, chainVars>>

(* Mutant of TransferVerified: a receipt with status 1 is enough. *)
TransferAssumed(t, r) == TRUE

(* verifyERC20Transfer, for rows with a token contract. *)
TransferVerified(t, r) == PayloadOf[t] \in Erc20 => r.outcome # "silent"

(* The update of the row and the log entry that follows it; on an error of *)
(* the update both are skipped.                                            *)
Record(update, t, from, to) ==
    \/ update /\ LogStateTransition(t, from, to)
    \/ DbFault /\ UNCHANGED repoVars

(* Mutant of StatusFromReceipt: receipt.Status is looked at for tokens only. *)
StatusFromLogs(t, r) ==
    IF PayloadOf[t] \in Erc20 /\ r.outcome = "silent" THEN "REVERTED"
    ELSE IF ConfirmationBlocks > 0 THEN "INCLUDED"
    ELSE "CONFIRMED"

(* The status a row gets from the receipt that pollSubmitted found. *)
StatusFromReceipt(t, r) ==
    IF r.outcome = "reverted" \/ ~ TransferVerified(t, r) THEN "REVERTED"
    ELSE IF ConfirmationBlocks > 0 THEN "INCLUDED"
    ELSE "CONFIRMED"

(* Map iteration: the receipts are handled in any order. *)
ApplySubmitted(x) ==
    /\ rp.pc = "applySubmitted"
    /\ x \in rp.page
    /\ LET to == StatusFromReceipt(x.tx, x.got) IN
       \/ /\ to = "REVERTED"
          /\ Record(MarkReverted(x.tx, x.hash, x.got), x.tx, "SUBMITTED", to)
       \/ /\ to = "INCLUDED"
          /\ Record(MarkIncluded(x.tx, x.hash, x.got), x.tx, "SUBMITTED", to)
       \/ /\ to = "CONFIRMED"
          /\ Record(MarkConfirmed(x.tx, x.hash, x.got), x.tx, "SUBMITTED", to)
    /\ rp' = Continue("submitted", "applySubmitted", rp.page \ {x})
    /\ UNCHANGED chainVars

-----------------------------------------------------------------------------
(* pollIncluded *)

ReadBlockNumber ==
    /\ rp.pc = "head"
    /\ \/ NetFault /\ rp' = Return("included")
       \/ \E n \in 0..head :
            /\ BlockNumberAnswer(n)
            /\ rp' = [rp EXCEPT !.pc = "included", !.head = n]
    /\ UNCHANGED <<repoVars, chainVars>>

(* uint64 subtraction: it wraps when the block is ahead of currentBlock. *)
Depth(current, num) == (current - num) % UintSize

DeepEnough(t) ==
    receipt[t] # NULL /\ Depth(rp.head, receipt[t].num) >= ConfirmationBlocks

FetchIncluded ==
    FetchPage("included", "INCLUDED", "includedReceipts",
              {t \in TxIds : DeepEnough(t)})

FetchIncludedReceipts ==
    /\ rp.pc = "includedReceipts"
    /\ \/ NetFault /\ rp' = Return("included")
       \/ \E f \in Answers(rp.page) :
            rp' = Continue("included", "applyIncluded", Answered(rp.page, f))
    /\ UNCHANGED <<repoVars, chainVars>>

(* Mutant of SameBlock: the block of the receipt is not compared. *)
AnyBlock(r, q) == TRUE

SameBlock(r, q) == r.num = q.num /\ r.fork = q.fork

(* readyTxs is a slice in the order of the ids. *)
FirstOf(page, x) == x \in page /\ \A y \in page : x.tx <= y.tx

ApplyIncluded(x) ==
    /\ rp.pc = "applyIncluded"
    /\ FirstOf(rp.page, x)
    /\ LET rest == Continue("included", "applyIncluded", rp.page \ {x}) IN
       \/ /\ x.got = NULL
          /\ \/ /\ RevertToSubmitted(x.tx)
                /\ LogStateTransition(x.tx, "INCLUDED", "SUBMITTED")
                /\ rp' = [rp EXCEPT !.pc = "rebroadcast", !.cur = x.tx,
                                    !.page = rp.page \ {x}]
             \/ DbFault /\ UNCHANGED repoVars /\ rp' = rest
       \/ /\ x.got # NULL
          /\ IF SameBlock(x.got, x.block)
             THEN Record(MarkConfirmed(x.tx, x.hash, x.got), x.tx,
                         "INCLUDED", "CONFIRMED")
             ELSE Record(MarkIncluded(x.tx, x.hash, x.got), x.tx,
                         "INCLUDED", "INCLUDED")
          /\ rp' = rest
    /\ UNCHANGED chainVars

(* rebroadcastAfterReorg: the latest attempt is read, whatever hash the    *)
(* row had, and then sent again; the detector may add one in between.      *)
LatestAttempt(t) == attempts[t][Len(attempts[t])].hash

ReadLatestAttempt ==
    /\ rp.pc = "rebroadcast"
    /\ \/ /\ attempts[rp.cur] # <<>>
          /\ rp' = [rp EXCEPT !.pc = "resend", !.hash = LatestAttempt(rp.cur)]
       \/ /\ attempts[rp.cur] = <<>> \/ DbFault
          /\ rp' = Continue("included", "applyIncluded", rp.page)
    /\ UNCHANGED <<repoVars, chainVars>>

RebroadcastAfterReorg ==
    /\ rp.pc = "resend"
    /\ SendOk(rp.hash) \/ SendErr(rp.hash)
    /\ rp' = Continue("included", "applyIncluded", rp.page)
    /\ UNCHANGED repoVars

PollerStep ==
    \/ FetchSubmitted
    \/ FetchSubmittedReceipts
    \/ \E x \in rp.page : ApplySubmitted(x)
    \/ ReadBlockNumber
    \/ FetchIncluded
    \/ FetchIncludedReceipts
    \/ \E x \in rp.page : ApplyIncluded(x)
    \/ ReadLatestAttempt
    \/ RebroadcastAfterReorg
=============================================================================

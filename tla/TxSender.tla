------------------------------ MODULE TxSender ------------------------------
(***************************************************************************)
(* The service on one chain: clients create transfers, a pipeline per      *)
(* sender submits them, the receipt poller and the stuck detector follow   *)
(* them up, the manager recovers after a crash, and blocks are mined,      *)
(* reorganised and transactions dropped meanwhile.  The goroutines share   *)
(* nothing but the repository and the chain.                               *)
(***************************************************************************)
EXTENDS Manager

vars == <<repoVars, chainVars, memory, procVars>>

TypeOK ==
    /\ RepoTypeOK
    /\ ChainTypeOK
    /\ PipelineTypeOK
    /\ PollerTypeOK
    /\ DetectorTypeOK
    /\ ManagerTypeOK

Init ==
    /\ RepoInit
    /\ ChainInit
    /\ PipelineInit
    /\ PollerInit
    /\ DetectorInit
    /\ ManagerInit

(* POST /v1/transfers with a new idempotency key.  Handlers run side by    *)
(* side and take the id before the INSERT, so a row may appear after one   *)
(* with a greater id, even when that one has been claimed.                 *)
CreateTransfer(t) ==
    /\ phase = "up"
    /\ status[t] = NULL
    /\ CreateTransaction(t)
    /\ LogStateTransition(t, NULL, "QUEUED")
    /\ UNCHANGED <<chainVars, memory, procVars>>

RunPipeline(s) ==
    /\ phase = "up"
    /\ PipelineStep(s)
    /\ UNCHANGED <<rp, sd, procVars>>

RunPoller ==
    /\ phase = "up"
    /\ PollerStep
    /\ UNCHANGED <<pl, sd, procVars>>

RunDetector ==
    /\ phase = "up"
    /\ DetectorStep
    /\ UNCHANGED <<pl, rp, procVars>>

RunChain ==
    /\ \/ \E h \in pool, o \in Outcomes : MineTx(h, o)
       \/ MineEmpty
       \/ ReorgStep
       \/ \E h \in pool : Evict(h)
    /\ UNCHANGED <<repoVars, memory, procVars>>

Next ==
    \/ \E t \in TxIds : CreateTransfer(t)
    \/ \E s \in Senders : RunPipeline(s)
    \/ RunPoller
    \/ RunDetector
    \/ RunChain
    \/ ManagerStep
    \/ Crash

Spec == Init /\ [][Next]_vars

-----------------------------------------------------------------------------
(* Fairness.  The goroutines are loops that a ticker or a timeout wakes, the *)
(* process is restarted when it ends, and blocks keep coming.  A row that  *)
(* stays SUBMITTED passes the stuck threshold and the bump interval        *)
(* sometime, so the detector does not leave it out or skip it for ever.    *)

FetchStuckRow(t) ==
    FetchStuck /\ (\E x \in sd'.list : x.tx = t) /\ UNCHANGED <<pl, rp, procVars>>

HandleStuckRow(t) ==
    /\ \E x \in sd.list : x.tx = t /\ (GiveUp(x) \/ BumpGas(x))
    /\ UNCHANGED <<pl, rp, procVars>>

ProduceBlock ==
    /\ MineEmpty \/ \E h \in pool, o \in Outcomes : MineTx(h, o)
    /\ UNCHANGED <<repoVars, memory, procVars>>

Fairness ==
    /\ WF_vars(ManagerStep)
    /\ WF_vars(ProduceBlock)
    /\ \A s \in Senders : WF_vars(RunPipeline(s))
    /\ WF_vars(RunPoller)
    /\ WF_vars(RunDetector)
    /\ \A t \in TxIds : /\ SF_vars(phase = "up" /\ FetchStuckRow(t))
                        /\ SF_vars(phase = "up" /\ HandleStuckRow(t))

FairSpec == Spec /\ Fairness

-----------------------------------------------------------------------------
(* Safety *)

Hashes(t) == {attempts[t][i].hash : i \in DOMAIN attempts[t]}

OnChain(t) == {m \in mined : m.tx \in Hashes(t)}

(* No double-sends (REQUIREMENTS.md:16): whatever was bumped, retried,     *)
(* rebroadcast or reset by crash recovery, the chain holds at most one of  *)
(* the transactions that were ever signed for a row.                       *)
NoDoubleSend == \A t \in TxIds : \A m, l \in OnChain(t) : m = l

(* Nothing reaches the network that tx_attempts does not hold: an attempt  *)
(* is stored before it is broadcast (processTx step 4, bumpGas), so a      *)
(* crash never leaves a transaction out there the service knows nothing of.*)
BroadcastIsRecorded ==
    \A h \in pool \cup {m.tx : m \in mined} : \E t \in TxIds : h \in Hashes(t)

(* bumpGas reads attempts[len(attempts)-1] and *tx.Nonce of every row in   *)
(* its list: each of them has an attempt, and the nonce it was read with   *)
(* is that of its attempts, so the replacement does replace them.          *)
BumpHasAttempt ==
    \A x \in sd.list :
        attempts[x.tx] # <<>> /\ \A h \in Hashes(x.tx) : h.nonce = x.nonce

(* "up to 5 times" (README.md:250): a row has its first attempt and at     *)
(* most MaxGasBumps replacements, however often the check runs.            *)
BumpsBounded == \A t \in TxIds : Len(attempts[t]) <= MaxGasBumps + 1

(* pollIncluded: what was confirmed after ConfirmationBlocks stays on the  *)
(* chain, in the block the row names, though row, head and receipt were    *)
(* read at different times, as long as reorgs are not deeper than that and *)
(* the endpoints follow the chain.                                         *)
ConfirmedIsFinal ==
    \A t \in TxIds : status[t] = "CONFIRMED" =>
        HasReceipt(finalHash[t], receipt[t])

(* markAttemptConfirmed never finds two attempts of a row confirmed. *)
OneConfirmedAttempt ==
    \A t \in TxIds : \A i, j \in DOMAIN attempts[t] :
        attempts[t][i].status = "CONFIRMED" /\ attempts[t][j].status = "CONFIRMED"
            => i = j

(* "Nonce gaps stall everything. Nonce collisions waste gas"               *)
(* (REQUIREMENTS.md:61), "The goroutine IS the lock" (README.md:245): as   *)
(* long as the process has not crashed, the nonces that a sender's rows    *)
(* have are those below its cursor, each at one row, in whatever order the *)
(* rows appear and whatever a failure, a reorg or a bump does to them.     *)
RowsOf(s) == {t \in TxIds : SenderOf[t] = s}
EachNonceOnce ==
    crashes = 0 /\ phase = "up" => \A s \in Senders :
        /\ {nonce[t] : t \in RowsOf(s)} \ {NULL} = 0..(cursor[s] - 1)
        /\ \A t, u \in RowsOf(s) : nonce[t] # NULL /\ nonce[t] = nonce[u] => t = u

(* Crash recovery: "Take max(db_nonce, pending_count) as the starting      *)
(* nonce" (ARCHITECTURE.md:936), "No transactions are lost"                *)
(* (README.md:252): two rows, even when they ask for the same transfer,    *)
(* are not CONFIRMED by one transaction of the chain.                      *)
OneRowPerTransfer ==
    \A t, u \in TxIds :
        t # u /\ status[t] = "CONFIRMED" /\ status[u] = "CONFIRMED"
            => finalHash[t] # finalHash[u]

(* CONFIRMED: "receipt with status=1" (README.md:180), and for a token     *)
(* transfer with the Transfer event (verifyERC20Transfer): the transaction *)
(* has moved the funds in some block.  pollIncluded looks neither at       *)
(* receipt.Status nor at the logs again, so that block may be one that a   *)
(* reorg has replaced and the row's own receipt may say otherwise; without *)
(* a reorg of the transaction it does not.                                 *)
ConfirmedTransferred ==
    \A t \in TxIds : status[t] = "CONFIRMED" =>
        /\ \E m \in mined \cup orphaned :
              m.tx = finalHash[t] /\ m.outcome = "transferred"
        /\ \/ receipt[t].outcome = "transferred"
           \/ \E m \in orphaned : m.tx = finalHash[t]

(* "when any attempt is confirmed, mark the transaction as confirmed"      *)
(* (ARCHITECTURE.md:1000), and FAILED: "couldn't get on-chain"             *)
(* (README.md:182): no attempt that a bump superseded is on the chain      *)
(* while its row is FAILED, and nothing at all of a row that processTx     *)
(* failed before it had a final hash.                                      *)
FailedNotOnChain ==
    \A t \in TxIds : status[t] = "FAILED" =>
        \A m \in OnChain(t) : m.tx = finalHash[t]

(* "Nonce gaps stall everything" (REQUIREMENTS.md:61): whatever a row on   *)
(* its way waits behind in its sender's nonces has been signed, or was the *)
(* nonce of a row that failed before it was; failTx does not release it,   *)
(* whatever ARCHITECTURE.md:289 says.                                      *)
GapsOnlyOfFailed ==
    \A t \in TxIds : status[t] = "SUBMITTED" =>
        \A n \in 0..(nonce[t] - 1) : \E u \in TxIds :
            /\ SenderOf[u] = SenderOf[t] /\ nonce[u] = n
            /\ attempts[u] # <<>> \/ status[u] = "FAILED"

-----------------------------------------------------------------------------
(* The inductive invariant behind NoDoubleSend, BroadcastIsRecorded        *)
(* and BumpHasAttempt *)

(* The row has been handed to the network. *)
HandedOver(t) == status[t] \in Statuses \ {"QUEUED", "PENDING"}

(* All that was ever signed for a row carries the nonce n. *)
AttemptsUse(t, n) == \A h \in Hashes(t) : h.nonce = n

(* Everything signed for the row carries the nonce the row has. *)
Signed(t) ==
    /\ attempts[t] # <<>>
    /\ nonce[t] \in Nat
    /\ AttemptsUse(t, nonce[t])

AttemptsShareNonce ==
    \A t \in TxIds : \A g, h \in Hashes(t) :
        g.from = SenderOf[t] /\ g.nonce = h.nonce

(* A nonce of an account is mined once. *)
MinedOncePerNonce ==
    \A m, l \in mined :
        m.tx.from = l.tx.from /\ m.tx.nonce = l.tx.nonce => m = l

(* A pipeline at work has a PENDING row of its own sender. *)
PipelineRow(s) ==
    pl[s].pc # "idle" =>
        /\ phase = "up"
        /\ pl[s].tx \in TxIds
        /\ SenderOf[pl[s].tx] = s
        /\ status[pl[s].tx] = "PENDING"
        /\ pl[s].pc = "build" => nonce[pl[s].tx] \in Nat
        /\ pl[s].pc \in {"send", "fail", "submit"} =>
              Signed(pl[s].tx) /\ pl[s].hash \in Hashes(pl[s].tx)

PipelineRows == \A s \in Senders : PipelineRow(s)

(* The row was SUBMITTED sometime. *)
WasSubmitted(t) == HandedOver(t) /\ Signed(t) /\ finalHash[t] # NULL

PollerRows ==
    /\ \A x \in rp.page : WasSubmitted(x.tx)
    /\ rp.pc = "applySubmitted" => \A x \in rp.page : x.got # NULL
    /\ rp.pc = "rebroadcast" => rp.cur \in TxIds
    /\ rp.pc = "resend" => rp.cur \in TxIds /\ rp.hash \in Hashes(rp.cur)

DetectorRows ==
    \A x \in sd.list :
        /\ WasSubmitted(x.tx)
        /\ x.nonce = nonce[x.tx]
        /\ sd.pc # "scan" /\ Current(x) => sd.hash \in Hashes(x.tx)

SubmittedRows ==
    \A t \in TxIds :
        status[t] \in {"SUBMITTED", "INCLUDED", "CONFIRMED", "REVERTED"}
            => WasSubmitted(t)

(* What the goroutines hold in memory and the rows agree: a row on its way *)
(* belongs to its sender's pipeline, a row the poller or the detector has  *)
(* read was handed over and all its attempts carry its nonce.              *)
RowsConsistent ==
    /\ SubmittedRows
    /\ PipelineRows
    /\ PollerRows
    /\ DetectorRows

IndInv ==
    /\ TypeOK
    /\ AttemptsShareNonce
    /\ MinedOncePerNonce
    /\ BroadcastIsRecorded
    /\ BumpsBounded
    /\ RowsConsistent

-----------------------------------------------------------------------------
(* Action properties *)

(* CONFIRMED: "sufficient confirmations" (README.md:180).  Row, head,       *)
(* receipt and update are four steps of the poller, and the endpoint that  *)
(* gives the head may be behind the one that gave the receipt.  A row is   *)
(* confirmed under ConfirmationBlocks blocks or more, with one exception:  *)
(* currentBlock was below the row's block, and the subtraction of uint64   *)
(* in pollIncluded (receipt.go:259) wrapped.                               *)
Wrapped(r) == rp.head < r.num
ConfirmedDeepEnough ==
    [][\A t \in TxIds :
         status[t] # "CONFIRMED" /\ status'[t] = "CONFIRMED" =>
            \/ receipt'[t].num + ConfirmationBlocks <= head
            \/ rp.pc = "applyIncluded" /\ Wrapped(receipt'[t])]_vars

(* What AtMostOnce calls accepted, and the nonce that a row is tied to:    *)
(* that of its first attempt, for crash recovery changes the row's own.    *)
AcceptedRows == {t \in TxIds : status[t] # NULL}
SealOf(t) == IF attempts[t] = <<>> THEN NULL ELSE attempts[t][1].hash.nonce

Once == INSTANCE AtMostOnce WITH
    Nonces   <- Nat,
    accepted <- AcceptedRows,
    seal     <- [t \in TxIds |-> SealOf(t)],
    landed   <- [t \in TxIds |-> OnChain(t)]

(* The service implements AtMostOnce: the nonce of a row's first attempt   *)
(* is that of all it ever signs for the row, whatever crash recovery does  *)
(* to the row, its nonce and the cursor, and the chain holds one of them.  *)
ImplementsAtMostOnce == Once!Spec

(* CONFIRMED, REVERTED and FAILED are terminal (ARCHITECTURE.md:1178-1185, *)
(* IsTerminal).                                                            *)
TerminalStays ==
    [][\A t \in TxIds : IsTerminal(status[t]) => status'[t] = status[t]]_vars

-----------------------------------------------------------------------------
(* Liveness *)

(* Every accepted transfer reaches a terminal status and stays there: no   *)
(* row is left behind by the pipeline's queue, the pages of the poller,    *)
(* a reorg or the detector's bumps.                                        *)
EveryTransferSettles ==
    \A t \in TxIds : status[t] = "QUEUED" ~> []IsTerminal(status[t])
=============================================================================

--------------------------- MODULE FinalityProofs ---------------------------
(***************************************************************************)
(* What CONFIRMED means: which transaction it stands for, how deep that    *)
(* is, that no reorg takes it away again, and that it moved the funds.     *)
(* The poller reads rows, the head and receipts at three different times   *)
(* and writes at a fourth, while blocks come and go; the invariants say    *)
(* what is still true of each of them when it is used.                     *)
(***************************************************************************)
EXTENDS NonceProofs

-----------------------------------------------------------------------------
(* The invariant *)

(* Nodes report the head as it is and follow the chain, and reorgs are not *)
(* deeper than the confirmations waited for.                               *)
Shallow == HeadLag = 0 /\ ~ StaleFault /\ MaxReorgDepth <= ConfirmationBlocks

(* There was no reorg, or none can be too deep. *)
Regime == Shallow \/ fork = 0

(* As deep as it takes to outlive the reorgs there may be. *)
Buried(m) == Shallow => m.num + ConfirmationBlocks <= head

Final(h, r) == \E m \in mined : Buried(m) /\ m.tx = h /\ ReceiptOf(m) = r
Lasting(h)  == \E m \in mined : Buried(m) /\ m.tx = h

(* All that was ever in a block, and what is to be found there.            *)
Executed    == mined \cup orphaned
Known(h, r) == \E m \in Executed : m.tx = h /\ ReceiptOf(m) = r
Good(h)     == \E m \in Executed : m.tx = h /\ m.outcome = "transferred"

MinedBelow == \A m \in Executed : m.num <= head

NoneOrphaned == fork = 0 => orphaned = {}

SilentErc20 == \A m \in Executed : m.outcome = "silent" => m.tx.pay \in Erc20

(* A row on the chain knows its block. *)
BlockKnown ==
    \A t \in TxIds : status[t] \in {"INCLUDED", "CONFIRMED"} => receipt[t] # NULL

(* Whatever was read from the chain is not ahead of it. *)
ReadBelow ==
    /\ rp.head <= head
    /\ \A t \in TxIds : receipt[t] # NULL => receipt[t].num <= head
    /\ \A x \in rp.page : /\ x.tx <= rp.after
                          /\ x.got # NULL => x.got.num <= head

IncludedPcs == {"included", "includedReceipts", "applyIncluded", "rebroadcast",
                "resend"}

(* pollIncluded while it goes through the rows of a page. *)
ApplyPcs == {"applyIncluded", "rebroadcast", "resend"}

(* The rows that pollIncluded has read are deep enough, or the subtraction *)
(* wrapped.                                                                *)
DepthsRead ==
    rp.pc \in IncludedPcs \ {"included"} =>
       \A x \in rp.page :
          /\ x.block # NULL
          /\ \/ x.block.num + ConfirmationBlocks <= rp.head
             \/ rp.head < x.block.num

(* With a head that does not lag, the blocks of the rows that pollIncluded *)
(* has read or has still to read are not ahead of currentBlock, so the     *)
(* subtraction does not wrap.                                              *)
NotAhead ==
    /\ rp.pc \in IncludedPcs =>
         \A t \in TxIds :
            status[t] = "INCLUDED" /\ rp.after < t /\ receipt[t] # NULL
               => receipt[t].num <= rp.head
    /\ rp.pc \in IncludedPcs \ {"included"} =>
         \A x \in rp.page : x.block # NULL => x.block.num <= rp.head

(* Receipts on whose strength a row will be confirmed. *)
FinalReads ==
    /\ rp.pc = "applySubmitted" /\ ConfirmationBlocks = 0 =>
         \A x \in rp.page : Final(x.hash, x.got)
    /\ rp.pc \in ApplyPcs =>
         \A x \in rp.page :
            x.got # NULL /\ SameBlock(x.got, x.block) => Final(x.hash, x.got)

FinalRows ==
    /\ \A t \in TxIds : status[t] = "CONFIRMED" => Final(finalHash[t], receipt[t])
    /\ \A t \in TxIds : \A i \in DOMAIN attempts[t] :
         attempts[t][i].status = "CONFIRMED" => Lasting(attempts[t][i].hash)

(* A transaction on its way to be confirmed has moved the funds in some    *)
(* block, and the receipts at hand are receipts of it.                     *)
GoodRows ==
    /\ \A t \in TxIds : status[t] \in {"INCLUDED", "CONFIRMED"} =>
         Good(finalHash[t]) /\ Known(finalHash[t], receipt[t])
    /\ rp.pc \in IncludedPcs \ {"included"} => \A x \in rp.page : Good(x.hash)
    /\ rp.pc \in {"applySubmitted"} \cup ApplyPcs =>
         \A x \in rp.page : x.got # NULL => Known(x.hash, x.got)

Finality ==
    /\ MinedBelow
    /\ NoneOrphaned
    /\ SilentErc20
    /\ BlockKnown
    /\ ReadBelow
    /\ DepthsRead
    /\ HeadLag = 0 => NotAhead
    /\ Regime => FinalReads /\ FinalRows
    /\ GoodRows

-----------------------------------------------------------------------------
(* The chain *)

LEMMA ChainFrame ==
  ASSUME IndInv, [Next]_vars, ~ RunChain
  PROVE  UNCHANGED <<mined, orphaned, head, fork>>
<1>1. ASSUME NEW h, SendOk(h) \/ SendErr(h)
      PROVE  UNCHANGED <<mined, orphaned, head, fork>>
  BY <1>1 DEF SendOk, SendErr, Accept, chainVars
<1>2. ASSUME NEW s \in Senders, PipelineStep(s)
      PROVE  UNCHANGED <<mined, orphaned, head, fork>>
  BY <1>1, <1>2 DEF PipelineStep, Claim, AssignNonce, BuildAndStore, Send, FailBroadcast,
              Submit, chainVars
<1>3. ASSUME PollerStep
      PROVE  UNCHANGED <<mined, orphaned, head, fork>>
  BY <1>1, <1>3 DEF PollerStep, FetchSubmitted, FetchSubmittedReceipts, ReadBlockNumber,
              FetchIncluded, FetchIncludedReceipts, ReadLatestAttempt,
              RebroadcastAfterReorg, FetchPage, ApplySubmitted, ApplyIncluded, chainVars
<1>4. ASSUME DetectorStep
      PROVE  UNCHANGED <<mined, orphaned, head, fork>>
  BY <1>1, <1>4 DEF DetectorStep, FetchStuck, Skip, GiveUp, BumpGas, SendReplacement,
              SubmitReplacement, chainVars
<1>5. ASSUME \/ Start \/ Crash \/ UNCHANGED vars \/ StartRecovery
             \/ \E s \in Senders : AskPendingNonce(s) \/ InitNonceForSender(s)
             \/ \E t \in TxIds : CreateTransfer(t)
      PROVE  UNCHANGED <<mined, orphaned, head, fork>>
  BY <1>5 DEF Start, Crash, StartRecovery, AskPendingNonce, InitNonceForSender,
              CreateTransfer, vars, chainVars
<1> QED
  BY <1>2, <1>3, <1>4, <1>5 DEF Next, ManagerStep, RunPipeline, RunDetector, RunPoller

LEMMA DeepStays ==
  ASSUME NEW n \in Nat, NEW c \in Nat, NEW d \in Nat, NEW k \in Nat,
         n + c <= k, d <= c
  PROVE  ~ (n > k - d)
  OBVIOUS

LEMMA NumUp ==
  ASSUME NEW n \in Nat, NEW k \in Nat, NEW i \in {0, 1}, n <= k
  PROVE  n <= k + 1 /\ n + i <= k + 1
  OBVIOUS

LEMMA NextBlock ==
  ASSUME NEW n \in Nat, NEW k \in Nat
  PROVE  /\ n <= k => n <= k + 1
         /\ \A c \in Nat : n + c <= k => n + c <= k + 1
  OBVIOUS

(* What a step of the chain leaves. *)
LEMMA ChainMoves ==
  ASSUME IndInv, MinedBelow, NoneOrphaned, SilentErc20, [Next]_vars
  PROVE  /\ MinedBelow' /\ NoneOrphaned' /\ SilentErc20'
         /\ head' = head \/ head' = head + 1
         /\ Executed \subseteq Executed'
         /\ Regime' => /\ Regime
                       /\ \A m \in mined : Buried(m) => m \in mined' /\ Buried(m)'
<1>0. /\ mined \subseteq MinedTx /\ orphaned \subseteq MinedTx
      /\ head \in Nat /\ fork \in Nat
      /\ ConfirmationBlocks \in Nat /\ MaxReorgDepth \in Nat
      /\ \A m \in Executed : m.num \in Nat
  BY ChainAssumption, PollerAssumption DEF IndInv, TypeOK, ChainTypeOK, MinedTx, Executed
<1>1. CASE ~ RunChain
  BY <1>1, ChainFrame DEF MinedBelow, NoneOrphaned, SilentErc20, Regime, Buried, Shallow,
                          Executed, StaleFault
<1>2. ASSUME mined \subseteq mined', head' = head \/ head' = head + 1, fork' = fork,
             NEW m \in mined, Buried(m)
      PROVE  m \in mined' /\ Buried(m)'
  <2>1. m.num \in Nat
    BY <1>0 DEF Executed
  <2> QED
    BY <1>0, <1>2, <2>1, NextBlock DEF Buried, Shallow, StaleFault
<1>3. ASSUME NEW h \in pool, NEW o \in Outcomes, MineTx(h, o)
      PROVE  /\ MinedBelow' /\ NoneOrphaned' /\ SilentErc20'
             /\ head' = head + 1 /\ fork' = fork /\ mined \subseteq mined'
             /\ orphaned' = orphaned
  <2> DEFINE new == [tx |-> h, num |-> head + 1, fork |-> fork, outcome |-> o]
  <2>1. /\ mined' = mined \cup {new} /\ head' = head + 1 /\ fork' = fork
        /\ orphaned' = orphaned
        /\ new.num = head' /\ new.tx = h /\ new.outcome = o
        /\ o = "silent" => h.pay \in Erc20
    BY <1>3 DEF MineTx, Possible
  <2> HIDE DEF new
  <2>2. MinedBelow'
    <3>1. head' <= head'
      BY <1>0, <2>1
    <3>2. ASSUME NEW m \in Executed PROVE m.num <= head'
      BY <1>0, <2>1, <3>2, NextBlock DEF MinedBelow
    <3> QED
      BY <2>1, <3>1, <3>2 DEF MinedBelow, Executed
  <2>3. SilentErc20' /\ NoneOrphaned'
    BY <2>1 DEF SilentErc20, NoneOrphaned, Executed
  <2> QED
    BY <2>1, <2>2, <2>3
<1>4. CASE MineEmpty \/ \E h \in pool : Evict(h)
  <2>1. /\ UNCHANGED <<mined, orphaned, fork>>
        /\ head' = head \/ head' = head + 1
    BY <1>4 DEF MineEmpty, Evict
  <2>2. MinedBelow' /\ SilentErc20' /\ NoneOrphaned'
    BY <1>0, <2>1, NextBlock DEF MinedBelow, SilentErc20, NoneOrphaned, Executed
  <2> QED
    BY <1>2, <2>1, <2>2 DEF Regime, Shallow, StaleFault, Executed
<1>5. ASSUME NEW h \in pool, NEW o \in Outcomes, MineTx(h, o)
      PROVE  /\ MinedBelow' /\ NoneOrphaned' /\ SilentErc20'
             /\ head' = head \/ head' = head + 1
             /\ Executed \subseteq Executed'
             /\ Regime' => /\ Regime
                           /\ \A m \in mined : Buried(m) => m \in mined' /\ Buried(m)'
  BY <1>2, <1>3, <1>5 DEF Regime, Shallow, StaleFault, Executed
<1>6. ASSUME NEW d \in 1..MaxReorgDepth, NEW k \in {0, 1}, NEW o \in MinedOutcomes,
             NEW kept \in SUBSET Dropped(d), NEW back \in SUBSET (Dropped(d) \ kept),
             Reorg(d, kept, back, k, o)
      PROVE  /\ MinedBelow' /\ NoneOrphaned' /\ SilentErc20'
             /\ head' = head + 1
             /\ Executed \subseteq Executed'
             /\ Regime' => /\ Regime
                           /\ \A m \in mined : Buried(m) => m \in mined' /\ Buried(m)'
  <2>1. /\ mined' = (mined \ Dropped(d)) \cup {Moved(m, k, o) : m \in kept}
        /\ orphaned' = orphaned \cup Dropped(d)
        /\ head' = head + 1 /\ fork' = fork + 1
        /\ \A m \in kept : Possible(m.tx, o)
    BY <1>6 DEF Reorg
  <2>2. kept \subseteq mined /\ Dropped(d) \subseteq mined
    BY DEF Dropped
  <2>3. \A m \in mined : /\ Moved(m, k, o).tx = m.tx /\ Moved(m, k, o).outcome = o
                         /\ Moved(m, k, o).num = m.num + k
    BY DEF Moved
  <2>4. MinedBelow'
    <3>1. ASSUME NEW m \in Executed PROVE m.num <= head' /\ m.num + k <= head'
      BY <1>0, <2>1, <3>1, NumUp DEF MinedBelow
    <3>2. \A m \in mined \cup orphaned : m.num <= head'
      BY <3>1 DEF Executed
    <3>3. \A m \in kept : Moved(m, k, o).num <= head'
      BY <2>2, <2>3, <3>1 DEF Executed
    <3> QED
      BY <2>1, <2>2, <3>2, <3>3 DEF MinedBelow, Executed
  <2>5. SilentErc20'
    BY <2>1, <2>2, <2>3 DEF SilentErc20, Possible, Executed
  <2>6. fork' # 0
    BY <1>0, <2>1
  <2>7. ASSUME Regime' PROVE Shallow
    BY <2>6, <2>7 DEF Regime, Shallow, StaleFault
  <2>8. ASSUME Shallow, NEW m \in mined, Buried(m) PROVE m \in mined' /\ Buried(m)'
    <3>0. m.num \in Nat
      BY <1>0 DEF Executed
    <3>1. m.num + ConfirmationBlocks <= head /\ d <= ConfirmationBlocks /\ d \in Nat
      BY <1>0, <2>8 DEF Buried, Shallow
    <3>2. m \notin Dropped(d)
      BY <1>0, <3>0, <3>1, DeepStays DEF Dropped
    <3>3. m.num + ConfirmationBlocks <= head'
      BY <1>0, <2>1, <3>0, <3>1, NextBlock
    <3> QED
      BY <2>1, <3>2, <3>3 DEF Buried, Shallow
  <2>9. Executed \subseteq Executed'
    BY <2>1 DEF Executed
  <2> QED
    BY <2>1, <2>4, <2>5, <2>6, <2>7, <2>8, <2>9 DEF Regime, NoneOrphaned
<1> QED
  BY <1>1, <1>4, <1>5, <1>6, ChainFrame DEF RunChain, ReorgStep, Executed

-----------------------------------------------------------------------------
(* Rows *)

(* The poller writes a receipt that it has on its page. *)
Written(t, x) ==
    /\ x \in rp.page /\ x.tx = t /\ x.got # NULL
    /\ finalHash'[t] = x.hash /\ receipt'[t] = x.got
    /\ \/ rp.pc = "applySubmitted" /\ status'[t] = StatusFromReceipt(t, x.got)
       \/ rp.pc = "applyIncluded" /\ status'[t] = "INCLUDED"
       \/ /\ rp.pc = "applyIncluded" /\ status'[t] = "CONFIRMED"
          /\ SameBlock(x.got, x.block)

(* What a step may do to a row: nothing, bring it to a status that says    *)
(* nothing of a receipt, or write a receipt.                               *)
RowKept(t) ==
    status'[t] = status[t] /\ finalHash'[t] = finalHash[t] /\ receipt'[t] = receipt[t]
RowAside(t) ==
    /\ status'[t] \notin {"INCLUDED", "CONFIRMED"}
    /\ receipt'[t] \in {receipt[t], NULL}

LEMMA OtherRowStep ==
  ASSUME IndInv, [Next]_vars, ~ RunPoller, NEW t \in TxIds
  PROVE  RowKept(t) \/ RowAside(t)
<1>0. status \in [TxIds -> Statuses \cup {NULL}]
  BY DEF IndInv, TypeOK, RepoTypeOK
<1>1. ASSUME UNCHANGED <<status, finalHash, receipt>> PROVE RowKept(t)
  BY <1>1 DEF RowKept
<1>2. ASSUME NEW u \in TxIds, NEW st, st \notin {"INCLUDED", "CONFIRMED"},
             status' = [status EXCEPT ![u] = st], receipt' = receipt,
             \A v \in TxIds \ {u} : finalHash'[v] = finalHash[v]
      PROVE  RowKept(t) \/ RowAside(t)
  BY <1>0, <1>2 DEF RowKept, RowAside
<1>3. ASSUME NEW u \in TxIds, NEW h, MarkFailed(u) \/ MarkSubmitted(u, h)
      PROVE  RowKept(t) \/ RowAside(t)
  <2>1. finalHash \in [TxIds -> SignedTx \cup {NULL}]
    BY DEF IndInv, TypeOK, RepoTypeOK
  <2>2. \A v \in TxIds \ {u} : finalHash'[v] = finalHash[v]
    BY <1>3, <2>1 DEF MarkFailed, MarkSubmitted
  <2> QED
    BY <1>2, <1>3, <2>2 DEF MarkFailed, MarkSubmitted
<1>4. ASSUME NEW s \in Senders, PipelineStep(s) PROVE RowKept(t) \/ RowAside(t)
  <2>1. CASE Claim(s)
    <3>1. PICK u \in TxIds : ClaimNextQueued(s, u)
      BY <2>1 DEF Claim
    <3> QED
      BY <1>2, <3>1 DEF ClaimNextQueued
  <2>2. CASE \/ AssignNonce(s) \/ BuildAndStore(s) \/ Send(s) \/ FailBroadcast(s)
             \/ Submit(s)
    <3>1. pl[s].pc # "idle"
      BY <2>2 DEF AssignNonce, BuildAndStore, Send, FailBroadcast, Submit
    <3>2. pl[s].tx \in TxIds
      BY <3>1, RowInHand
    <3>3. \/ UNCHANGED <<status, finalHash, receipt>>
          \/ MarkFailed(pl[s].tx) \/ MarkSubmitted(pl[s].tx, pl[s].hash)
      BY <2>2 DEF AssignNonce, BuildAndStore, Send, FailBroadcast, Submit, FailTx,
                  CreateAttempt, AssignNonceAndMarkPending, rows, repoVars
    <3> QED
      BY <1>1, <1>3, <3>2, <3>3
  <2> QED
    BY <1>4, <2>1, <2>2 DEF PipelineStep
<1>5. ASSUME DetectorStep PROVE RowKept(t) \/ RowAside(t)
  <2>1. \A x \in sd.list : x.tx \in TxIds
    BY DEF IndInv, TypeOK, DetectorTypeOK, DetectorState, Stuck
  <2>2. \/ UNCHANGED <<status, finalHash, receipt>>
        \/ \E x \in sd.list : MarkFailed(x.tx) \/ MarkSubmitted(x.tx, sd.hash)
    BY <1>5 DEF DetectorStep, FetchStuck, Skip, GiveUp, BumpGas, SendReplacement,
                SubmitReplacement, CreateAttempt, rows, repoVars
  <2> QED
    BY <1>1, <1>3, <2>1, <2>2
<1>6. ASSUME \/ RunChain \/ Start \/ Crash \/ UNCHANGED vars
             \/ \E s \in Senders : AskPendingNonce(s) \/ InitNonceForSender(s)
      PROVE  RowKept(t)
  BY <1>1, <1>6 DEF RunChain, Start, Crash, AskPendingNonce, InitNonceForSender, vars,
              repoVars, rows
<1>7. ASSUME StartRecovery PROVE RowKept(t) \/ RowAside(t)
  BY <1>7 DEF StartRecovery, ResetPendingToQueued, RowKept, RowAside
<1>8. ASSUME NEW u \in TxIds, CreateTransfer(u) PROVE RowKept(t) \/ RowAside(t)
  BY <1>2, <1>8 DEF CreateTransfer, CreateTransaction
<1> QED
  BY <1>4, <1>5, <1>6, <1>7, <1>8 DEF Next, ManagerStep, RunPipeline, RunDetector

(* The poller, with what it does to the attempts when it confirms. *)
LEMMA PollerRowStep ==
  ASSUME IndInv, PollerStep, NEW t \in TxIds
  PROVE  /\ RowKept(t) \/ RowAside(t) \/ \E x \in rp.page : Written(t, x)
         /\ \/ attempts'[t] = attempts[t]
            \/ \E x \in rp.page, done \in SUBSET (DOMAIN attempts[t]) :
                 /\ Written(t, x) /\ status'[t] = "CONFIRMED"
                 /\ attempts'[t] = Settled(attempts[t], x.hash, done)
<1>0. /\ status \in [TxIds -> Statuses \cup {NULL}]
      /\ finalHash \in [TxIds -> SignedTx \cup {NULL}]
      /\ receipt \in [TxIds -> Receipt \cup {NULL}]
      /\ attempts \in [TxIds -> Seq(Attempt)]
      /\ \A x \in rp.page : x.tx \in TxIds
  BY DEF IndInv, TypeOK, RepoTypeOK, PollerTypeOK, PollerState, Seen
<1>1. ASSUME UNCHANGED repoVars PROVE RowKept(t) /\ attempts'[t] = attempts[t]
  BY <1>1 DEF RowKept, repoVars
<1>2. ASSUME NEW x \in rp.page, NEW st, MarkWithReceipt(st, x.tx, x.hash, x.got)
      PROVE  /\ t # x.tx => RowKept(t)
             /\ t = x.tx => /\ status'[t] = st /\ finalHash'[t] = x.hash
                            /\ receipt'[t] = x.got
  BY <1>0, <1>2 DEF MarkWithReceipt, RowKept
<1>3. ASSUME NEW x \in rp.page, MarkConfirmed(x.tx, x.hash, x.got),
             t = x.tx => Written(t, x)
      PROVE  /\ RowKept(t) \/ Written(t, x)
             /\ \/ attempts'[t] = attempts[t]
                \/ \E done \in SUBSET (DOMAIN attempts[t]) :
                     /\ Written(t, x) /\ status'[t] = "CONFIRMED"
                     /\ attempts'[t] = Settled(attempts[t], x.hash, done)
  <2>1. MarkWithReceipt("CONFIRMED", x.tx, x.hash, x.got)
    BY <1>3 DEF MarkConfirmed
  <2>2. PICK done \in SUBSET (DOMAIN attempts[x.tx]) :
          attempts' = [attempts EXCEPT ![x.tx] = Settled(attempts[x.tx], x.hash, done)]
    BY <1>3 DEF MarkConfirmed
  <2>3. CASE t = x.tx
    BY <1>0, <1>2, <1>3, <2>1, <2>2, <2>3
  <2>4. CASE t # x.tx
    BY <1>0, <1>2, <2>1, <2>2, <2>4
  <2> QED
    BY <2>3, <2>4
<1>4. ASSUME NEW x \in rp.page, ApplySubmitted(x)
      PROVE  /\ RowKept(t) \/ Written(t, x)
             /\ \/ attempts'[t] = attempts[t]
                \/ \E done \in SUBSET (DOMAIN attempts[t]) :
                     /\ Written(t, x) /\ status'[t] = "CONFIRMED"
                     /\ attempts'[t] = Settled(attempts[t], x.hash, done)
  <2>1. rp.pc = "applySubmitted" /\ x.got # NULL
    BY <1>4 DEF ApplySubmitted, IndInv, RowsConsistent, PollerRows
  <2>2. \/ UNCHANGED repoVars
        \/ StatusFromReceipt(x.tx, x.got) = "REVERTED" /\ MarkReverted(x.tx, x.hash, x.got)
        \/ StatusFromReceipt(x.tx, x.got) = "INCLUDED" /\ MarkIncluded(x.tx, x.hash, x.got)
        \/ StatusFromReceipt(x.tx, x.got) = "CONFIRMED" /\ MarkConfirmed(x.tx, x.hash, x.got)
    BY <1>4 DEF ApplySubmitted, Record
  <2>3. ASSUME NEW st, st = StatusFromReceipt(x.tx, x.got), t = x.tx,
               MarkWithReceipt(st, x.tx, x.hash, x.got)
        PROVE  Written(t, x)
    BY <1>2, <2>1, <2>3 DEF Written
  <2>4. CASE UNCHANGED repoVars
    BY <1>1, <2>4
  <2>5. ASSUME NEW st, st = StatusFromReceipt(x.tx, x.got), attempts' = attempts,
               MarkWithReceipt(st, x.tx, x.hash, x.got)
        PROVE  (RowKept(t) \/ Written(t, x)) /\ attempts'[t] = attempts[t]
    BY <1>2, <2>3, <2>5
  <2>6. CASE /\ StatusFromReceipt(x.tx, x.got) = "CONFIRMED"
             /\ MarkConfirmed(x.tx, x.hash, x.got)
    <3>1. t = x.tx => Written(t, x)
      BY <2>3, <2>6 DEF MarkConfirmed
    <3> QED
      BY <1>3, <2>6, <3>1
  <2> QED
    BY <2>2, <2>4, <2>5, <2>6 DEF MarkReverted, MarkIncluded
<1>5. ASSUME NEW x \in rp.page, ApplyIncluded(x)
      PROVE  /\ RowKept(t) \/ RowAside(t) \/ Written(t, x)
             /\ \/ attempts'[t] = attempts[t]
                \/ \E done \in SUBSET (DOMAIN attempts[t]) :
                     /\ Written(t, x) /\ status'[t] = "CONFIRMED"
                     /\ attempts'[t] = Settled(attempts[t], x.hash, done)
  <2>1. rp.pc = "applyIncluded"
    BY <1>5 DEF ApplyIncluded
  <2>2. \/ UNCHANGED repoVars
        \/ RevertToSubmitted(x.tx)
        \/ x.got # NULL /\ MarkIncluded(x.tx, x.hash, x.got)
        \/ /\ x.got # NULL /\ SameBlock(x.got, x.block)
           /\ MarkConfirmed(x.tx, x.hash, x.got)
    BY <1>5 DEF ApplyIncluded, Record
  <2>3. CASE UNCHANGED repoVars
    BY <1>1, <2>3
  <2>4. CASE RevertToSubmitted(x.tx)
    BY <1>0, <2>4 DEF RevertToSubmitted, RowKept, RowAside
  <2>5. CASE x.got # NULL /\ MarkIncluded(x.tx, x.hash, x.got)
    <3>1. MarkWithReceipt("INCLUDED", x.tx, x.hash, x.got) /\ attempts' = attempts
      BY <2>5 DEF MarkIncluded
    <3> QED
      BY <1>2, <2>1, <2>5, <3>1 DEF Written
  <2>6. CASE /\ x.got # NULL /\ SameBlock(x.got, x.block)
             /\ MarkConfirmed(x.tx, x.hash, x.got)
    <3>1. MarkWithReceipt("CONFIRMED", x.tx, x.hash, x.got)
      BY <2>6 DEF MarkConfirmed
    <3>2. t = x.tx => Written(t, x)
      BY <1>2, <2>1, <2>6, <3>1 DEF Written
    <3> QED
      BY <1>3, <2>6, <3>2
  <2> QED
    BY <2>2, <2>3, <2>4, <2>5, <2>6
<1>6. ASSUME \/ FetchSubmitted \/ FetchSubmittedReceipts \/ ReadBlockNumber
             \/ FetchIncluded \/ FetchIncludedReceipts \/ ReadLatestAttempt
             \/ RebroadcastAfterReorg
      PROVE  RowKept(t) /\ attempts'[t] = attempts[t]
  BY <1>1, <1>6 DEF FetchSubmitted, FetchSubmittedReceipts, ReadBlockNumber,
              FetchIncluded, FetchIncludedReceipts, ReadLatestAttempt,
              RebroadcastAfterReorg, FetchPage
<1> QED
  BY <1>4, <1>5, <1>6 DEF PollerStep

-----------------------------------------------------------------------------
(* The poller's way through its pages *)

Over == /\ rp'.page = {} /\ rp'.pc \in {"submitted", "head"}
        /\ rp'.after = 0 /\ rp'.head = 0

HeadRead == /\ rp.pc = "head" /\ rp'.pc = "included" /\ rp'.page = rp.page
            /\ rp'.after = rp.after /\ BlockNumberAnswer(rp'.head)

PassedOver == /\ rp'.pc = rp.pc /\ rp.pc \in {"submitted", "included"}
              /\ rp'.page = rp.page /\ rp'.head = rp.head
              /\ rp'.after \in TxIds /\ rp'.after > rp.after

PageRead(pass, st, receipts, wanted) ==
    /\ rp.pc = pass /\ rp'.pc = receipts /\ rp'.head = rp.head
    /\ rp'.after \in TxIds /\ rp'.after > rp.after
    /\ \A y \in rp'.page : \E t \in TxIds \cap wanted :
         /\ status[t] = st /\ y = Snapshot(t) /\ t > rp.after /\ t <= rp'.after

ReceiptsRead ==
    /\ \/ rp.pc = "submittedReceipts" /\ rp'.pc = "applySubmitted"
       \/ rp.pc = "includedReceipts" /\ rp'.pc = "applyIncluded"
    /\ rp'.head = rp.head /\ rp'.after = rp.after
    /\ \A y \in rp'.page : \E x \in rp.page : AnswerTo(y, x)

RestOfPage ==
    /\ \/ rp.pc = "applySubmitted" /\ rp'.pc = "applySubmitted"
       \/ rp.pc \in ApplyPcs /\ rp'.pc \in ApplyPcs
    /\ rp'.head = rp.head /\ rp'.after = rp.after /\ rp'.page \subseteq rp.page

PageDone ==
    /\ \/ rp'.pc = "submitted"
       \/ rp'.pc = "included" /\ rp.pc \in IncludedPcs
    /\ rp'.head = rp.head /\ rp'.after = rp.after /\ rp'.page = {}

PollerMove ==
    \/ rp' = rp \/ Over \/ HeadRead \/ PassedOver
    \/ PageRead("submitted", "SUBMITTED", "submittedReceipts", HasFinalHash)
    \/ PageRead("included", "INCLUDED", "includedReceipts", {t \in TxIds : DeepEnough(t)})
    \/ ReceiptsRead \/ RestOfPage \/ PageDone

LEMMA PollerStepMoves ==
  ASSUME IndInv, PollerStep
  PROVE  PollerMove
<1>0. rp \in PollerState
  BY DEF IndInv, TypeOK, PollerTypeOK
<1>1. CASE FetchSubmitted
  <2>1. rp.pc = "submitted"
    BY <1>1 DEF FetchSubmitted, FetchPage
  <2> QED
    BY <1>1, <2>1, FetchFields DEF FetchSubmitted, PollerMove, Over, PassedOver, PageRead
<1>2. CASE FetchIncluded
  <2>1. rp.pc = "included"
    BY <1>2 DEF FetchIncluded, FetchPage
  <2>2. PICK wanted : wanted = {t \in TxIds : DeepEnough(t)}
    OBVIOUS
  <2>3. FetchPage("included", "INCLUDED", "includedReceipts", wanted)
    BY <1>2, <2>2 DEF FetchIncluded
  <2>4. Over \/ PassedOver \/ PageRead("included", "INCLUDED", "includedReceipts", wanted)
    BY <2>1, <2>3, FetchFields DEF Over, PassedOver, PageRead
  <2> QED
    BY <2>2, <2>4 DEF PollerMove
<1>3. CASE ReadBlockNumber
  <2>1. CASE rp' = Return("included")
    BY <2>1, ReturnFields DEF Over, PollerMove
  <2>2. ASSUME NEW n \in 0..head, BlockNumberAnswer(n),
               rp' = [rp EXCEPT !.pc = "included", !.head = n]
        PROVE  HeadRead
    BY <1>0, <1>3, <2>2 DEF HeadRead, ReadBlockNumber, PollerState
  <2> QED
    BY <1>3, <2>1, <2>2 DEF ReadBlockNumber, PollerMove
<1>4. ASSUME NEW pass \in {"submitted", "included"}, NEW apply, NEW rest,
             rp' = Continue(pass, apply, rest),
             pass = "included" => rp.pc \in IncludedPcs
      PROVE  \/ Over \/ PageDone
             \/ /\ rp'.pc = apply /\ rp'.page = rest
                /\ rp'.head = rp.head /\ rp'.after = rp.after
  BY <1>0, <1>4, ContinueFields DEF Over, PageDone
<1>5. CASE FetchSubmittedReceipts
  <2>1. CASE rp' = Return("submitted")
    BY <2>1, ReturnFields DEF Over, PollerMove
  <2>2. ASSUME NEW f \in Answers(rp.page),
               rp' = Continue("submitted", "applySubmitted",
                              {x \in Answered(OfHash(rp.page), f) : x.got # NULL})
        PROVE  PollerMove
    <3> DEFINE rest == {x \in Answered(OfHash(rp.page), f) : x.got # NULL}
    <3>1. OfHash(rp.page) \subseteq rp.page
      BY DEF OfHash
    <3>2. \A y \in rest : \E x \in rp.page : AnswerTo(y, x)
      BY <3>1, AnswersOfPage
    <3>3. rp' = Continue("submitted", "applySubmitted", rest)
      BY <2>2
    <3> HIDE DEF rest
    <3>4. rp.pc = "submittedReceipts"
      BY <1>5 DEF FetchSubmittedReceipts
    <3>5. \/ Over \/ PageDone
          \/ /\ rp'.pc = "applySubmitted" /\ rp'.page = rest
             /\ rp'.head = rp.head /\ rp'.after = rp.after
      BY <1>4, <3>3
    <3> QED
      BY <3>2, <3>4, <3>5 DEF ReceiptsRead, PollerMove
  <2> QED
    BY <1>5, <2>1, <2>2 DEF FetchSubmittedReceipts
<1>6. CASE FetchIncludedReceipts
  <2>1. CASE rp' = Return("included")
    BY <2>1, ReturnFields DEF Over, PollerMove
  <2>2. ASSUME NEW f \in Answers(rp.page),
               rp' = Continue("included", "applyIncluded", Answered(rp.page, f))
        PROVE  PollerMove
    <3>1. \A y \in Answered(rp.page, f) : \E x \in rp.page : AnswerTo(y, x)
      BY AnswersOfPage
    <3>2. rp.pc = "includedReceipts"
      BY <1>6 DEF FetchIncludedReceipts
    <3>3. \/ Over \/ PageDone
          \/ /\ rp'.pc = "applyIncluded" /\ rp'.page = Answered(rp.page, f)
             /\ rp'.head = rp.head /\ rp'.after = rp.after
      BY <1>4, <2>2, <3>2 DEF IncludedPcs
    <3> QED
      BY <3>1, <3>2, <3>3 DEF ReceiptsRead, PollerMove
  <2> QED
    BY <1>6, <2>1, <2>2 DEF FetchIncludedReceipts
<1>7. ASSUME NEW x \in rp.page, ApplySubmitted(x) PROVE PollerMove
  <2>1. /\ rp.pc = "applySubmitted"
        /\ rp' = Continue("submitted", "applySubmitted", rp.page \ {x})
    BY <1>7 DEF ApplySubmitted
  <2>2. \/ Over \/ PageDone
        \/ /\ rp'.pc = "applySubmitted" /\ rp'.page = rp.page \ {x}
           /\ rp'.head = rp.head /\ rp'.after = rp.after
    BY <1>4, <2>1
  <2> QED
    BY <2>1, <2>2 DEF RestOfPage, PollerMove
<1>8. ASSUME NEW rest \in SUBSET rp.page, rp.pc \in ApplyPcs,
             rp' = Continue("included", "applyIncluded", rest)
      PROVE  PollerMove
  <2>1. \/ Over \/ PageDone
        \/ /\ rp'.pc = "applyIncluded" /\ rp'.page = rest
           /\ rp'.head = rp.head /\ rp'.after = rp.after
    BY <1>4, <1>8 DEF IncludedPcs, ApplyPcs
  <2> QED
    BY <1>8, <2>1 DEF RestOfPage, PollerMove, ApplyPcs
<1>9. ASSUME NEW x \in rp.page, ApplyIncluded(x) PROVE PollerMove
  <2>1. CASE rp' = Continue("included", "applyIncluded", rp.page \ {x})
    BY <1>8, <1>9, <2>1 DEF ApplyIncluded, ApplyPcs
  <2>2. CASE rp' = [rp EXCEPT !.pc = "rebroadcast", !.cur = x.tx,
                              !.page = rp.page \ {x}]
    BY <1>0, <1>9, <2>2 DEF ApplyIncluded, RestOfPage, PollerMove, PollerState, ApplyPcs
  <2> QED
    BY <1>9, <2>1, <2>2 DEF ApplyIncluded
<1>10. CASE ReadLatestAttempt
  <2>1. CASE rp' = Continue("included", "applyIncluded", rp.page)
    BY <1>8, <1>10, <2>1 DEF ReadLatestAttempt, ApplyPcs
  <2>2. CASE rp' = [rp EXCEPT !.pc = "resend", !.hash = LatestAttempt(rp.cur)]
    BY <1>0, <1>10, <2>2 DEF ReadLatestAttempt, RestOfPage, PollerMove, PollerState, ApplyPcs
  <2> QED
    BY <1>10, <2>1, <2>2 DEF ReadLatestAttempt
<1>11. CASE RebroadcastAfterReorg
  BY <1>8, <1>11 DEF RebroadcastAfterReorg, ApplyPcs
<1> QED
  BY <1>1, <1>2, <1>3, <1>5, <1>6, <1>7, <1>9, <1>10, <1>11 DEF PollerStep

(* A new process starts a new poll; no other goroutine touches it. *)
LEMMA EveryMove ==
  ASSUME IndInv, [Next]_vars
  PROVE  /\ PollerMove
         /\ RunPoller \/ rp' = rp \/ Over
<1>1. ASSUME rp' = NewPoll PROVE Over
  BY <1>1 DEF NewPoll, Over
<1>2. rp' = rp \/ rp' = NewPoll \/ RunPoller
  BY DEF Next, ManagerStep, CreateTransfer, RunPipeline, RunDetector,
         RunChain, StartRecovery, AskPendingNonce, InitNonceForSender, Start, Crash,
         vars, memory
<1> QED
  BY <1>1, <1>2, PollerStepMoves DEF RunPoller, PollerMove

LEMMA NotBefore ==
  ASSUME NEW a \in Nat, NEW b, b = a \/ (b \in Nat /\ b > a)
  PROVE  b \in Nat /\ b >= a
  OBVIOUS

(* The page after a step. *)
LEMMA PageAfter ==
  ASSUME IndInv, PollerMove, NEW y \in rp'.page
  PROVE  \/ y \in rp.page /\ rp'.after >= rp.after
         \/ \E t \in TxIds : /\ status[t] \in {"SUBMITTED", "INCLUDED"}
                             /\ y = Snapshot(t) /\ t <= rp'.after
         \/ /\ \E x \in rp.page : AnswerTo(y, x)
            /\ rp'.after = rp.after
<1>0. rp.after \in Nat /\ TxIds \subseteq Nat
  BY DomainAssumption DEF IndInv, TypeOK, PollerTypeOK, PollerState
<1>1. CASE rp' = rp \/ HeadRead \/ PassedOver \/ RestOfPage
  <2>1. y \in rp.page
    BY <1>1 DEF HeadRead, PassedOver, RestOfPage
  <2>2. rp'.after = rp.after \/ (rp'.after \in TxIds /\ rp'.after > rp.after)
    BY <1>1 DEF HeadRead, PassedOver, RestOfPage
  <2>3. rp'.after >= rp.after
    BY <1>0, <2>2, NotBefore
  <2> QED
    BY <2>1, <2>3
<1>2. CASE \/ PageRead("submitted", "SUBMITTED", "submittedReceipts", HasFinalHash)
           \/ PageRead("included", "INCLUDED", "includedReceipts",
                       {t \in TxIds : DeepEnough(t)})
  BY <1>2 DEF PageRead
<1>3. CASE ReceiptsRead
  BY <1>3 DEF ReceiptsRead
<1>4. CASE Over \/ PageDone
  BY <1>4 DEF Over, PageDone
<1> QED
  BY <1>1, <1>2, <1>3, <1>4 DEF PollerMove

LEMMA RowStep ==
  ASSUME IndInv, [Next]_vars, NEW t \in TxIds
  PROVE  RowKept(t) \/ RowAside(t) \/ \E x \in rp.page : Written(t, x)
BY OtherRowStep, PollerRowStep DEF RunPoller

LEMMA BlockKnownStep ==
  ASSUME IndInv, BlockKnown, [Next]_vars
  PROVE  BlockKnown'
BY RowStep DEF BlockKnown, RowKept, RowAside, Written

LEMMA PageTypes ==
  ASSUME IndInv
  PROVE  /\ rp.after \in Nat /\ rp.head \in Nat /\ head \in Nat
         /\ \A x \in rp.page : /\ x \in Seen /\ x.tx \in TxIds /\ x.tx \in Nat
                               /\ x.hash \in SignedTx
                               /\ x.got # NULL => x.got \in Receipt /\ x.got.num \in Nat
                               /\ x.block # NULL => x.block \in Receipt /\ x.block.num \in Nat
         /\ \A t \in TxIds : receipt[t] # NULL => receipt[t] \in Receipt
                                                  /\ receipt[t].num \in Nat
BY DomainAssumption DEF IndInv, TypeOK, PollerTypeOK, PollerState, ChainTypeOK, RepoTypeOK,
                        Seen, Receipt

LEMMA AnswerFields ==
  ASSUME NEW x \in Seen, NEW y, AnswerTo(y, x)
  PROVE  /\ y.tx = x.tx /\ y.hash = x.hash /\ y.block = x.block
         /\ y.got = NULL \/ Known(x.hash, y.got)
         /\ NoneOrphaned /\ Regime => y.got = NULL \/ HasReceipt(x.hash, y.got)
BY DEF AnswerTo, ReceiptAnswer, Seen, Known, HasReceipt, Executed, NoneOrphaned, Regime,
       Shallow

LEMMA AtMost ==
  ASSUME NEW a \in Nat, NEW b \in Nat, NEW c, a <= b, c = b \/ c = b + 1
  PROVE  c \in Nat /\ a <= c
  OBVIOUS

LEMMA Through ==
  ASSUME NEW a \in Nat, NEW b \in Nat, NEW c \in Nat, a <= b, b <= c
  PROVE  a <= c
  OBVIOUS

LEMMA ReadBelowStep ==
  ASSUME IndInv, MinedBelow, NoneOrphaned, SilentErc20, ReadBelow, [Next]_vars
  PROVE  ReadBelow'
<1>0. head' = head \/ head' = head + 1
  BY ChainMoves
<1>1. ASSUME NEW n \in Nat, n <= head PROVE n <= head'
  BY <1>0, <1>1, AtMost, PageTypes
<1>2. rp'.head <= head'
  <2>1. rp'.head \in {rp.head, 0} \/ BlockNumberAnswer(rp'.head)
    BY EveryMove DEF PollerMove, Over, HeadRead, PassedOver, PageRead, ReceiptsRead,
                     RestOfPage, PageDone
  <2>2. rp'.head \in Nat /\ rp'.head <= head
    <3>1. CASE BlockNumberAnswer(rp'.head)
      BY <3>1, PageTypes DEF BlockNumberAnswer
    <3>2. CASE rp'.head \in {rp.head, 0}
      BY <3>2, PageTypes DEF ReadBelow
    <3> QED
      BY <2>1, <3>1, <3>2
  <2> QED
    BY <1>1, <2>2
<1>3. ASSUME NEW t \in TxIds, receipt'[t] # NULL PROVE receipt'[t].num <= head'
  <2>1. CASE receipt'[t] = receipt[t]
    BY <1>1, <1>3, <2>1, PageTypes DEF ReadBelow
  <2>2. ASSUME NEW x \in rp.page, Written(t, x) PROVE receipt'[t].num <= head'
    <3>1. receipt'[t] = x.got /\ x.got # NULL
      BY <2>2 DEF Written
    <3>2. x.got.num \in Nat /\ x.got.num <= head
      BY <3>1, PageTypes DEF ReadBelow
    <3> QED
      BY <1>1, <3>1, <3>2
  <2> QED
    BY <1>3, <2>1, <2>2, RowStep DEF RowKept, RowAside
<1>4. ASSUME NEW y \in rp'.page
      PROVE  y.tx <= rp'.after /\ (y.got # NULL => y.got.num <= head')
  <2>1. CASE y \in rp.page /\ rp'.after >= rp.after
    <3>1. y.tx <= rp.after /\ rp'.after \in Nat
      <4>1. IndInv'
        BY NextInv
      <4> QED
        BY <2>1, <4>1 DEF ReadBelow, IndInv, TypeOK, PollerTypeOK, PollerState
    <3>2. y.tx <= rp'.after
      BY <2>1, <3>1, PageTypes, Through
    <3> QED
      BY <1>1, <2>1, <3>2, PageTypes DEF ReadBelow
  <2>2. ASSUME NEW t \in TxIds, y = Snapshot(t), t <= rp'.after
        PROVE  y.tx <= rp'.after /\ y.got = NULL
    BY <2>2 DEF Snapshot
  <2>3. ASSUME NEW x \in rp.page, AnswerTo(y, x), rp'.after = rp.after
        PROVE  y.tx <= rp'.after /\ (y.got # NULL => y.got.num <= head')
    <3>1. y.tx = x.tx /\ (y.got = NULL \/ Known(x.hash, y.got))
      BY <2>3, AnswerFields, PageTypes
    <3>2. x.tx <= rp'.after
      BY <2>3 DEF ReadBelow
    <3>3. ASSUME Known(x.hash, y.got) PROVE y.got.num <= head'
      <4>1. PICK m \in Executed : ReceiptOf(m) = y.got
        BY <3>3 DEF Known
      <4>2. y.got.num = m.num /\ m.num \in Nat /\ m.num <= head
        BY <4>1 DEF ReceiptOf, MinedBelow, IndInv, TypeOK, ChainTypeOK, MinedTx, Executed
      <4> QED
        BY <1>1, <4>2
    <3> QED
      BY <3>1, <3>2, <3>3
  <2> QED
    BY <2>1, <2>2, <2>3, PageAfter, EveryMove
<1> QED
  BY <1>2, <1>3, <1>4 DEF ReadBelow

-----------------------------------------------------------------------------
(* Depths *)

(* The uint64 subtraction, when it does not wrap. *)
LEMMA ModAtMost ==
  ASSUME NEW a \in Nat, NEW u \in Nat \ {0}
  PROVE  a % u \in Nat /\ a % u <= a
  OBVIOUS

LEMMA DepthReached ==
  ASSUME NEW h \in Nat, NEW n \in Nat, NEW c \in Nat, NEW u \in Nat \ {0},
         (h - n) % u >= c
  PROVE  n + c <= h \/ h < n
<1> SUFFICES ASSUME n <= h PROVE n + c <= h
  OBVIOUS
<1>1. h - n \in Nat
  OBVIOUS
<1>2. (h - n) % u \in Nat /\ (h - n) % u <= h - n
  BY <1>1, ModAtMost
<1> QED
  BY <1>2

LEMMA NoLag ==
  ASSUME NEW k \in Nat, NEW n \in 0..k, k - n <= 0
  PROVE  n = k
  OBVIOUS

(* A step within pollIncluded, after currentBlock was read. *)
LEMMA SamePass ==
  ASSUME IndInv, PollerMove, rp'.pc \in IncludedPcs, ~ HeadRead
  PROVE  /\ rp.pc \in IncludedPcs /\ rp'.head = rp.head
         /\ rp'.after \in Nat /\ rp'.after >= rp.after
<1>1. /\ rp.pc \in IncludedPcs /\ rp'.head = rp.head
      /\ rp'.after = rp.after \/ (rp'.after \in TxIds /\ rp'.after > rp.after)
  BY DEF PollerMove, Over, PassedOver, PageRead, ReceiptsRead, RestOfPage, PageDone,
         IncludedPcs, ApplyPcs
<1>2. TxIds \subseteq Nat /\ rp.after \in Nat
  BY DomainAssumption, PageTypes
<1> QED
  BY <1>1, <1>2, NotBefore

(* The page in that pass. *)
LEMMA IncludedPage ==
  ASSUME IndInv, PollerMove, rp'.pc \in IncludedPcs \ {"included"}, NEW y \in rp'.page
  PROVE  /\ rp'.head = rp.head
         /\ \/ y \in rp.page /\ rp'.pc = rp.pc
            \/ y \in rp.page /\ rp.pc \in ApplyPcs /\ rp'.pc \in ApplyPcs
            \/ /\ rp.pc = "included" /\ rp'.pc = "includedReceipts"
               /\ \E t \in TxIds : /\ status[t] = "INCLUDED" /\ DeepEnough(t)
                                   /\ y = Snapshot(t) /\ t > rp.after
            \/ /\ rp.pc = "includedReceipts" /\ rp'.pc = "applyIncluded"
               /\ \E x \in rp.page : AnswerTo(y, x)
<1>1. CASE rp' = rp
  BY <1>1
<1>2. CASE Over \/ HeadRead \/ PassedOver \/ PageDone
           \/ PageRead("submitted", "SUBMITTED", "submittedReceipts", HasFinalHash)
  BY <1>2 DEF Over, HeadRead, PassedOver, PageDone, PageRead, IncludedPcs
<1>3. CASE PageRead("included", "INCLUDED", "includedReceipts", {t \in TxIds : DeepEnough(t)})
  BY <1>3 DEF PageRead
<1>4. CASE ReceiptsRead
  BY <1>4 DEF ReceiptsRead, IncludedPcs
<1>5. CASE RestOfPage
  BY <1>5 DEF RestOfPage, IncludedPcs, ApplyPcs
<1> QED
  BY <1>1, <1>2, <1>3, <1>4, <1>5 DEF PollerMove

LEMMA DepthsStep ==
  ASSUME IndInv, DepthsRead, [Next]_vars
  PROVE  DepthsRead'
<1> SUFFICES ASSUME rp'.pc \in IncludedPcs \ {"included"}, NEW y \in rp'.page
             PROVE  /\ y.block # NULL
                    /\ \/ y.block.num + ConfirmationBlocks <= rp'.head
                       \/ rp'.head < y.block.num
  BY DEF DepthsRead
<1>0. PollerMove
  BY EveryMove
<1>1. rp'.head = rp.head
  BY <1>0, IncludedPage
<1>2. CASE y \in rp.page /\ rp.pc \in IncludedPcs \ {"included"}
  BY <1>1, <1>2 DEF DepthsRead
<1>3. ASSUME NEW t \in TxIds, DeepEnough(t), y = Snapshot(t)
      PROVE  /\ y.block # NULL
             /\ \/ y.block.num + ConfirmationBlocks <= rp.head
                \/ rp.head < y.block.num
  <2>1. /\ y.block = receipt[t] /\ receipt[t] # NULL
        /\ (rp.head - receipt[t].num) % UintSize >= ConfirmationBlocks
    BY <1>3 DEF Snapshot, DeepEnough, Depth
  <2>2. receipt[t].num \in Nat /\ rp.head \in Nat
    BY <2>1, PageTypes
  <2>3. receipt[t].num + ConfirmationBlocks <= rp.head \/ rp.head < receipt[t].num
    BY <2>1, <2>2, PollerAssumption, DepthReached
  <2> QED
    BY <2>1, <2>3
<1>4. ASSUME rp.pc = "includedReceipts", NEW x \in rp.page, AnswerTo(y, x)
      PROVE  /\ y.block # NULL
             /\ \/ y.block.num + ConfirmationBlocks <= rp.head
                \/ rp.head < y.block.num
  <2>1. y.block = x.block
    BY <1>4, AnswerFields, PageTypes
  <2> QED
    BY <1>4, <2>1 DEF DepthsRead, IncludedPcs
<1> QED
  BY <1>0, <1>1, <1>2, <1>3, <1>4, IncludedPage DEF IncludedPcs, ApplyPcs

LEMMA NotAheadStep ==
  ASSUME IndInv, ReadBelow, HeadLag = 0, NotAhead, [Next]_vars
  PROVE  NotAhead'
<1>0. PollerMove
  BY EveryMove
<1>1. ASSUME rp'.pc \in IncludedPcs, NEW t \in TxIds, status'[t] = "INCLUDED",
             rp'.after < t, receipt'[t] # NULL
      PROVE  receipt'[t].num <= rp'.head
  <2>1. CASE HeadRead
    <3>1. rp'.head = head
      BY <2>1, NoLag, PageTypes DEF HeadRead, BlockNumberAnswer
    <3>2. rp.pc = "head"
      BY <2>1 DEF HeadRead
    <3>3. RowKept(t)
      BY <1>1, <3>2, RowStep DEF Written, RowAside
    <3> QED
      BY <1>1, <3>1, <3>3 DEF RowKept, ReadBelow
  <2>2. CASE ~ HeadRead
    <3>1. /\ rp.pc \in IncludedPcs /\ rp'.head = rp.head
          /\ rp'.after \in Nat /\ rp'.after >= rp.after
      BY <1>0, <1>1, <2>2, SamePass
    <3>2. rp.after < t /\ t \in Nat /\ rp.after \in Nat
      <4>1. t \in Nat /\ rp.after \in Nat
        BY DomainAssumption, PageTypes
      <4>2. rp'.after < t /\ rp'.after >= rp.after
        BY <1>1, <3>1
      <4> QED
        BY <3>1, <4>1, <4>2
    <3>3. ~ \E x \in rp.page : Written(t, x)
      <4> SUFFICES ASSUME NEW x \in rp.page, Written(t, x) PROVE FALSE
        OBVIOUS
      <4>1. x.tx = t /\ x.tx <= rp.after
        BY DEF Written, ReadBelow
      <4> QED
        BY <3>2, <4>1
    <3>4. RowKept(t)
      BY <1>1, <3>3, RowStep DEF RowAside
    <3> QED
      BY <1>1, <3>1, <3>2, <3>4 DEF RowKept, NotAhead
  <2> QED
    BY <2>1, <2>2
<1>2. ASSUME rp'.pc \in IncludedPcs \ {"included"}, NEW y \in rp'.page, y.block # NULL
      PROVE  y.block.num <= rp'.head
  <2>1. rp'.head = rp.head
    BY <1>0, <1>2, IncludedPage
  <2>2. CASE y \in rp.page /\ rp.pc \in IncludedPcs \ {"included"}
    BY <1>2, <2>1, <2>2 DEF NotAhead
  <2>3. ASSUME rp.pc = "included", NEW t \in TxIds, status[t] = "INCLUDED",
               y = Snapshot(t), t > rp.after
        PROVE  y.block.num <= rp.head
    <3>1. y.block = receipt[t]
      BY <2>3 DEF Snapshot
    <3>2. rp.after < t
      BY <2>3, PageTypes, DomainAssumption
    <3> QED
      BY <1>2, <2>3, <3>1, <3>2 DEF NotAhead, IncludedPcs
  <2>4. ASSUME rp.pc = "includedReceipts", NEW x \in rp.page, AnswerTo(y, x)
        PROVE  y.block.num <= rp.head
    <3>1. y.block = x.block
      BY <2>4, AnswerFields, PageTypes
    <3> QED
      BY <1>2, <2>4, <3>1 DEF NotAhead, IncludedPcs
  <2> QED
    BY <1>0, <1>2, <2>1, <2>2, <2>3, <2>4, IncludedPage DEF IncludedPcs, ApplyPcs
<1> QED
  BY <1>1, <1>2 DEF NotAhead

LEMMA ConfirmsAtOnce ==
  ASSUME NEW t, NEW r, StatusFromReceipt(t, r) = "CONFIRMED"
  PROVE  ConfirmationBlocks = 0
BY PollerAssumption DEF StatusFromReceipt

(* The depth at which a row is confirmed. *)
LEMMA DeepEnoughStep ==
  ASSUME IndInv, ReadBelow, DepthsRead, [Next]_vars, NEW t \in TxIds,
         status[t] # "CONFIRMED", status'[t] = "CONFIRMED"
  PROVE  \/ receipt'[t].num + ConfirmationBlocks <= head
         \/ rp.pc = "applyIncluded" /\ rp.head < receipt'[t].num
<1>1. PICK x \in rp.page : Written(t, x)
  BY RowStep DEF RowKept, RowAside
<1>2. /\ receipt'[t] = x.got /\ x.got.num \in Nat /\ x.got.num <= head
      /\ head \in Nat /\ ConfirmationBlocks \in Nat
  BY <1>1, PageTypes, PollerAssumption DEF Written, ReadBelow
<1>3. CASE rp.pc = "applySubmitted"
  <2>1. ConfirmationBlocks = 0
    BY <1>1, <1>3, ConfirmsAtOnce DEF Written
  <2> QED
    BY <1>2, <2>1
<1>4. CASE rp.pc = "applyIncluded"
  <2>1. SameBlock(x.got, x.block)
    BY <1>1, <1>4 DEF Written
  <2>2. x.block.num + ConfirmationBlocks <= rp.head \/ rp.head < x.block.num
    BY <1>4 DEF DepthsRead, IncludedPcs
  <2>3. x.got.num + ConfirmationBlocks <= rp.head \/ rp.head < x.got.num
    BY <2>1, <2>2 DEF SameBlock
  <2>4. CASE x.got.num + ConfirmationBlocks <= rp.head
    <3>1. x.got.num + ConfirmationBlocks \in Nat
      BY <1>2
    <3>2. x.got.num + ConfirmationBlocks <= head
      BY <1>2, <2>4, <3>1, PageTypes, Through DEF ReadBelow
    <3> QED
      BY <1>2, <3>2
  <2> QED
    BY <1>2, <1>4, <2>3, <2>4
<1> QED
  BY <1>1, <1>3, <1>4 DEF Written

-----------------------------------------------------------------------------
(* Finality *)

(* What is final stays. *)
LEMMA FinalStays ==
  ASSUME IndInv, MinedBelow, NoneOrphaned, SilentErc20, [Next]_vars, Regime'
  PROVE  /\ \A h, r : Final(h, r) => Final(h, r)'
         /\ \A h : Lasting(h) => Lasting(h)'
<1>1. \A m \in mined : Buried(m) => m \in mined' /\ Buried(m)'
  BY ChainMoves
<1> QED
  BY <1>1 DEF Final, Lasting, ReceiptOf

(* The pages of the two passes at the time of writing. *)
LEMMA ApplyPage ==
  ASSUME IndInv, PollerMove, rp'.pc = "applySubmitted", NEW y \in rp'.page
  PROVE  \/ y \in rp.page /\ rp.pc = "applySubmitted"
         \/ \E x \in rp.page : AnswerTo(y, x)
<1>1. CASE rp' = rp
  BY <1>1
<1>2. CASE \/ Over \/ HeadRead \/ PassedOver \/ PageDone
           \/ PageRead("submitted", "SUBMITTED", "submittedReceipts", HasFinalHash)
           \/ PageRead("included", "INCLUDED", "includedReceipts",
                       {t \in TxIds : DeepEnough(t)})
  BY <1>2 DEF Over, HeadRead, PassedOver, PageDone, PageRead
<1>3. CASE ReceiptsRead \/ RestOfPage
  BY <1>3 DEF ReceiptsRead, RestOfPage, ApplyPcs
<1> QED
  BY <1>1, <1>2, <1>3 DEF PollerMove

(* A receipt that is as deep as it has to be. *)
LEMMA ReceiptFinal ==
  ASSUME IndInv, NEW h, NEW r, HasReceipt(h, r),
         Shallow => r.num + ConfirmationBlocks <= head
  PROVE  Final(h, r)
<1>1. PICK m \in mined : m.tx = h /\ ReceiptOf(m) = r
  BY DEF HasReceipt
<1>2. m.num = r.num
  BY <1>1 DEF ReceiptOf
<1> QED
  BY <1>1, <1>2 DEF Final, Buried

LEMMA FinalReadsStep ==
  ASSUME IndInv, Finality, [Next]_vars, Regime'
  PROVE  FinalReads'
<1>0. /\ PollerMove /\ IndInv' /\ Regime /\ FinalReads
      /\ \A h, r : Final(h, r) => Final(h, r)'
  BY EveryMove, NextInv, ChainMoves, FinalStays DEF Finality
<1>1. ASSUME rp'.pc = "applySubmitted", ConfirmationBlocks = 0, NEW y \in rp'.page
      PROVE  Final(y.hash, y.got)
  <2>1. CASE y \in rp.page /\ rp.pc = "applySubmitted"
    BY <1>0, <1>1, <2>1 DEF FinalReads
  <2>2. ASSUME NEW x \in rp.page, AnswerTo(y, x) PROVE Final(y.hash, y.got)
    <3>1. y.got # NULL
      BY <1>0, <1>1 DEF IndInv, RowsConsistent, PollerRows
    <3>2. y.hash = x.hash /\ HasReceipt(x.hash, y.got)
      BY <1>0, <2>2, <3>1, AnswerFields, PageTypes DEF Finality
    <3>3. PICK m \in mined : ReceiptOf(m) = y.got
      BY <3>2 DEF HasReceipt
    <3>4. y.got.num = m.num /\ m.num \in Nat /\ m.num <= head
      BY <3>3 DEF ReceiptOf, Finality, MinedBelow, IndInv, TypeOK, ChainTypeOK, MinedTx,
                  Executed
    <3>5. y.got.num + ConfirmationBlocks <= head
      BY <1>1, <3>4
    <3> QED
      BY <3>2, <3>5, ReceiptFinal
  <2> QED
    BY <1>0, <1>1, <2>1, <2>2, ApplyPage
<1>2. ASSUME rp'.pc \in ApplyPcs, NEW y \in rp'.page,
             y.got # NULL, SameBlock(y.got, y.block)
      PROVE  Final(y.hash, y.got)
  <2>1. CASE y \in rp.page /\ rp.pc \in ApplyPcs
    BY <1>0, <1>2, <2>1 DEF FinalReads
  <2>2. ASSUME rp.pc = "includedReceipts", NEW x \in rp.page, AnswerTo(y, x)
        PROVE  Final(y.hash, y.got)
    <3>1. y.hash = x.hash /\ y.block = x.block /\ HasReceipt(x.hash, y.got)
      BY <1>0, <1>2, <2>2, AnswerFields, PageTypes DEF Finality
    <3>2. ASSUME Shallow PROVE y.got.num + ConfirmationBlocks <= head
      <4>1. x.block # NULL /\ x.block.num + ConfirmationBlocks <= rp.head
        <5>1. /\ x.block # NULL /\ x.block.num <= rp.head
              /\ x.block.num + ConfirmationBlocks <= rp.head \/ rp.head < x.block.num
          BY <2>2, <3>2 DEF Finality, Shallow, DepthsRead, NotAhead, IncludedPcs
        <5>2. x.block.num \in Nat /\ rp.head \in Nat
          BY <5>1, PageTypes
        <5> QED
          BY <5>1, <5>2
      <4>2. x.block.num \in Nat /\ y.got.num = x.block.num
        BY <1>2, <3>1, <4>1, PageTypes DEF SameBlock
      <4>3. rp.head <= head /\ ConfirmationBlocks \in Nat
        BY PollerAssumption DEF Finality, ReadBelow
      <4> QED
        BY <4>1, <4>2, <4>3, PageTypes, Through
    <3> QED
      BY <3>1, <3>2, ReceiptFinal
  <2> QED
    BY <1>0, <1>2, <2>1, <2>2, IncludedPage DEF IncludedPcs, ApplyPcs
<1> QED
  BY <1>0, <1>1, <1>2 DEF FinalReads, SameBlock

(* The receipt that a row is confirmed with is final. *)
LEMMA ConfirmsFinal ==
  ASSUME IndInv, Finality, Regime, NEW t \in TxIds, NEW x \in rp.page, Written(t, x),
         status'[t] = "CONFIRMED"
  PROVE  Final(x.hash, x.got)
<1>1. CASE rp.pc = "applySubmitted"
  <2>1. ConfirmationBlocks = 0
    BY <1>1, ConfirmsAtOnce DEF Written
  <2> QED
    BY <1>1, <2>1 DEF Finality, FinalReads
<1>2. CASE rp.pc = "applyIncluded"
  BY <1>2 DEF Written, Finality, FinalReads, ApplyPcs
<1> QED
  BY <1>1, <1>2 DEF Written

(* An attempt becomes CONFIRMED with its row and its hash. *)
LEMMA ConfirmedAttempts ==
  ASSUME IndInv, [Next]_vars, NEW t \in TxIds, NEW i \in DOMAIN attempts'[t],
         attempts'[t][i].status = "CONFIRMED"
  PROVE  \/ \E j \in DOMAIN attempts[t] :
              /\ attempts[t][j].status = "CONFIRMED"
              /\ attempts'[t][i].hash = attempts[t][j].hash
         \/ \E x \in rp.page :
              /\ Written(t, x) /\ status'[t] = "CONFIRMED"
              /\ attempts'[t][i].hash = x.hash
<1>0. attempts \in [TxIds -> Seq(Attempt)] /\ attempts[t] \in Seq(Attempt)
  BY DEF IndInv, TypeOK, RepoTypeOK
<1>1. CASE attempts'[t] = attempts[t]
  BY <1>1
<1>2. ASSUME NEW x \in rp.page, NEW done, Written(t, x), status'[t] = "CONFIRMED",
             attempts'[t] = Settled(attempts[t], x.hash, done)
      PROVE  \/ \E j \in DOMAIN attempts[t] :
                  /\ attempts[t][j].status = "CONFIRMED"
                  /\ attempts'[t][i].hash = attempts[t][j].hash
             \/ attempts'[t][i].hash = x.hash
  <2>1. i \in DOMAIN attempts[t] /\ attempts'[t][i].hash = attempts[t][i].hash
    BY <1>2 DEF Settled
  <2>2. attempts[t][i].status = "CONFIRMED" \/ attempts[t][i].hash = x.hash
    BY <1>2, <2>1 DEF Settled
  <2> QED
    BY <2>1, <2>2
<1>3. ASSUME NEW h \in SignedTx,
             attempts'[t] = Append(attempts[t], [hash |-> h, status |-> "BROADCAST"])
      PROVE  \E j \in DOMAIN attempts[t] :
                /\ attempts[t][j].status = "CONFIRMED"
                /\ attempts'[t][i].hash = attempts[t][j].hash
  <2> DEFINE a == [hash |-> h, status |-> "BROADCAST"]
             n == Len(attempts[t])
  <2>1. a \in Attempt /\ a.status = "BROADCAST"
    BY NewAttemptType
  <2>2. n \in Nat /\ DOMAIN attempts[t] = 1..n
    BY <1>0, LenProperties
  <2>3. attempts'[t] = Append(attempts[t], a)
    BY <1>3
  <2> HIDE DEF a
  <2>4. /\ attempts'[t] \in Seq(Attempt) /\ Len(attempts'[t]) = n + 1
        /\ attempts'[t][n + 1] = a
        /\ \A j \in 1..n : attempts'[t][j] = attempts[t][j]
    BY <1>0, <2>1, <2>3, AppendProperties
  <2>5. DOMAIN attempts'[t] = 1..(n + 1)
    BY <2>4, LenProperties
  <2> HIDE DEF n
  <2>6. i \in 1..n
    BY <2>1, <2>2, <2>4, <2>5
  <2> QED
    BY <2>2, <2>4, <2>6
<1>4. CASE RunPoller
  BY <1>1, <1>2, <1>4, PollerRowStep DEF RunPoller
<1>5. CASE ~ RunPoller
  <2>1. \/ attempts'[t] = attempts[t]
        \/ \E h \in SignedTx :
             attempts'[t] = Append(attempts[t], [hash |-> h, status |-> "BROADCAST"])
    BY <1>0, <1>5, ExtendsOutsidePoller DEF Extends
  <2> QED
    BY <1>1, <1>3, <2>1
<1> QED
  BY <1>4, <1>5

LEMMA FinalRowsStep ==
  ASSUME IndInv, Finality, [Next]_vars, Regime'
  PROVE  FinalRows'
<1>0. /\ Regime /\ FinalRows
      /\ \A h, r : Final(h, r) => Final(h, r)'
      /\ \A h : Lasting(h) => Lasting(h)'
  BY ChainMoves, FinalStays DEF Finality
<1>1. ASSUME NEW t \in TxIds, status'[t] = "CONFIRMED"
      PROVE  Final(finalHash'[t], receipt'[t])
  <2>1. CASE RowKept(t)
    BY <1>0, <1>1, <2>1 DEF RowKept, FinalRows
  <2>2. ASSUME NEW x \in rp.page, Written(t, x)
        PROVE  Final(finalHash'[t], receipt'[t])
    BY <1>0, <1>1, <2>2, ConfirmsFinal DEF Written
  <2> QED
    BY <1>1, <2>1, <2>2, RowStep DEF RowAside
<1>2. ASSUME NEW t \in TxIds, NEW i \in DOMAIN attempts'[t],
             attempts'[t][i].status = "CONFIRMED"
      PROVE  Lasting(attempts'[t][i].hash)
  <2>1. ASSUME NEW j \in DOMAIN attempts[t], attempts[t][j].status = "CONFIRMED",
               attempts'[t][i].hash = attempts[t][j].hash
        PROVE  Lasting(attempts'[t][i].hash)
    BY <1>0, <2>1 DEF FinalRows
  <2>2. ASSUME NEW x \in rp.page, Written(t, x), status'[t] = "CONFIRMED",
               attempts'[t][i].hash = x.hash
        PROVE  Lasting(attempts'[t][i].hash)
    <3>1. Final(x.hash, x.got)
      BY <1>0, <2>2, ConfirmsFinal
    <3> QED
      BY <2>2, <3>1 DEF Final, Lasting
  <2> QED
    BY <1>2, <2>1, <2>2, ConfirmedAttempts
<1>3. \A t \in TxIds : status'[t] = "CONFIRMED" =>
         \E h, r : h = finalHash'[t] /\ r = receipt'[t] /\ Final(h, r)'
  BY <1>0, <1>1
<1>4. \A t \in TxIds : \A i \in DOMAIN attempts'[t] :
         attempts'[t][i].status = "CONFIRMED" =>
            \E h : h = attempts'[t][i].hash /\ Lasting(h)'
  BY <1>0, <1>2
<1> QED
  BY <1>3, <1>4 DEF FinalRows, Final, Lasting

-----------------------------------------------------------------------------
(* Outcomes *)

(* A receipt that StatusFromReceipt takes for a transfer is one. *)
LEMMA TransferSeen ==
  ASSUME IndInv, AttemptsOwned, SilentErc20, NEW x \in rp.page, Known(x.hash, x.got),
         StatusFromReceipt(x.tx, x.got) \in {"INCLUDED", "CONFIRMED"}
  PROVE  Good(x.hash)
<1>1. PICK m \in Executed : m.tx = x.hash /\ ReceiptOf(m) = x.got
  BY DEF Known
<1>2. m.outcome = x.got.outcome /\ m.outcome \in Outcomes
  BY <1>1 DEF ReceiptOf, IndInv, TypeOK, ChainTypeOK, MinedTx, Executed
<1>3. m.outcome # "reverted" /\ (PayloadOf[x.tx] \in Erc20 => m.outcome # "silent")
  BY <1>2 DEF StatusFromReceipt, TransferVerified
<1>4. x.hash.pay = PayloadOf[x.tx]
  BY PageTypes DEF AttemptsOwned, OwnHashes, OwnPayload
<1>5. m.outcome # "silent"
  BY <1>1, <1>3, <1>4 DEF SilentErc20
<1>6. m.outcome = "transferred"
  BY <1>2, <1>3, <1>5 DEF Outcomes
<1> QED
  BY <1>1, <1>6 DEF Good

LEMMA GoodStep ==
  ASSUME IndInv, AttemptsOwned, Finality, [Next]_vars
  PROVE  GoodRows'
<1>0. /\ PollerMove /\ IndInv' /\ GoodRows /\ Executed \subseteq Executed' /\ SilentErc20
  BY EveryMove, NextInv, ChainMoves DEF Finality
<1>1. /\ \A h : Good(h) => Good(h)'
      /\ \A h, r : Known(h, r) => Known(h, r)'
  BY <1>0 DEF Good, Known, ReceiptOf
<1>2. ASSUME NEW t \in TxIds, status'[t] \in {"INCLUDED", "CONFIRMED"}
      PROVE  Good(finalHash'[t]) /\ Known(finalHash'[t], receipt'[t])
  <2>1. CASE RowKept(t)
    BY <1>0, <1>2, <2>1 DEF RowKept, GoodRows
  <2>2. ASSUME NEW x \in rp.page, Written(t, x)
        PROVE  Good(finalHash'[t]) /\ Known(finalHash'[t], receipt'[t])
    <3>1. /\ finalHash'[t] = x.hash /\ receipt'[t] = x.got /\ x.tx = t
          /\ Known(x.hash, x.got)
      BY <1>0, <2>2 DEF Written, GoodRows, ApplyPcs
    <3>2. CASE rp.pc = "applySubmitted"
      <4>1. StatusFromReceipt(x.tx, x.got) \in {"INCLUDED", "CONFIRMED"}
        BY <1>2, <2>2, <3>2 DEF Written
      <4> QED
        BY <1>0, <3>1, <4>1, TransferSeen
    <3>3. CASE rp.pc = "applyIncluded"
      BY <1>0, <3>1, <3>3 DEF GoodRows, IncludedPcs
    <3> QED
      BY <2>2, <3>2, <3>3 DEF Written
  <2> QED
    BY <1>2, <2>1, <2>2, RowStep DEF RowAside
<1>3. ASSUME rp'.pc \in IncludedPcs \ {"included"}, NEW y \in rp'.page
      PROVE  Good(y.hash) /\ (rp'.pc \in ApplyPcs /\ y.got # NULL => Known(y.hash, y.got))
  <2>1. CASE \/ y \in rp.page /\ rp'.pc = rp.pc
             \/ y \in rp.page /\ rp.pc \in ApplyPcs /\ rp'.pc \in ApplyPcs
    BY <1>0, <1>3, <2>1 DEF GoodRows, IncludedPcs, ApplyPcs
  <2>2. ASSUME rp'.pc = "includedReceipts", NEW t \in TxIds, status[t] = "INCLUDED",
               y = Snapshot(t)
        PROVE  Good(y.hash) /\ rp'.pc \notin ApplyPcs
    BY <1>0, <2>2 DEF GoodRows, Snapshot, ApplyPcs
  <2>3. ASSUME rp.pc = "includedReceipts", NEW x \in rp.page, AnswerTo(y, x)
        PROVE  Good(y.hash) /\ (y.got # NULL => Known(y.hash, y.got))
    <3>1. y.hash = x.hash /\ (y.got # NULL => Known(y.hash, y.got))
      BY <2>3, AnswerFields, PageTypes
    <3> QED
      BY <1>0, <2>3, <3>1 DEF GoodRows, IncludedPcs
  <2> QED
    BY <1>0, <1>3, <2>1, <2>2, <2>3, IncludedPage
<1>4. ASSUME rp'.pc = "applySubmitted", NEW y \in rp'.page, y.got # NULL
      PROVE  Known(y.hash, y.got)
  <2>1. CASE y \in rp.page /\ rp.pc = "applySubmitted"
    BY <1>0, <1>4, <2>1 DEF GoodRows
  <2>2. ASSUME NEW x \in rp.page, AnswerTo(y, x) PROVE Known(y.hash, y.got)
    BY <1>4, <2>2, AnswerFields, PageTypes
  <2> QED
    BY <1>0, <1>4, <2>1, <2>2, ApplyPage
<1>5. \A t \in TxIds : status'[t] \in {"INCLUDED", "CONFIRMED"} =>
         \E h, r : /\ h = finalHash'[t] /\ r = receipt'[t]
                  /\ Good(h)' /\ Known(h, r)'
  BY <1>1, <1>2
<1>6. rp'.pc \in IncludedPcs \ {"included"} =>
         \A y \in rp'.page : \E h : h = y.hash /\ Good(h)'
  BY <1>1, <1>3
<1>7. rp'.pc \in {"applySubmitted"} \cup ApplyPcs =>
         \A y \in rp'.page :
            y.got # NULL => \E h, r : h = y.hash /\ r = y.got /\ Known(h, r)'
  BY <1>1, <1>3, <1>4 DEF ApplyPcs, IncludedPcs
<1> QED
  BY <1>5, <1>6, <1>7 DEF GoodRows, Good, Known, ReceiptOf, IncludedPcs, ApplyPcs

(* A receipt that says otherwise belongs to another execution, and one of  *)
(* the two is not on the chain any more.                                   *)
LEMMA OtherExecution ==
  ASSUME MinedOncePerNonce, NEW h, NEW r, Good(h), Known(h, r), r.outcome # "transferred"
  PROVE  \E m \in orphaned : m.tx = h
<1>1. PICK m \in Executed : m.tx = h /\ m.outcome = "transferred"
  BY DEF Good
<1>2. PICK l \in Executed : l.tx = h /\ ReceiptOf(l) = r
  BY DEF Known
<1>3. m # l
  BY <1>1, <1>2 DEF ReceiptOf
<1> QED
  BY <1>1, <1>2, <1>3 DEF Executed, MinedOncePerNonce

-----------------------------------------------------------------------------
LEMMA InitFinality == Init => Finality
<1> SUFFICES ASSUME Init PROVE Finality
  OBVIOUS
<1>1. /\ mined = {} /\ orphaned = {} /\ head = 0 /\ rp.page = {} /\ rp.pc = "submitted" /\ rp.head = 0
      /\ \A t \in TxIds : /\ status[t] = NULL /\ receipt[t] = NULL
                          /\ attempts[t] = <<>>
  BY DEF Init, RepoInit, ChainInit, PollerInit, NewPoll
<1>2. \A t \in TxIds : status[t] \notin {"INCLUDED", "CONFIRMED"}
  BY <1>1, DomainAssumption DEF Statuses
<1>3. ASSUME NEW t \in TxIds PROVE DOMAIN attempts[t] = {}
  <2>1. attempts[t] = <<>> => DOMAIN attempts[t] = {}
    OBVIOUS
  <2> QED
    BY <1>1, <2>1
<1> QED
  BY <1>1, <1>2, <1>3 DEF Finality, MinedBelow, NoneOrphaned, SilentErc20, BlockKnown,
     ReadBelow, DepthsRead, NotAhead, FinalReads, FinalRows, GoodRows, IncludedPcs,
     ApplyPcs, Executed

LEMMA NextFinality ==
  ASSUME IndInv, AttemptsOwned, Finality, [Next]_vars
  PROVE  Finality'
<1>1. /\ MinedBelow' /\ NoneOrphaned' /\ SilentErc20' /\ BlockKnown' /\ ReadBelow'
      /\ DepthsRead'
  BY ChainMoves, BlockKnownStep, ReadBelowStep, DepthsStep DEF Finality
<1>2. ASSUME HeadLag = 0 PROVE NotAhead'
  BY <1>2, NotAheadStep DEF Finality
<1>3. ASSUME Regime' PROVE FinalReads' /\ FinalRows'
  BY <1>3, FinalReadsStep, FinalRowsStep
<1>4. GoodRows'
  BY GoodStep
<1> QED
  BY <1>1, <1>2, <1>3, <1>4 DEF Finality

LEMMA FinalityHolds == Spec => []Finality
<1>1. IndInv /\ AttemptsOwned /\ Finality /\ [Next]_vars => Finality'
  BY NextFinality
<1> QED
  BY <1>1, InitFinality, Invariance, Ownership, PTL DEF Spec

-----------------------------------------------------------------------------
(* "sufficient confirmations": a row becomes CONFIRMED when its block has  *)
(* ConfirmationBlocks blocks on top of it, though head, rows and receipts  *)
(* are read one after the other and may come from endpoints that are       *)
(* behind or on a replaced fork; pollIncluded's uint64 subtraction is the  *)
(* one exception (DeepEnough): it wraps when currentBlock is below the     *)
(* block of the row.                                                       *)
THEOREM ConfirmedDeep == Spec => ConfirmedDeepEnough
<1>1. ASSUME IndInv, Finality, [Next]_vars, NEW t \in TxIds,
             status[t] # "CONFIRMED", status'[t] = "CONFIRMED"
      PROVE  \/ receipt'[t].num + ConfirmationBlocks <= head
             \/ rp.pc = "applyIncluded" /\ Wrapped(receipt'[t])
  BY <1>1, DeepEnoughStep DEF Finality, Wrapped
<1>2. IndInv /\ Finality /\ [Next]_vars =>
        [\A t \in TxIds : status[t] # "CONFIRMED" /\ status'[t] = "CONFIRMED" =>
            \/ receipt'[t].num + ConfirmationBlocks <= head
            \/ rp.pc = "applyIncluded" /\ Wrapped(receipt'[t])]_vars
  BY <1>1
<1> QED
  BY <1>2, Invariance, FinalityHolds, PTL DEF Spec, ConfirmedDeepEnough

(* A CONFIRMED row stays true: the transaction it names is on the chain in *)
(* the block it names for ever, when reorgs are at most as deep as the     *)
(* confirmations waited for and endpoints neither lag nor stay on a fork,  *)
(* or as long as there was no reorg (pollSubmitted, pollIncluded,          *)
(* ApplyIncluded).                                                         *)
THEOREM ConfirmedFinal == Spec => [](Shallow \/ fork = 0 => ConfirmedIsFinal)
<1>1. Finality => (Shallow \/ fork = 0 => ConfirmedIsFinal)
  BY DEF Finality, Regime, FinalRows, Final, ConfirmedIsFinal, HasReceipt
<1> QED
  BY <1>1, FinalityHolds, PTL

LEMMA OneOfTwo ==
  ASSUME NEW n \in Nat, NEW i \in 1..n, NEW j \in 1..n, i # j
  PROVE  i < j \/ j < i
  OBVIOUS

(* markAttemptConfirmed finds one attempt of a row, under the same         *)
(* conditions: two of them would both be on the chain, with one nonce.     *)
THEOREM AttemptConfirmedOnce == Spec => [](Shallow \/ fork = 0 => OneConfirmedAttempt)
<1>1. ASSUME IndInv, AttemptsOwned, FinalRows, NEW t \in TxIds,
             NEW i \in DOMAIN attempts[t], NEW j \in DOMAIN attempts[t],
             attempts[t][i].status = "CONFIRMED", attempts[t][j].status = "CONFIRMED",
             i # j
      PROVE  FALSE
  <2> DEFINE g == attempts[t][i].hash
             h == attempts[t][j].hash
  <2>1. g \in Hashes(t) /\ h \in Hashes(t)
    BY DEF Hashes
  <2>2. g.from = SenderOf[t] /\ h.from = SenderOf[t] /\ g.nonce = h.nonce
    BY <1>1, <2>1 DEF IndInv, AttemptsShareNonce
  <2>3. Lasting(g) /\ Lasting(h)
    BY <1>1 DEF FinalRows
  <2>4. g.gas \in Nat /\ h.gas \in Nat
    BY <1>1, <2>1, HashesType DEF IndInv, TypeOK, SignedTx
  <2>5. i < j \/ j < i
    <3>1. attempts[t] \in Seq(Attempt)
      BY <1>1 DEF IndInv, TypeOK, RepoTypeOK
    <3>2. Len(attempts[t]) \in Nat /\ DOMAIN attempts[t] = 1..Len(attempts[t])
      BY <3>1, LenProperties
    <3> QED
      BY <1>1, <3>2, OneOfTwo
  <2>6. g.gas < h.gas \/ h.gas < g.gas
    BY <1>1, <2>5 DEF AttemptsOwned, FeesRise, Rising
  <2> HIDE DEF g, h
  <2>7. g = h
    BY <1>1, <2>2, <2>3 DEF Lasting, IndInv, MinedOncePerNonce
  <2> QED
    BY <2>4, <2>6, <2>7
<1>2. IndInv /\ AttemptsOwned /\ Finality => (Shallow \/ fork = 0 => OneConfirmedAttempt)
  BY <1>1 DEF Finality, Regime, OneConfirmedAttempt
<1> QED
  BY <1>2, Invariance, Ownership, FinalityHolds, PTL

(* CONFIRMED means that the funds moved: a reverted receipt or a token     *)
(* transfer without its event never brings a row on its way to CONFIRMED   *)
(* (StatusFromReceipt, verifyERC20Transfer), whatever replacement was the  *)
(* one that was mined; the row's own receipt says otherwise only when a    *)
(* reorg has moved the transaction, for pollIncluded looks at the block    *)
(* only.                                                                   *)
THEOREM ConfirmedMoved == Spec => []ConfirmedTransferred
<1>1. ASSUME IndInv, Finality, NEW t \in TxIds, status[t] = "CONFIRMED"
      PROVE  /\ \E m \in mined \cup orphaned :
                   m.tx = finalHash[t] /\ m.outcome = "transferred"
             /\ \/ receipt[t].outcome = "transferred"
                \/ \E m \in orphaned : m.tx = finalHash[t]
  <2>1. Good(finalHash[t]) /\ Known(finalHash[t], receipt[t])
    BY <1>1 DEF Finality, GoodRows
  <2> QED
    BY <1>1, <2>1, OtherExecution DEF Good, Executed, IndInv
<1>2. IndInv /\ Finality => ConfirmedTransferred
  BY <1>1 DEF ConfirmedTransferred
<1> QED
  BY <1>2, Invariance, FinalityHolds, PTL
=============================================================================

--------------------------- MODULE TxSenderProofs ---------------------------
(***************************************************************************)
(* Proofs about TxSender, for every value of the constants.                *)
(*                                                                         *)
(* IndInv is inductive: InitInv, one lemma per action (grouped by          *)
(* goroutine), and NextInv which combines them.  The safety theorems at    *)
(* the end follow from Invariance.  The lemmas on operators come first:    *)
(* what Append, Settled, SendOk/SendErr and the UPDATEs of Repository do   *)
(* to the hashes of a row, to the pools and to the other rows.             *)
(***************************************************************************)
EXTENDS TxSender, SequenceTheorems, TLAPS

(* RepoInit ... ManagerInit satisfy the invariant. *)
LEMMA InitInv == Init => IndInv
<1> SUFFICES ASSUME Init PROVE IndInv
  OBVIOUS
<1> USE DomainAssumption, ChainAssumption, PipelineAssumption, PollerAssumption,
        DetectorAssumption, ManagerAssumption
<1>1. RepoTypeOK
  BY DEF Init, RepoInit, RepoTypeOK
<1>2. ChainTypeOK /\ ManagerTypeOK
  BY DEF Init, ChainInit, ManagerInit, ChainTypeOK, ManagerTypeOK, NothingAsked
<1>3. PipelineTypeOK
  BY DEF Init, PipelineInit, PipelineTypeOK, PipelineState, Idle, PipelinePcs
<1>4. PollerTypeOK
  BY DEF Init, PollerInit, PollerTypeOK, PollerState, NewPoll, PollerPcs
<1>5. DetectorTypeOK
  BY DEF Init, DetectorInit, DetectorTypeOK, DetectorState, NoCheck, DetectorPcs
<1>6. \A t \in TxIds : Hashes(t) = {}
  <2>1. DOMAIN <<>> = {}
    OBVIOUS
  <2> QED
    BY <2>1 DEF Init, RepoInit, Hashes
<1>7. AttemptsShareNonce /\ MinedOncePerNonce /\ BroadcastIsRecorded
  BY <1>6 DEF AttemptsShareNonce, MinedOncePerNonce, BroadcastIsRecorded, Init,
              ChainInit
<1>8. BumpsBounded
  <2>1. Len(<<>>) = 0 /\ 0 <= MaxGasBumps + 1
    OBVIOUS
  <2> QED
    BY <2>1 DEF BumpsBounded, Init, RepoInit
<1>9. RowsConsistent
  BY DEF RowsConsistent, SubmittedRows, PipelineRows, PipelineRow, PollerRows, DetectorRows,
         Init, RepoInit, PipelineInit, PollerInit, DetectorInit, Idle, NewPoll,
         NoCheck, Statuses
<1> QED
  BY <1>1, <1>2, <1>3, <1>4, <1>5, <1>7, <1>8, <1>9 DEF IndInv, TypeOK

-----------------------------------------------------------------------------
(* Facts about the operators *)

(* The hashes of a list of attempts, for CreateAttempt and Settled. *)
HashesOf(as) == {as[i].hash : i \in DOMAIN as}

(* The domain of a sequence that Append made longer. *)
LEMMA NextInterval ==
  ASSUME NEW n \in Nat
  PROVE  1..(n + 1) = 1..n \cup {n + 1}
  OBVIOUS

(* A sequence is as long as its domain says. *)
LEMMA IntervalLength ==
  ASSUME NEW S, NEW seq \in Seq(S), NEW n \in Nat, DOMAIN seq = 1..n
  PROVE  Len(seq) = n
<1>1. DOMAIN seq = 1..Len(seq) /\ Len(seq) \in Nat
  BY LenProperties
<1> QED
  BY <1>1

(* CreateAttempt's INSERT adds its hash to those of the row. *)
LEMMA AppendHashes ==
  ASSUME NEW as \in Seq(Attempt), NEW a \in Attempt
  PROVE  /\ Append(as, a) \in Seq(Attempt)
         /\ Append(as, a) # <<>>
         /\ Len(Append(as, a)) = Len(as) + 1
         /\ HashesOf(Append(as, a)) = HashesOf(as) \cup {a.hash}
<1> DEFINE bs == Append(as, a)
<1>1. bs \in Seq(Attempt)
  BY AppendProperties
<1>2. bs # <<>>
  BY AppendProperties
<1>3. Len(bs) = Len(as) + 1
  BY AppendProperties
<1>4. \A i \in 1..Len(as) : bs[i] = as[i]
  BY AppendProperties
<1>5. bs[Len(as) + 1] = a
  BY AppendProperties
<1>6. Len(as) \in Nat /\ DOMAIN as = 1..Len(as)
  BY LenProperties
<1>7. DOMAIN bs = 1..(Len(as) + 1)
  BY <1>1, <1>3, LenProperties
<1>8. DOMAIN bs = DOMAIN as \cup {Len(as) + 1}
  BY <1>6, <1>7, NextInterval
<1> HIDE DEF bs
<1>9. HashesOf(bs) = HashesOf(as) \cup {a.hash}
  <2>1. \A i \in DOMAIN as : bs[i] = as[i]
    BY <1>4, <1>6
  <2>2. HashesOf(as) \subseteq HashesOf(bs)
    BY <1>8, <2>1 DEF HashesOf
  <2>3. a.hash \in HashesOf(bs)
    BY <1>5, <1>8 DEF HashesOf
  <2>4. HashesOf(bs) \subseteq HashesOf(as) \cup {a.hash}
    BY <1>5, <1>8, <2>1 DEF HashesOf
  <2> QED
    BY <2>2, <2>3, <2>4
<1> QED
  BY <1>1, <1>2, <1>3, <1>9 DEF bs

(* markAttemptConfirmed changes statuses only. *)
LEMMA SettledHashes ==
  ASSUME NEW as \in Seq(Attempt), NEW h, NEW done
  PROVE  /\ Settled(as, h, done) \in Seq(Attempt)
         /\ Len(Settled(as, h, done)) = Len(as)
         /\ HashesOf(Settled(as, h, done)) = HashesOf(as)
<1>1. DOMAIN as = 1..Len(as) /\ Len(as) \in Nat
  BY LenProperties
<1>2. DOMAIN Settled(as, h, done) = 1..Len(as)
  BY <1>1 DEF Settled
<1>3. \A i \in 1..Len(as) : as[i] \in Attempt
  BY ElementOfSeq
<1>4. \A i \in 1..Len(as) : /\ Settled(as, h, done)[i] \in Attempt
                            /\ Settled(as, h, done)[i].hash = as[i].hash
  BY <1>1, <1>3 DEF Settled, Attempt, AttemptStatuses
<1>5. Settled(as, h, done) \in [1..Len(as) -> Attempt]
  BY <1>1, <1>4 DEF Settled
<1>6. Settled(as, h, done) \in Seq(Attempt)
  BY <1>1, <1>5, SeqDef
<1>7. Len(Settled(as, h, done)) = Len(as)
  BY <1>1, <1>2, <1>6, IntervalLength
<1>8. HashesOf(Settled(as, h, done)) = HashesOf(as)
  BY <1>1, <1>2, <1>4 DEF HashesOf
<1> QED
  BY <1>6, <1>7, <1>8

(* A hash of a row is a signed transaction. *)
LEMMA HashesType ==
  ASSUME RepoTypeOK, NEW t \in TxIds
  PROVE  Hashes(t) \subseteq SignedTx
<1>1. attempts[t] \in Seq(Attempt)
  BY DEF RepoTypeOK
<1>2. DOMAIN attempts[t] = 1..Len(attempts[t])
  BY <1>1, LenProperties
<1>3. \A i \in DOMAIN attempts[t] : attempts[t][i] \in Attempt
  BY <1>1, <1>2, ElementOfSeq
<1> QED
  BY <1>3 DEF Hashes, Attempt

(* SendTransaction, whatever it returns, at most adds what was sent. *)
LEMMA SendEffect ==
  ASSUME ChainTypeOK, NEW h \in SignedTx, SendOk(h) \/ SendErr(h)
  PROVE  /\ ChainTypeOK'
         /\ UNCHANGED <<mined, orphaned>>
         /\ pool' \subseteq pool \cup {h}
  BY DEF SendOk, SendErr, Accept, ChainTypeOK, chainVars, MinedTx

(* A step that leaves repository and goroutines alone keeps what the       *)
(* invariant says of them.                                                 *)
LEMMA RepoFrame ==
  ASSUME IndInv, UNCHANGED <<repoVars, memory, procVars>>
  PROVE  /\ (RepoTypeOK /\ PipelineTypeOK /\ PollerTypeOK /\ DetectorTypeOK
               /\ ManagerTypeOK)'
         /\ (AttemptsShareNonce /\ BumpsBounded /\ RowsConsistent)'
         /\ \A t \in TxIds : Hashes(t)' = Hashes(t)
<1> USE DEF repoVars, memory, procVars
<1>1. \A t \in TxIds : Hashes(t)' = Hashes(t)
  BY DEF Hashes
<1>2. (RepoTypeOK /\ PipelineTypeOK /\ PollerTypeOK /\ DetectorTypeOK
         /\ ManagerTypeOK)'
  BY DEF IndInv, TypeOK, RepoTypeOK, PipelineTypeOK, PollerTypeOK,
         DetectorTypeOK, ManagerTypeOK
<1>3. (AttemptsShareNonce /\ BumpsBounded)'
  BY <1>1 DEF IndInv, AttemptsShareNonce, BumpsBounded
<1>4. RowsConsistent'
  BY DEF IndInv, RowsConsistent, SubmittedRows, PipelineRows, PipelineRow, PollerRows,
         DetectorRows, WasSubmitted, HandedOver, Signed, AttemptsUse, Hashes,
         Current
<1> QED
  BY <1>1, <1>2, <1>3, <1>4

(* Blocks, reorgs and evictions: the chain keeps at most one transaction   *)
(* per nonce and holds nothing it was not given.                           *)
LEMMA ChainStepInv == IndInv /\ RunChain => IndInv'
<1> SUFFICES ASSUME IndInv, RunChain PROVE IndInv'
  OBVIOUS
<1> USE DomainAssumption, ChainAssumption
<1>0. /\ (RepoTypeOK /\ PipelineTypeOK /\ PollerTypeOK /\ DetectorTypeOK
            /\ ManagerTypeOK)'
      /\ (AttemptsShareNonce /\ BumpsBounded /\ RowsConsistent)'
      /\ \A t \in TxIds : Hashes(t)' = Hashes(t)
  BY RepoFrame DEF RunChain
<1>t. ChainTypeOK /\ MinedOncePerNonce /\ BroadcastIsRecorded
  BY DEF IndInv, TypeOK
<1> SUFFICES (ChainTypeOK /\ MinedOncePerNonce /\ BroadcastIsRecorded)'
  BY <1>0 DEF IndInv, TypeOK
<1>1. ASSUME NEW h \in pool, NEW o \in Outcomes, MineTx(h, o)
      PROVE  (ChainTypeOK /\ MinedOncePerNonce /\ BroadcastIsRecorded)'
  <2> DEFINE new == [tx |-> h, num |-> head + 1, fork |-> fork, outcome |-> o]
  <2>1. new \in MinedTx /\ new.tx = h
    BY <1>t DEF ChainTypeOK, MinedTx
  <2>2. mined' = mined \cup {new} /\ pool' = pool \ {h} /\ head' = head + 1
          /\ UNCHANGED <<orphaned, fork>>
    BY <1>1 DEF MineTx
  <2>3. \A m \in mined : ~ (m.tx.from = h.from /\ m.tx.nonce = h.nonce)
    BY <1>1 DEF MineTx, NextInOrder, NonceMined
  <2> HIDE DEF new
  <2>4. ChainTypeOK'
    BY <1>t, <2>1, <2>2 DEF ChainTypeOK
  <2>5. MinedOncePerNonce'
    BY <1>t, <2>1, <2>2, <2>3 DEF MinedOncePerNonce
  <2>6. BroadcastIsRecorded'
    BY <1>0, <1>t, <2>1, <2>2 DEF BroadcastIsRecorded
  <2> QED
    BY <2>4, <2>5, <2>6
<1>2. CASE MineEmpty
  BY <1>0, <1>t, <1>2 DEF MineEmpty, ChainTypeOK, MinedOncePerNonce,
     BroadcastIsRecorded
<1>3. ASSUME NEW d \in 1..MaxReorgDepth, NEW k \in {0, 1}, NEW o \in MinedOutcomes,
             NEW kept \in SUBSET Dropped(d), NEW back \in SUBSET (Dropped(d) \ kept),
             Reorg(d, kept, back, k, o)
      PROVE  (ChainTypeOK /\ MinedOncePerNonce /\ BroadcastIsRecorded)'
  <2>1. kept \subseteq mined /\ back \subseteq mined /\ Dropped(d) \subseteq mined
    BY DEF Dropped
  <2>2. /\ mined' = (mined \ Dropped(d)) \cup {Moved(m, k, o) : m \in kept}
        /\ pool' = pool \cup {m.tx : m \in back}
        /\ orphaned' = orphaned \cup Dropped(d)
        /\ head' = head + 1 /\ fork' = fork + 1
    BY <1>3 DEF Reorg
  <2>3. \A m \in mined : /\ m \in MinedTx
                         /\ Moved(m, k, o) \in MinedTx
                         /\ Moved(m, k, o).tx = m.tx
    BY <1>t DEF ChainTypeOK, Moved, MinedTx
  <2> DEFINE old(x) == IF x \in mined \ Dropped(d) THEN x
                       ELSE CHOOSE m \in kept : x = Moved(m, k, o)
  <2>4. \A x \in mined' : old(x) \in mined /\ old(x).tx = x.tx
    BY <2>1, <2>2, <2>3
  <2>5. \A x, y \in mined' : old(x) = old(y) => x = y
    BY <2>1, <2>2
  <2> HIDE DEF old
  <2>6. ChainTypeOK'
    <3>1. pool' \subseteq SignedTx
      BY <1>t, <2>1, <2>2, <2>3 DEF ChainTypeOK, MinedTx
    <3>2. mined' \subseteq MinedTx /\ orphaned' \subseteq MinedTx
      BY <1>t, <2>1, <2>2, <2>3 DEF ChainTypeOK
    <3> QED
      BY <1>t, <2>2, <3>1, <3>2 DEF ChainTypeOK
  <2>7. MinedOncePerNonce'
    BY <1>t, <2>4, <2>5 DEF MinedOncePerNonce
  <2>8. BroadcastIsRecorded'
    BY <1>0, <1>t, <2>1, <2>2, <2>4 DEF BroadcastIsRecorded
  <2> QED
    BY <2>6, <2>7, <2>8
<1>4. ASSUME NEW h \in pool, Evict(h)
      PROVE  (ChainTypeOK /\ MinedOncePerNonce /\ BroadcastIsRecorded)'
  BY <1>0, <1>t, <1>4 DEF Evict, ChainTypeOK, MinedOncePerNonce,
     BroadcastIsRecorded
<1> QED
  BY <1>1, <1>2, <1>3, <1>4 DEF RunChain, ReorgStep

-----------------------------------------------------------------------------
(* The receipt poller *)

(* A step that writes no row keeps the invariant if it keeps the chain's   *)
(* part and what the goroutines hold.                                      *)
LEMMA MemoryFrame ==
  ASSUME IndInv, UNCHANGED repoVars,
         (ChainTypeOK /\ MinedOncePerNonce /\ BroadcastIsRecorded)',
         (PipelineTypeOK /\ PollerTypeOK /\ DetectorTypeOK /\ ManagerTypeOK)',
         (PipelineRows /\ PollerRows /\ DetectorRows)'
  PROVE  IndInv'
<1> USE DEF repoVars
<1>1. \A t \in TxIds : Hashes(t)' = Hashes(t)
  BY DEF Hashes
<1>2. RepoTypeOK'
  BY DEF IndInv, TypeOK, RepoTypeOK
<1>3. (AttemptsShareNonce /\ BumpsBounded)'
  BY <1>1 DEF IndInv, AttemptsShareNonce, BumpsBounded
<1>4. SubmittedRows'
  BY <1>1 DEF IndInv, RowsConsistent, SubmittedRows, WasSubmitted, HandedOver,
              Signed, AttemptsUse
<1> QED
  BY <1>2, <1>3, <1>4 DEF IndInv, TypeOK, RowsConsistent

(* What the poller holds is as it should be after a step that keeps what   *)
(* was signed and the rows that were SUBMITTED.                            *)
LEMMA PollerHolds ==
  ASSUME rp' \in PollerState,
         \A u \in TxIds : /\ WasSubmitted(u) => WasSubmitted(u)'
                          /\ Hashes(u) \subseteq Hashes(u)',
         \A x \in rp'.page : WasSubmitted(x.tx),
         rp'.pc = "applySubmitted" => \A x \in rp'.page : x.got # NULL,
         rp'.pc = "rebroadcast" => rp'.cur \in TxIds,
         rp'.pc = "resend" => rp'.cur \in TxIds /\ rp'.hash \in Hashes(rp'.cur)
  PROVE  (PollerTypeOK /\ PollerRows)'
<1>1. \A x \in rp'.page : x.tx \in TxIds
  BY DEF PollerState, Seen
<1>2. rp'.pc = "resend" => rp'.hash \in Hashes(rp.cur)'
  <2> SUFFICES ASSUME rp'.pc = "resend" PROVE rp'.hash \in Hashes(rp.cur)'
    OBVIOUS
  <2>1. PICK u \in TxIds : u = rp'.cur
    OBVIOUS
  <2>2. rp'.hash \in Hashes(u)'
    BY <2>1
  <2> QED
    BY <2>1, <2>2 DEF Hashes
<1> QED
  BY <1>1, <1>2 DEF PollerTypeOK, PollerRows

(* So it is when the poller itself does nothing. *)
LEMMA PollerStays ==
  ASSUME IndInv, rp' = rp,
         \A u \in TxIds : /\ WasSubmitted(u) => WasSubmitted(u)'
                          /\ Hashes(u) \subseteq Hashes(u)'
  PROVE  (PollerTypeOK /\ PollerRows)'
<1>1. /\ rp \in PollerState
      /\ \A x \in rp.page : WasSubmitted(x.tx)
      /\ rp.pc = "applySubmitted" => \A x \in rp.page : x.got # NULL
      /\ rp.pc = "rebroadcast" => rp.cur \in TxIds
      /\ rp.pc = "resend" => rp.cur \in TxIds /\ rp.hash \in Hashes(rp.cur)
  BY DEF IndInv, TypeOK, PollerTypeOK, RowsConsistent, PollerRows
<1> QED
  BY <1>1, PollerHolds

(* The memory of one goroutine does not appear in what is said of others. *)
LEMMA OtherMemory ==
  ASSUME IndInv, UNCHANGED <<repoVars, procVars>>
  PROVE  /\ \A t \in TxIds : Hashes(t)' = Hashes(t)
         /\ \A t \in TxIds : WasSubmitted(t)' = WasSubmitted(t)
         /\ ManagerTypeOK'
         /\ pl' = pl => (PipelineTypeOK /\ PipelineRows)'
         /\ rp' = rp => (PollerTypeOK /\ PollerRows)'
         /\ sd' = sd => (DetectorTypeOK /\ DetectorRows)'
         /\ UNCHANGED chainVars =>
              (ChainTypeOK /\ MinedOncePerNonce /\ BroadcastIsRecorded)'
<1> USE DEF repoVars, procVars
<1>1. \A t \in TxIds : Hashes(t)' = Hashes(t)
  BY DEF Hashes
<1>2. \A t \in TxIds : Signed(t)' = Signed(t) /\ WasSubmitted(t)' = WasSubmitted(t)
  BY <1>1 DEF WasSubmitted, HandedOver, Signed, AttemptsUse
<1>3. ManagerTypeOK'
  BY DEF IndInv, TypeOK, ManagerTypeOK
<1>4. ASSUME pl' = pl PROVE (PipelineTypeOK /\ PipelineRows)'
  BY <1>1, <1>2, <1>4 DEF IndInv, TypeOK, PipelineTypeOK, RowsConsistent,
                          PipelineRows, PipelineRow
<1>5. ASSUME rp' = rp PROVE (PollerTypeOK /\ PollerRows)'
  BY <1>1, <1>2, <1>5, PollerStays
<1>6. ASSUME sd' = sd PROVE (DetectorTypeOK /\ DetectorRows)'
  <2>1. \A x \in sd.list : x.tx \in TxIds
    BY DEF IndInv, TypeOK, DetectorTypeOK, DetectorState, Stuck
  <2> QED
    BY <1>1, <1>2, <1>6, <2>1 DEF IndInv, TypeOK, DetectorTypeOK, RowsConsistent,
                                  DetectorRows, Current
<1>7. ASSUME UNCHANGED chainVars
      PROVE  (ChainTypeOK /\ MinedOncePerNonce /\ BroadcastIsRecorded)'
  BY <1>1, <1>7 DEF chainVars, IndInv, TypeOK, ChainTypeOK, MinedOncePerNonce,
                    BroadcastIsRecorded
<1> QED
  BY <1>1, <1>2, <1>3, <1>4, <1>5, <1>6, <1>7

(* A poller step that only moves its own memory on. *)
LEMMA PollerMoves ==
  ASSUME IndInv, UNCHANGED <<repoVars, chainVars, pl, sd, procVars>>,
         rp' \in PollerState,
         \A x \in rp'.page : WasSubmitted(x.tx),
         rp'.pc = "applySubmitted" => \A x \in rp'.page : x.got # NULL,
         rp'.pc = "rebroadcast" => rp'.cur \in TxIds,
         rp'.pc = "resend" => rp'.cur \in TxIds /\ rp'.hash \in Hashes(rp'.cur)
  PROVE  IndInv'
<1>1. (PollerTypeOK /\ PollerRows)'
  BY OtherMemory, PollerHolds
<1> QED
  BY <1>1, OtherMemory, MemoryFrame

(* A poll that is over leaves the poller in a legal state with no page. *)
LEMMA ReturnType ==
  ASSUME NEW pass
  PROVE  /\ Return(pass) \in PollerState
         /\ Return(pass).page = {}
         /\ Return(pass).pc \in {"submitted", "head"}
  BY DEF Return, NewPoll, PollerState, PollerPcs

(* So does the step from one row of a page to the next. *)
LEMMA ContinueType ==
  ASSUME rp \in PollerState, NEW pass \in {"submitted", "included"},
         NEW apply \in {"applySubmitted", "applyIncluded"},
         NEW rest \in SUBSET Seen
  PROVE  /\ Continue(pass, apply, rest) \in PollerState
         /\ Continue(pass, apply, rest).page \subseteq rest
         /\ Continue(pass, apply, rest).pc \notin {"rebroadcast", "resend"}
         /\ Continue(pass, apply, rest).pc = "applySubmitted"
              => apply = "applySubmitted"
<1>1. CASE rest # {}
  BY <1>1 DEF Continue, PollerState, PollerPcs
<1>2. CASE rest = {} /\ rp.more
  BY <1>2 DEF Continue, PollerState, PollerPcs
<1>3. CASE rest = {} /\ ~ rp.more
  BY <1>3, ReturnType DEF Continue
<1> QED
  BY <1>1, <1>2, <1>3 DEF PollerState

(* A row that is read is a row whose columns the poller can use. *)
LEMMA SnapshotSeen ==
  ASSUME IndInv, NEW t \in TxIds, status[t] \in {"SUBMITTED", "INCLUDED"}
  PROVE  /\ Snapshot(t) \in Seen
         /\ Snapshot(t).tx = t
         /\ WasSubmitted(t)
<1>1. WasSubmitted(t)
  BY DEF IndInv, RowsConsistent, SubmittedRows
<1>2. finalHash[t] \in SignedTx
  BY <1>1 DEF WasSubmitted, IndInv, TypeOK, RepoTypeOK
<1>3. receipt[t] \in Receipt \cup {NULL}
  BY DEF IndInv, TypeOK, RepoTypeOK
<1> QED
  BY <1>1, <1>2, <1>3 DEF Snapshot, Seen

(* One page of either pass. *)
LEMMA FetchInv ==
  ASSUME IndInv, FetchSubmitted \/ FetchIncluded, UNCHANGED <<pl, sd, procVars>>
  PROVE  IndInv'
<1>0. rp \in PollerState
  BY DEF IndInv, TypeOK, PollerTypeOK
<1> DEFINE Good(page) == page \in SUBSET Seen /\ \A x \in page : WasSubmitted(x.tx)
<1>1. ASSUME NEW ids \in SUBSET TxIds,
             \A t \in ids : status[t] \in {"SUBMITTED", "INCLUDED"}
      PROVE  Good({Snapshot(t) : t \in ids})
  BY <1>1, SnapshotSeen
<1>2. \A st, after, limit : /\ Page(st, after, limit) \subseteq TxIds
                            /\ \A t \in Page(st, after, limit) : status[t] = st
  BY DEF Page, RowsAfter, WithStatus
<1>3. UNCHANGED <<repoVars, chainVars>>
  BY DEF FetchSubmitted, FetchIncluded, FetchPage
<1>4. ASSUME NEW pass \in {"submitted", "included"}, rp' = Return(pass) PROVE IndInv'
  BY <1>3, <1>4, ReturnType, PollerMoves
<1>5. ASSUME NEW last \in TxIds, NEW more \in BOOLEAN, NEW page, Good(page),
             NEW receipts \in {"submittedReceipts", "includedReceipts"},
             rp' = [rp EXCEPT !.pc = receipts, !.page = page, !.after = last,
                              !.more = more]
      PROVE  IndInv'
  <2>1. last \in Nat
    BY DomainAssumption
  <2>2. rp' \in PollerState /\ rp'.page = page /\ rp'.pc = receipts
    BY <1>0, <1>5, <2>1 DEF PollerState, PollerPcs
  <2> QED
    BY <1>3, <1>5, <2>2, PollerMoves
<1>6. ASSUME NEW last \in TxIds, rp.pc \in {"submitted", "included"},
             rp' = [rp EXCEPT !.after = last]
      PROVE  IndInv'
  <2>1. last \in Nat
    BY DomainAssumption
  <2>2. rp' \in PollerState /\ rp'.page = rp.page /\ rp'.pc = rp.pc
    BY <1>0, <1>6, <2>1 DEF PollerState, PollerPcs
  <2>3. \A x \in rp.page : WasSubmitted(x.tx)
    BY DEF IndInv, RowsConsistent, PollerRows
  <2> QED
    BY <1>3, <1>6, <2>2, <2>3, PollerMoves
<1> HIDE DEF Good
<1>7. CASE FetchSubmitted
  <2> DEFINE ids == Page("SUBMITTED", rp.after, ReceiptChunkSize)
             page == {Snapshot(t) : t \in ids \cap HasFinalHash}
             more == Cardinality(ids) = ReceiptChunkSize
  <2>1. Good(page)
    BY <1>1, <1>2
  <2>2. more \in BOOLEAN /\ ids \subseteq TxIds
    BY <1>2
  <2>3. \/ rp' = Return("submitted")
        \/ \E last \in ids :
             rp' = IF page # {}
                   THEN [rp EXCEPT !.pc = "submittedReceipts", !.page = page,
                                   !.after = last, !.more = more]
                   ELSE IF more THEN [rp EXCEPT !.after = last]
                   ELSE Return("submitted")
    BY <1>7 DEF FetchSubmitted, FetchPage
  <2>4. rp.pc \in {"submitted", "included"}
    BY <1>7 DEF FetchSubmitted, FetchPage
  <2> HIDE DEF ids, page, more
  <2> QED
    BY <1>4, <1>5, <1>6, <2>1, <2>2, <2>3, <2>4
<1>8. CASE FetchIncluded
  <2> DEFINE ids == Page("INCLUDED", rp.after, ReceiptChunkSize)
             page == {Snapshot(t) : t \in ids \cap {u \in TxIds : DeepEnough(u)}}
             more == Cardinality(ids) = ReceiptChunkSize
  <2>1. Good(page)
    BY <1>1, <1>2
  <2>2. more \in BOOLEAN /\ ids \subseteq TxIds
    BY <1>2
  <2>3. \/ rp' = Return("included")
        \/ \E last \in ids :
             rp' = IF page # {}
                   THEN [rp EXCEPT !.pc = "includedReceipts", !.page = page,
                                   !.after = last, !.more = more]
                   ELSE IF more THEN [rp EXCEPT !.after = last]
                   ELSE Return("included")
    BY <1>8 DEF FetchIncluded, FetchPage
  <2>4. rp.pc \in {"submitted", "included"}
    BY <1>8 DEF FetchIncluded, FetchPage
  <2> HIDE DEF ids, page, more
  <2> QED
    BY <1>4, <1>5, <1>6, <2>1, <2>2, <2>3, <2>4
<1> QED
  BY <1>7, <1>8

(* The answers of BatchTransactionReceipts are receipts, or nothing. *)
LEMMA AnsweredSeen ==
  ASSUME IndInv, NEW page \in SUBSET Seen, NEW f \in Answers(rp.page),
         page \subseteq rp.page
  PROVE  /\ Answered(page, f) \in SUBSET Seen
         /\ \A x \in Answered(page, f) : \E y \in page : x.tx = y.tx
<1>1. \A m \in mined \cup orphaned : ReceiptOf(m) \in Receipt
  BY DEF IndInv, TypeOK, ChainTypeOK, MinedTx, ReceiptOf, Receipt
<1>2. \A x \in page : f[x.tx] \in Receipt \cup {NULL}
  BY <1>1 DEF Answers
<1>3. \A x \in page : [x EXCEPT !.got = f[x.tx]] \in Seen
                        /\ [x EXCEPT !.got = f[x.tx]].tx = x.tx
  BY <1>2 DEF Seen
<1> QED
  BY <1>3 DEF Answered

(* BatchTransactionReceipts only adds answers to the page. *)
LEMMA ReceiptsInv ==
  ASSUME IndInv, FetchSubmittedReceipts \/ FetchIncludedReceipts,
         UNCHANGED <<pl, sd, procVars>>
  PROVE  IndInv'
<1>0. rp \in PollerState /\ rp.page \in SUBSET Seen
  BY DEF IndInv, TypeOK, PollerTypeOK, PollerState
<1>1. \A x \in rp.page : WasSubmitted(x.tx)
  BY DEF IndInv, RowsConsistent, PollerRows
<1>2. UNCHANGED <<repoVars, chainVars>>
  BY DEF FetchSubmittedReceipts, FetchIncludedReceipts
<1>3. ASSUME NEW pass \in {"submitted", "included"}, rp' = Return(pass) PROVE IndInv'
  BY <1>2, <1>3, ReturnType, PollerMoves
<1>4. CASE FetchSubmittedReceipts
  <2>1. ASSUME NEW f \in Answers(rp.page),
               rp' = Continue("submitted", "applySubmitted",
                       {x \in Answered(OfHash(rp.page), f) : x.got # NULL})
        PROVE  IndInv'
    <3> DEFINE rest == {x \in Answered(OfHash(rp.page), f) : x.got # NULL}
    <3>1. OfHash(rp.page) \subseteq rp.page
      BY DEF OfHash
    <3>2. rest \in SUBSET Seen /\ \A x \in rest : WasSubmitted(x.tx)
      BY <1>0, <1>1, <3>1, AnsweredSeen
    <3>3. \A x \in rest : x.got # NULL
      OBVIOUS
    <3> HIDE DEF rest
    <3>4. rp' = Continue("submitted", "applySubmitted", rest)
      BY <2>1 DEF rest
    <3>5. /\ rp' \in PollerState /\ rp'.page \subseteq rest
          /\ rp'.pc \notin {"rebroadcast", "resend"}
      BY <1>0, <3>2, <3>4, ContinueType
    <3> QED
      BY <1>2, <3>2, <3>3, <3>5, PollerMoves
  <2> QED
    BY <1>3, <1>4, <2>1 DEF FetchSubmittedReceipts
<1>5. CASE FetchIncludedReceipts
  <2>1. ASSUME NEW f \in Answers(rp.page),
               rp' = Continue("included", "applyIncluded", Answered(rp.page, f))
        PROVE  IndInv'
    <3>1. /\ Answered(rp.page, f) \in SUBSET Seen
          /\ \A x \in Answered(rp.page, f) : WasSubmitted(x.tx)
      BY <1>0, <1>1, AnsweredSeen
    <3>2. /\ rp' \in PollerState /\ rp'.page \subseteq Answered(rp.page, f)
          /\ rp'.pc \notin {"rebroadcast", "resend", "applySubmitted"}
      BY <1>0, <2>1, <3>1, ContinueType
    <3> QED
      BY <1>2, <3>1, <3>2, PollerMoves
  <2> QED
    BY <1>3, <1>5, <2>1 DEF FetchIncludedReceipts
<1> QED
  BY <1>4, <1>5

(* BlockNumber sets the head that the page is compared with. *)
LEMMA ReadBlockNumberInv ==
  ASSUME IndInv, ReadBlockNumber, UNCHANGED <<pl, sd, procVars>>
  PROVE  IndInv'
<1>0. rp \in PollerState /\ \A x \in rp.page : WasSubmitted(x.tx)
  BY DEF IndInv, TypeOK, PollerTypeOK, RowsConsistent, PollerRows
<1>1. CASE rp' = Return("included")
  BY <1>1, ReturnType, PollerMoves DEF ReadBlockNumber
<1>2. ASSUME NEW n \in 0..head, rp' = [rp EXCEPT !.pc = "included", !.head = n]
      PROVE  IndInv'
  <2>1. n \in Nat
    BY DEF IndInv, TypeOK, ChainTypeOK
  <2>2. rp' \in PollerState /\ rp'.page = rp.page /\ rp'.pc = "included"
    BY <1>0, <1>2, <2>1 DEF PollerState, PollerPcs
  <2> QED
    BY <1>0, <2>2, PollerMoves DEF ReadBlockNumber
<1> QED
  BY <1>1, <1>2 DEF ReadBlockNumber

(* What an UPDATE of a row by the poller or the detector does: another     *)
(* status for a row that was SUBMITTED, no other nonce, no other attempt,  *)
(* and no final_tx_hash is lost.                                           *)
Rewrite(t, st) ==
    /\ RepoTypeOK'
    /\ status' = [status EXCEPT ![t] = st]
    /\ nonce' = nonce
    /\ \A u \in TxIds : /\ Len(attempts'[u]) = Len(attempts[u])
                        /\ HashesOf(attempts'[u]) = HashesOf(attempts[u])
    /\ \A u \in TxIds : finalHash[u] # NULL => finalHash'[u] # NULL

(* An entry of tx_state_log keeps the type of audit. *)
LEMMA LogType ==
  ASSUME IndInv, NEW t \in TxIds, NEW from \in Statuses \cup {NULL},
         NEW to \in Statuses, LogStateTransition(t, from, to)
  PROVE  audit' \in [TxIds -> (Statuses \cup {NULL}) \X (Statuses \cup {NULL})]
<1> DEFINE Entry == (Statuses \cup {NULL}) \X (Statuses \cup {NULL})
<1>1. <<from, to>> \in Entry
  OBVIOUS
<1>2. audit \in [TxIds -> Entry]
  BY DEF IndInv, TypeOK, RepoTypeOK
<1>3. audit' = [audit EXCEPT ![t] = <<from, to>>] \/ audit' = audit
  BY DEF LogStateTransition
<1> HIDE DEF Entry
<1>4. audit' \in [TxIds -> Entry]
  BY <1>1, <1>2, <1>3
<1> QED
  BY <1>4 DEF Entry

(* Any such UPDATE keeps all that does not mention the goroutine that      *)
(* made it.                                                                *)
LEMMA RewriteKeeps ==
  ASSUME IndInv, NEW t \in TxIds, WasSubmitted(t),
         NEW st \in Statuses \ {"QUEUED", "PENDING"}, Rewrite(t, st),
         UNCHANGED <<pl, procVars>>
  PROVE  /\ (RepoTypeOK /\ PipelineTypeOK /\ ManagerTypeOK)'
         /\ (AttemptsShareNonce /\ BumpsBounded /\ SubmittedRows /\ PipelineRows)'
         /\ \A u \in TxIds : Hashes(u)' = Hashes(u)
         /\ \A u \in TxIds : WasSubmitted(u) => WasSubmitted(u)'
         /\ UNCHANGED chainVars =>
              (ChainTypeOK /\ MinedOncePerNonce /\ BroadcastIsRecorded)'
<1> USE DEF procVars
<1>1. \A u \in TxIds : Hashes(u)' = Hashes(u)
  BY DEF Rewrite, Hashes, HashesOf
<1>2. \A u \in TxIds : attempts[u] # <<>> => attempts'[u] # <<>>
  <2> SUFFICES ASSUME NEW u \in TxIds, attempts[u] # <<>> PROVE attempts'[u] # <<>>
    OBVIOUS
  <2>1. attempts[u] \in Seq(Attempt) /\ Len(attempts'[u]) = Len(attempts[u])
    BY DEF Rewrite, IndInv, TypeOK, RepoTypeOK
  <2>2. Len(attempts[u]) # 0
    BY <2>1, EmptySeq
  <2> QED
    BY <2>1, <2>2, EmptySeq
<1>3. \A u \in TxIds : Signed(u) => Signed(u)'
  BY <1>1, <1>2 DEF Rewrite, Signed, AttemptsUse
<1>4. \A u \in TxIds : status'[u] = IF u = t THEN st ELSE status[u]
  BY DEF Rewrite, IndInv, TypeOK, RepoTypeOK
<1>5. \A u \in TxIds : HandedOver(u) => HandedOver(u)'
  BY <1>4 DEF HandedOver
<1>6. \A u \in TxIds : WasSubmitted(u) => WasSubmitted(u)'
  BY <1>3, <1>5 DEF WasSubmitted, Rewrite
<1>7. (RepoTypeOK /\ PipelineTypeOK /\ ManagerTypeOK)'
  BY DEF Rewrite, IndInv, TypeOK, PipelineTypeOK, ManagerTypeOK
<1>8. (AttemptsShareNonce /\ BumpsBounded)'
  BY <1>1 DEF Rewrite, IndInv, AttemptsShareNonce, BumpsBounded
<1>9. SubmittedRows'
  BY <1>4, <1>6 DEF IndInv, RowsConsistent, SubmittedRows
<1>10. PipelineRows'
  <2>1. status[t] # "PENDING"
    BY DEF WasSubmitted, HandedOver
  <2> QED
    BY <1>1, <1>3, <1>4, <2>1 DEF Rewrite, IndInv, RowsConsistent, PipelineRows, PipelineRow
<1>11. ASSUME UNCHANGED chainVars
       PROVE  (ChainTypeOK /\ MinedOncePerNonce /\ BroadcastIsRecorded)'
  BY <1>1, <1>11 DEF chainVars, IndInv, TypeOK, ChainTypeOK, MinedOncePerNonce,
                     BroadcastIsRecorded
<1> QED
  BY <1>1, <1>6, <1>7, <1>8, <1>9, <1>10, <1>11

(* The statements of the repository are such UPDATEs. *)
LEMMA MarkWithReceiptRewrites ==
  ASSUME IndInv, NEW t \in TxIds, NEW st \in Statuses, NEW h \in SignedTx,
         NEW r \in Receipt, MarkWithReceipt(st, t, h, r),
         NEW from \in Statuses, NEW to \in Statuses,
         LogStateTransition(t, from, to),
         \/ UNCHANGED attempts
         \/ \E done : attempts' = [attempts EXCEPT ![t] = Settled(@, h, done)]
  PROVE  Rewrite(t, st)
<1>1. attempts \in [TxIds -> Seq(Attempt)]
  BY DEF IndInv, TypeOK, RepoTypeOK
<1>2. /\ attempts' \in [TxIds -> Seq(Attempt)]
      /\ \A u \in TxIds : /\ Len(attempts'[u]) = Len(attempts[u])
                          /\ HashesOf(attempts'[u]) = HashesOf(attempts[u])
  <2>1. CASE UNCHANGED attempts
    BY <1>1, <2>1
  <2>2. ASSUME NEW done, attempts' = [attempts EXCEPT ![t] = Settled(@, h, done)]
        PROVE  /\ attempts' \in [TxIds -> Seq(Attempt)]
               /\ \A u \in TxIds : /\ Len(attempts'[u]) = Len(attempts[u])
                                   /\ HashesOf(attempts'[u]) = HashesOf(attempts[u])
    <3>1. attempts' = [attempts EXCEPT ![t] = Settled(attempts[t], h, done)]
      BY <2>2
    <3>2. attempts'[t] = Settled(attempts[t], h, done)
            /\ \A u \in TxIds \ {t} : attempts'[u] = attempts[u]
      BY <1>1, <3>1
    <3>3. /\ Settled(attempts[t], h, done) \in Seq(Attempt)
          /\ Len(Settled(attempts[t], h, done)) = Len(attempts[t])
          /\ HashesOf(Settled(attempts[t], h, done)) = HashesOf(attempts[t])
      BY <1>1, SettledHashes
    <3>4. attempts' \in [TxIds -> Seq(Attempt)]
      BY <1>1, <3>1, <3>3
    <3> QED
      BY <3>2, <3>3, <3>4
  <2> QED
    BY <2>1, <2>2
<1>3. audit' \in [TxIds -> (Statuses \cup {NULL}) \X (Statuses \cup {NULL})]
  BY LogType
<1>4. RepoTypeOK'
  BY <1>2, <1>3 DEF MarkWithReceipt, IndInv, TypeOK, RepoTypeOK
<1>5. \A u \in TxIds : finalHash[u] # NULL => finalHash'[u] # NULL
  BY DomainAssumption DEF MarkWithReceipt, IndInv, TypeOK, RepoTypeOK
<1> QED
  BY <1>2, <1>4, <1>5 DEF Rewrite, MarkWithReceipt

(* The detector stores a replacement as the final hash. *)
LEMMA MarkSubmittedRewrites ==
  ASSUME IndInv, NEW t \in TxIds, NEW h \in SignedTx, MarkSubmitted(t, h),
         LogStateTransition(t, "SUBMITTED", "SUBMITTED")
  PROVE  Rewrite(t, "SUBMITTED")
<1>1. audit' \in [TxIds -> (Statuses \cup {NULL}) \X (Statuses \cup {NULL})]
  BY LogType DEF Statuses
<1>2. RepoTypeOK'
  BY <1>1 DEF MarkSubmitted, IndInv, TypeOK, RepoTypeOK, Statuses
<1>3. \A u \in TxIds : finalHash[u] # NULL => finalHash'[u] # NULL
  BY DomainAssumption DEF MarkSubmitted, IndInv, TypeOK, RepoTypeOK
<1> QED
  BY <1>2, <1>3 DEF Rewrite, MarkSubmitted

(* The poller takes an INCLUDED row back after a reorg. *)
LEMMA RevertToSubmittedRewrites ==
  ASSUME IndInv, NEW t \in TxIds, RevertToSubmitted(t),
         LogStateTransition(t, "INCLUDED", "SUBMITTED")
  PROVE  Rewrite(t, "SUBMITTED")
<1>1. audit' \in [TxIds -> (Statuses \cup {NULL}) \X (Statuses \cup {NULL})]
  BY LogType DEF Statuses
<1>2. RepoTypeOK'
  BY <1>1 DEF RevertToSubmitted, IndInv, TypeOK, RepoTypeOK, Statuses
<1> QED
  BY <1>2 DEF Rewrite, RevertToSubmitted

(* The detector gives a row up. *)
LEMMA MarkFailedRewrites ==
  ASSUME IndInv, NEW t \in TxIds, MarkFailed(t),
         NEW from \in Statuses, LogStateTransition(t, from, "FAILED")
  PROVE  Rewrite(t, "FAILED")
<1>1. audit' \in [TxIds -> (Statuses \cup {NULL}) \X (Statuses \cup {NULL})]
  BY LogType DEF Statuses
<1>2. RepoTypeOK'
  BY <1>1 DEF MarkFailed, IndInv, TypeOK, RepoTypeOK, Statuses
<1> QED
  BY <1>2 DEF Rewrite, MarkFailed

(* A failed UPDATE changes no row; the log entry may be written. *)
LEMMA NoRewrite ==
  ASSUME IndInv, NEW t \in TxIds, UNCHANGED <<rows, attempts, cursor>>,
         \/ UNCHANGED audit
         \/ \E from, to \in Statuses : LogStateTransition(t, from, to)
  PROVE  Rewrite(t, status[t])
<1>1. audit' \in [TxIds -> (Statuses \cup {NULL}) \X (Statuses \cup {NULL})]
  BY LogType DEF IndInv, TypeOK, RepoTypeOK
<1>2. RepoTypeOK'
  BY <1>1 DEF rows, IndInv, TypeOK, RepoTypeOK
<1>3. status' = [status EXCEPT ![t] = status[t]]
  BY DEF rows, IndInv, TypeOK, RepoTypeOK
<1> QED
  BY <1>2, <1>3 DEF Rewrite, rows

(* A poller step that rewrites a row and moves on. *)
LEMMA PollerRewrites ==
  ASSUME IndInv, NEW t \in TxIds, WasSubmitted(t),
         NEW st \in Statuses \ {"QUEUED", "PENDING"}, Rewrite(t, st),
         UNCHANGED <<chainVars, pl, sd, procVars>>,
         rp' \in PollerState,
         \A x \in rp'.page : WasSubmitted(x.tx),
         rp'.pc = "applySubmitted" => \A x \in rp'.page : x.got # NULL,
         rp'.pc = "rebroadcast" => rp'.cur \in TxIds,
         rp'.pc # "resend"
  PROVE  IndInv'
<1>2. (PollerTypeOK /\ PollerRows)'
  BY RewriteKeeps, PollerHolds
<1>3. \A x \in sd.list : x.tx \in TxIds
  BY DEF IndInv, TypeOK, DetectorTypeOK, DetectorState, Stuck
<1>4. (DetectorTypeOK /\ DetectorRows)'
  <2>1. nonce' = nonce
    BY DEF Rewrite
  <2> QED
    BY <1>3, <2>1, RewriteKeeps DEF IndInv, TypeOK, DetectorTypeOK, RowsConsistent,
                                    DetectorRows, Current
<1> QED
  BY <1>2, <1>4, RewriteKeeps DEF IndInv, TypeOK, RowsConsistent

(* Record: the update of a row and its log entry, or neither. *)
LEMMA ApplySubmittedInv ==
  ASSUME IndInv, NEW x \in rp.page, ApplySubmitted(x), UNCHANGED <<pl, sd, procVars>>
  PROVE  IndInv'
<1>0. rp \in PollerState /\ rp.page \in SUBSET Seen
  BY DEF IndInv, TypeOK, PollerTypeOK, PollerState
<1>1. \A y \in rp.page : WasSubmitted(y.tx) /\ y.got # NULL
  BY DEF IndInv, RowsConsistent, PollerRows, ApplySubmitted
<1>2. x.tx \in TxIds /\ x.hash \in SignedTx /\ x.got \in Receipt
  BY <1>0, <1>1 DEF Seen
<1>3. /\ rp' \in PollerState /\ rp'.page \subseteq rp.page
      /\ rp'.pc \notin {"rebroadcast", "resend"}
  <2>1. rp' = Continue("submitted", "applySubmitted", rp.page \ {x})
    BY DEF ApplySubmitted
  <2> QED
    BY <1>0, <2>1, ContinueType
<1>4. \E st \in Statuses \ {"QUEUED", "PENDING"} : Rewrite(x.tx, st)
  <2> DEFINE to == StatusFromReceipt(x.tx, x.got)
  <2>1. CASE UNCHANGED repoVars
    <3>1. status[x.tx] \in Statuses \ {"QUEUED", "PENDING"}
      BY <1>1 DEF WasSubmitted, HandedOver
    <3> QED
      BY <1>2, <2>1, <3>1, NoRewrite DEF repoVars, rows
  <2>2. CASE to = "REVERTED" /\ MarkReverted(x.tx, x.hash, x.got)
               /\ LogStateTransition(x.tx, "SUBMITTED", to)
    BY <1>2, <2>2, MarkWithReceiptRewrites DEF MarkReverted, Statuses
  <2>3. CASE to = "INCLUDED" /\ MarkIncluded(x.tx, x.hash, x.got)
               /\ LogStateTransition(x.tx, "SUBMITTED", to)
    BY <1>2, <2>3, MarkWithReceiptRewrites DEF MarkIncluded, Statuses
  <2>4. CASE to = "CONFIRMED" /\ MarkConfirmed(x.tx, x.hash, x.got)
               /\ LogStateTransition(x.tx, "SUBMITTED", to)
    BY <1>2, <2>4, MarkWithReceiptRewrites DEF MarkConfirmed, Statuses
  <2> HIDE DEF to
  <2>5. \/ UNCHANGED repoVars
        \/ to = "REVERTED" /\ MarkReverted(x.tx, x.hash, x.got)
             /\ LogStateTransition(x.tx, "SUBMITTED", to)
        \/ to = "INCLUDED" /\ MarkIncluded(x.tx, x.hash, x.got)
             /\ LogStateTransition(x.tx, "SUBMITTED", to)
        \/ to = "CONFIRMED" /\ MarkConfirmed(x.tx, x.hash, x.got)
             /\ LogStateTransition(x.tx, "SUBMITTED", to)
    BY DEF ApplySubmitted, Record, to
  <2> QED
    BY <2>1, <2>2, <2>3, <2>4, <2>5
<1>5. UNCHANGED chainVars
  BY DEF ApplySubmitted
<1> QED
  BY <1>1, <1>2, <1>3, <1>4, <1>5, PollerRewrites

(* pollIncluded confirms, re-includes or reverts one row of its page. *)
LEMMA ApplyIncludedInv ==
  ASSUME IndInv, NEW x \in rp.page, ApplyIncluded(x), UNCHANGED <<pl, sd, procVars>>
  PROVE  IndInv'
<1>0. rp \in PollerState /\ rp.page \in SUBSET Seen
  BY DEF IndInv, TypeOK, PollerTypeOK, PollerState
<1>1. \A y \in rp.page : WasSubmitted(y.tx)
  BY DEF IndInv, RowsConsistent, PollerRows
<1>2. x.tx \in TxIds /\ x.hash \in SignedTx /\ x.got \in Receipt \cup {NULL}
  BY <1>0 DEF Seen
<1>3. UNCHANGED chainVars
  BY DEF ApplyIncluded
<1> DEFINE next == Continue("included", "applyIncluded", rp.page \ {x})
<1>4. ASSUME rp' = next
      PROVE  /\ rp' \in PollerState /\ rp'.page \subseteq rp.page
             /\ rp'.pc \notin {"rebroadcast", "resend", "applySubmitted"}
  BY <1>0, <1>4, ContinueType
<1>5. CASE UNCHANGED repoVars /\ rp' = next
  BY <1>1, <1>3, <1>4, <1>5, PollerMoves
<1>6. CASE /\ RevertToSubmitted(x.tx)
           /\ LogStateTransition(x.tx, "INCLUDED", "SUBMITTED")
           /\ rp' = [rp EXCEPT !.pc = "rebroadcast", !.cur = x.tx,
                               !.page = rp.page \ {x}]
  <2>1. /\ rp' \in PollerState /\ rp'.page \subseteq rp.page
        /\ rp'.pc = "rebroadcast" /\ rp'.cur = x.tx
    BY <1>0, <1>2, <1>6 DEF PollerState, PollerPcs
  <2>2. Rewrite(x.tx, "SUBMITTED")
    BY <1>2, <1>6, RevertToSubmittedRewrites
  <2>3. "SUBMITTED" \in Statuses \ {"QUEUED", "PENDING"}
    BY DEF Statuses
  <2> QED
    BY <1>1, <1>2, <1>3, <2>1, <2>2, <2>3, PollerRewrites
<1>7. CASE /\ x.got # NULL
           /\ MarkConfirmed(x.tx, x.hash, x.got)
           /\ LogStateTransition(x.tx, "INCLUDED", "CONFIRMED")
           /\ rp' = next
  <2>1. Rewrite(x.tx, "CONFIRMED")
    BY <1>2, <1>7, MarkWithReceiptRewrites DEF MarkConfirmed, Statuses
  <2>2. "CONFIRMED" \in Statuses \ {"QUEUED", "PENDING"}
    BY DEF Statuses
  <2> QED
    BY <1>1, <1>2, <1>3, <1>4, <1>7, <2>1, <2>2, PollerRewrites
<1>8. CASE /\ x.got # NULL
           /\ MarkIncluded(x.tx, x.hash, x.got)
           /\ LogStateTransition(x.tx, "INCLUDED", "INCLUDED")
           /\ rp' = next
  <2>1. Rewrite(x.tx, "INCLUDED")
    BY <1>2, <1>8, MarkWithReceiptRewrites DEF MarkIncluded, Statuses
  <2>2. "INCLUDED" \in Statuses \ {"QUEUED", "PENDING"}
    BY DEF Statuses
  <2> QED
    BY <1>1, <1>2, <1>3, <1>4, <1>8, <2>1, <2>2, PollerRewrites
<1> HIDE DEF next
<1> QED
  BY <1>5, <1>6, <1>7, <1>8 DEF ApplyIncluded, Record, next

(* What is rebroadcast is an attempt of the row. *)
LEMMA LatestIsAttempt ==
  ASSUME RepoTypeOK, NEW t \in TxIds, attempts[t] # <<>>
  PROVE  /\ LatestAttempt(t) \in Hashes(t)
         /\ LatestAttempt(t) \in SignedTx
<1>1. attempts[t] \in Seq(Attempt)
  BY DEF RepoTypeOK
<1>2. Len(attempts[t]) \in Nat \ {0} /\ DOMAIN attempts[t] = 1..Len(attempts[t])
  BY <1>1, EmptySeq, LenProperties
<1>3. Len(attempts[t]) \in DOMAIN attempts[t]
  BY <1>2
<1>4. LatestAttempt(t) \in Hashes(t)
  BY <1>3 DEF LatestAttempt, Hashes
<1> QED
  BY <1>4, HashesType

(* Sending an attempt of a row keeps what is said of the chain. *)
LEMMA SendKeeps ==
  ASSUME IndInv, attempts' = attempts, NEW t \in TxIds,
         NEW h \in Hashes(t), SendOk(h) \/ SendErr(h)
  PROVE  (ChainTypeOK /\ MinedOncePerNonce /\ BroadcastIsRecorded)'
<1>1. h \in SignedTx
  BY HashesType DEF IndInv, TypeOK
<1>2. ChainTypeOK' /\ mined' = mined /\ pool' \subseteq pool \cup {h}
  BY <1>1, SendEffect DEF IndInv, TypeOK
<1>3. \A u \in TxIds : Hashes(u)' = Hashes(u)
  BY DEF Hashes
<1> QED
  BY <1>2, <1>3 DEF IndInv, MinedOncePerNonce, BroadcastIsRecorded

(* The attempt that is read stays one of the row's. *)
LEMMA ReadLatestAttemptInv ==
  ASSUME IndInv, ReadLatestAttempt, UNCHANGED <<pl, sd, procVars>>
  PROVE  IndInv'
<1>0. rp \in PollerState /\ rp.page \in SUBSET Seen
  BY DEF IndInv, TypeOK, PollerTypeOK, PollerState
<1>1. rp.cur \in TxIds /\ \A y \in rp.page : WasSubmitted(y.tx)
  BY DEF IndInv, RowsConsistent, PollerRows, ReadLatestAttempt
<1>2. UNCHANGED <<repoVars, chainVars>>
  BY DEF ReadLatestAttempt
<1>3. CASE rp' = Continue("included", "applyIncluded", rp.page)
  <2>1. /\ rp' \in PollerState /\ rp'.page \subseteq rp.page
        /\ rp'.pc \notin {"rebroadcast", "resend", "applySubmitted"}
    BY <1>0, <1>3, ContinueType
  <2> QED
    BY <1>1, <1>2, <2>1, PollerMoves
<1>4. CASE /\ attempts[rp.cur] # <<>>
           /\ rp' = [rp EXCEPT !.pc = "resend", !.hash = LatestAttempt(rp.cur)]
  <2>1. /\ LatestAttempt(rp.cur) \in Hashes(rp.cur)
        /\ LatestAttempt(rp.cur) \in SignedTx
    BY <1>1, <1>4, LatestIsAttempt DEF IndInv, TypeOK
  <2>2. /\ rp' \in PollerState /\ rp'.page = rp.page /\ rp'.pc = "resend"
        /\ rp'.cur = rp.cur /\ rp'.hash = LatestAttempt(rp.cur)
    BY <1>0, <1>4, <2>1 DEF PollerState, PollerPcs
  <2>3. rp'.hash \in Hashes(rp'.cur)
    BY <2>1, <2>2
  <2> QED
    BY <1>1, <1>2, <2>2, <2>3, PollerMoves
<1> QED
  BY <1>3, <1>4 DEF ReadLatestAttempt

(* What is sent again is a stored attempt of the row. *)
LEMMA RebroadcastInv ==
  ASSUME IndInv, RebroadcastAfterReorg, UNCHANGED <<pl, sd, procVars>>
  PROVE  IndInv'
<1>0. rp \in PollerState /\ rp.page \in SUBSET Seen
  BY DEF IndInv, TypeOK, PollerTypeOK, PollerState
<1>1. /\ rp.cur \in TxIds /\ rp.hash \in Hashes(rp.cur)
      /\ \A y \in rp.page : WasSubmitted(y.tx)
  BY DEF IndInv, RowsConsistent, PollerRows, RebroadcastAfterReorg
<1>2. UNCHANGED repoVars /\ rp' = Continue("included", "applyIncluded", rp.page)
  BY DEF RebroadcastAfterReorg
<1>3. /\ rp' \in PollerState /\ rp'.page \subseteq rp.page
      /\ rp'.pc \notin {"rebroadcast", "resend", "applySubmitted"}
  BY <1>0, <1>2, ContinueType
<1>4. (ChainTypeOK /\ MinedOncePerNonce /\ BroadcastIsRecorded)'
  BY <1>1, <1>2, SendKeeps DEF RebroadcastAfterReorg, repoVars
<1>5. (PollerTypeOK /\ PollerRows)'
  BY <1>1, <1>2, <1>3, OtherMemory, PollerHolds
<1> QED
  BY <1>2, <1>4, <1>5, OtherMemory, MemoryFrame

(* Every step of the receipt poller preserves the invariant. *)
LEMMA PollerStepInv == IndInv /\ RunPoller => IndInv'
  BY FetchInv, ReceiptsInv, ReadBlockNumberInv, ApplySubmittedInv,
     ApplyIncludedInv, ReadLatestAttemptInv, RebroadcastInv
  DEF RunPoller, PollerStep

-----------------------------------------------------------------------------
(* Attempts, and the stuck detector *)

(* A free attempt number 1 means that the row has no attempt. *)
LEMMA NoAttempts ==
  ASSUME RepoTypeOK, NEW t \in TxIds
  PROVE  /\ AttemptNumberFree(t, 1) => attempts[t] = <<>>
         /\ attempts[t] = <<>> => Hashes(t) = {} /\ Len(attempts[t]) = 0
<1>1. attempts[t] \in Seq(Attempt)
  BY DEF RepoTypeOK
<1>2. Len(attempts[t]) \in Nat /\ DOMAIN attempts[t] = 1..Len(attempts[t])
  BY <1>1, LenProperties
<1>3. attempts[t] # <<>> => Len(attempts[t]) \in Nat \ {0}
  BY <1>1, EmptySeq
<1>4. AttemptNumberFree(t, 1) => attempts[t] = <<>>
  BY <1>2, <1>3 DEF AttemptNumberFree
<1>5. ASSUME attempts[t] = <<>> PROVE Hashes(t) = {} /\ Len(attempts[t]) = 0
  <2>1. Len(attempts[t]) = 0
    BY <1>5, EmptySeq
  <2>2. DOMAIN attempts[t] = {}
    BY <1>2, <2>1
  <2> QED
    BY <2>1, <2>2 DEF Hashes
<1> QED
  BY <1>4, <1>5

(* An attempt that carries the nonce of its row keeps the invariant's part *)
(* about rows and chain.                                                   *)
LEMMA AddAttempt ==
  ASSUME IndInv, NEW t \in TxIds, NEW n, NEW h \in SignedTx,
         h.from = SenderOf[t], h.nonce = nonce[t], AttemptsUse(t, nonce[t]),
         Len(attempts[t]) <= MaxGasBumps,
         CreateAttempt(t, n, h), UNCHANGED <<audit, chainVars>>
  PROVE  /\ RepoTypeOK'
         /\ (ChainTypeOK /\ MinedOncePerNonce /\ BroadcastIsRecorded)'
         /\ (AttemptsShareNonce /\ BumpsBounded /\ SubmittedRows)'
         /\ \A u \in TxIds : /\ Hashes(u) \subseteq Hashes(u)'
                             /\ Signed(u) => Signed(u)'
                             /\ WasSubmitted(u) => WasSubmitted(u)'
         /\ Signed(t)'
         /\ h \in Hashes(t)'
<1> DEFINE a == [hash |-> h, status |-> "BROADCAST"]
<1>0. attempts \in [TxIds -> Seq(Attempt)]
  BY DEF IndInv, TypeOK, RepoTypeOK
<1>1. a \in Attempt /\ a.hash = h
  BY DEF Attempt, AttemptStatuses
<1>2. /\ attempts' = [attempts EXCEPT ![t] = Append(attempts[t], a)]
      /\ UNCHANGED <<status, nonce, finalHash, receipt, cursor>>
  BY DEF CreateAttempt
<1> HIDE DEF a
<1>3. /\ attempts'[t] = Append(attempts[t], a)
      /\ \A u \in TxIds \ {t} : attempts'[u] = attempts[u]
  BY <1>0, <1>2
<1>4. /\ Append(attempts[t], a) \in Seq(Attempt)
      /\ Append(attempts[t], a) # <<>>
      /\ Len(Append(attempts[t], a)) = Len(attempts[t]) + 1
      /\ HashesOf(Append(attempts[t], a)) = HashesOf(attempts[t]) \cup {h}
  BY <1>0, <1>1, AppendHashes
<1>5. /\ Hashes(t)' = Hashes(t) \cup {h}
      /\ \A u \in TxIds \ {t} : Hashes(u)' = Hashes(u)
  BY <1>3, <1>4 DEF Hashes, HashesOf
<1>6. RepoTypeOK'
  <2>1. attempts' \in [TxIds -> Seq(Attempt)]
    BY <1>0, <1>2, <1>4
  <2> QED
    BY <1>2, <2>1 DEF IndInv, TypeOK, RepoTypeOK
<1>7. nonce[t] \in Nat /\ AttemptsUse(t, nonce[t])'
  BY <1>2, <1>5 DEF AttemptsUse, SignedTx
<1>8. Signed(t)' /\ h \in Hashes(t)'
  BY <1>2, <1>3, <1>4, <1>5, <1>7 DEF Signed, AttemptsUse
<1>9. \A u \in TxIds : /\ Hashes(u) \subseteq Hashes(u)'
                       /\ Signed(u) => Signed(u)'
                       /\ WasSubmitted(u) => WasSubmitted(u)'
  BY <1>2, <1>3, <1>5, <1>8 DEF Signed, AttemptsUse, WasSubmitted, HandedOver
<1>10. AttemptsShareNonce'
  <2>1. \A g \in Hashes(t) : g.nonce = h.nonce /\ g.from = SenderOf[t]
    BY DEF AttemptsUse, IndInv, AttemptsShareNonce
  <2> QED
    BY <1>5, <2>1 DEF IndInv, AttemptsShareNonce
<1>11. BumpsBounded'
  BY <1>0, <1>3, <1>4, DetectorAssumption DEF IndInv, BumpsBounded
<1>12. SubmittedRows'
  BY <1>2, <1>9 DEF IndInv, RowsConsistent, SubmittedRows
<1>13. (ChainTypeOK /\ MinedOncePerNonce /\ BroadcastIsRecorded)'
  BY <1>9 DEF chainVars, IndInv, TypeOK, ChainTypeOK, MinedOncePerNonce,
              BroadcastIsRecorded
<1> QED
  BY <1>6, <1>8, <1>9, <1>10, <1>11, <1>12, <1>13

(* The list of stuck rows holds rows that are SUBMITTED and hence signed. *)
LEMMA FetchStuckInv ==
  ASSUME IndInv, FetchStuck, UNCHANGED <<pl, rp, procVars>>
  PROVE  IndInv'
<1>1. PICK late \in SUBSET WithStatus("SUBMITTED") :
         sd' = [NoCheck EXCEPT !.list =
                  {[tx |-> t, nonce |-> nonce[t]] : t \in late}]
  BY DEF FetchStuck
<1>2. \A t \in late : t \in TxIds /\ WasSubmitted(t)
                        /\ [tx |-> t, nonce |-> nonce[t]] \in Stuck
  BY DEF WithStatus, IndInv, RowsConsistent, SubmittedRows, TypeOK, RepoTypeOK,
         Stuck
<1>3. /\ sd' \in DetectorState /\ sd'.pc = "scan"
      /\ sd'.list = {[tx |-> t, nonce |-> nonce[t]] : t \in late}
  BY <1>1, <1>2 DEF NoCheck, DetectorState, DetectorPcs
<1>4. UNCHANGED <<repoVars, chainVars>>
  BY DEF FetchStuck
<1>5. \A x \in sd'.list : x.tx \in late /\ x.nonce = nonce[x.tx]
  BY <1>3
<1>6. (DetectorTypeOK /\ DetectorRows)'
  BY <1>2, <1>3, <1>4, <1>5, OtherMemory DEF DetectorTypeOK, DetectorRows, repoVars
<1> QED
  BY <1>4, <1>6, OtherMemory, MemoryFrame

(* After a row is done with, the rest of the list is as it was. *)
LEMMA DoneRows ==
  ASSUME IndInv, NEW x \in sd.list, Done(x), nonce' = nonce,
         \A u \in TxIds : WasSubmitted(u) => WasSubmitted(u)'
  PROVE  (DetectorTypeOK /\ DetectorRows)'
<1>1. sd' = [pc |-> "scan", list |-> sd.list \ {x}, hash |-> NULL]
  BY DEF Done, NoCheck
<1>2. sd' \in DetectorState /\ sd'.pc = "scan" /\ sd'.list \subseteq sd.list
  BY <1>1 DEF IndInv, TypeOK, DetectorTypeOK, DetectorState, DetectorPcs
<1>3. \A y \in sd.list : y.tx \in TxIds
  BY DEF IndInv, TypeOK, DetectorTypeOK, DetectorState, Stuck
<1> QED
  BY <1>2, <1>3 DEF DetectorTypeOK, DetectorRows, IndInv, RowsConsistent

(* A detector step that rewrites the row it is done with. *)
LEMMA DetectorRewrites ==
  ASSUME IndInv, NEW x \in sd.list, Done(x),
         NEW st \in Statuses \ {"QUEUED", "PENDING"}, Rewrite(x.tx, st),
         UNCHANGED <<chainVars, pl, rp, procVars>>
  PROVE  IndInv'
<1>1. x.tx \in TxIds /\ WasSubmitted(x.tx)
  BY DEF IndInv, TypeOK, DetectorTypeOK, DetectorState, Stuck, RowsConsistent,
         DetectorRows
<1>2. (DetectorTypeOK /\ DetectorRows)'
  BY <1>1, RewriteKeeps, DoneRows DEF Rewrite
<1>3. (PollerTypeOK /\ PollerRows)'
  BY <1>1, RewriteKeeps, PollerStays
<1> QED
  BY <1>1, <1>2, <1>3, RewriteKeeps DEF IndInv, TypeOK, RowsConsistent

(* A row left alone changes nothing but the list. *)
LEMMA SkipInv ==
  ASSUME IndInv, NEW x \in sd.list, Skip(x), UNCHANGED <<pl, rp, procVars>>
  PROVE  IndInv'
<1>1. UNCHANGED <<repoVars, chainVars>> /\ Done(x)
  BY DEF Skip
<1>2. (DetectorTypeOK /\ DetectorRows)'
  BY <1>1, OtherMemory, DoneRows DEF repoVars
<1> QED
  BY <1>1, <1>2, OtherMemory, MemoryFrame

(* A row with MaxGasBumps bumps is marked FAILED, whatever its status. *)
LEMMA GiveUpInv ==
  ASSUME IndInv, NEW x \in sd.list, GiveUp(x), UNCHANGED <<pl, rp, procVars>>
  PROVE  IndInv'
<1>1. x.tx \in TxIds /\ status[x.tx] \in Statuses \ {"QUEUED", "PENDING"}
  BY DEF IndInv, TypeOK, DetectorTypeOK, DetectorState, Stuck, RowsConsistent,
         DetectorRows, WasSubmitted, HandedOver
<1>2. /\ "FAILED" \in Statuses \ {"QUEUED", "PENDING"} /\ "SUBMITTED" \in Statuses
      /\ LogStateTransition(x.tx, "SUBMITTED", "FAILED")
  BY DEF GiveUp, Statuses
<1>3. CASE MarkFailed(x.tx)
  BY <1>1, <1>2, <1>3, MarkFailedRewrites, DetectorRewrites DEF GiveUp
<1>4. CASE UNCHANGED <<rows, attempts, cursor>>
  <2>1. Rewrite(x.tx, status[x.tx])
    BY <1>1, <1>2, <1>4, NoRewrite
  <2> QED
    BY <1>1, <2>1, DetectorRewrites DEF GiveUp
<1> QED
  BY <1>3, <1>4 DEF GiveUp

(* The replacement is stored with the nonce of the attempts before it. *)
LEMMA BumpGasInv ==
  ASSUME IndInv, NEW x \in sd.list, BumpGas(x), UNCHANGED <<pl, rp, procVars>>
  PROVE  IndInv'
<1>1. /\ x.tx \in TxIds /\ WasSubmitted(x.tx) /\ x.nonce = nonce[x.tx]
      /\ sd \in DetectorState
  BY DEF IndInv, TypeOK, DetectorTypeOK, DetectorState, Stuck, RowsConsistent,
         DetectorRows
<1>2. /\ nonce[x.tx] \in Nat /\ attempts[x.tx] # <<>>
      /\ AttemptsUse(x.tx, nonce[x.tx]) /\ status[x.tx] # "PENDING"
  BY <1>1 DEF WasSubmitted, Signed, HandedOver
<1>3. LatestAttempt(x.tx) \in SignedTx
  BY <1>1, <1>2, LatestIsAttempt DEF IndInv, TypeOK
<1> DEFINE h == Replacement(x)
<1>4. h \in SignedTx /\ h.from = SenderOf[x.tx] /\ h.nonce = nonce[x.tx]
  <2>1. h = [from |-> SenderOf[x.tx], pay |-> PayloadOf[x.tx], nonce |-> x.nonce,
             gas |-> LatestAttempt(x.tx).gas + 1]
    BY DEF Replacement, LatestAttempt
  <2>2. LatestAttempt(x.tx).gas \in Nat
    BY <1>3 DEF SignedTx
  <2>3. SenderOf[x.tx] \in Senders /\ PayloadOf[x.tx] \in Payloads
    BY <1>1, DomainAssumption
  <2> HIDE DEF h
  <2> QED
    BY <1>1, <1>2, <2>1, <2>2, <2>3 DEF SignedTx
<1>5. Len(attempts[x.tx]) <= MaxGasBumps
  <2>1. attempts[x.tx] \in Seq(Attempt)
    BY <1>1 DEF IndInv, TypeOK, RepoTypeOK
  <2>2. Len(attempts[x.tx]) \in Nat
    BY <2>1, LenProperties
  <2> QED
    BY <2>2, DetectorAssumption DEF BumpGas, BumpsExceeded
<1>6. /\ CreateAttempt(x.tx, Len(attempts[x.tx]) + 1, h)
      /\ UNCHANGED <<audit, chainVars>>
      /\ sd' = [sd EXCEPT !.pc = "send", !.hash = h]
      /\ Current(x)
  BY DEF BumpGas
<1> HIDE DEF h
<1>7. /\ RepoTypeOK'
      /\ (ChainTypeOK /\ MinedOncePerNonce /\ BroadcastIsRecorded)'
      /\ (AttemptsShareNonce /\ BumpsBounded /\ SubmittedRows)'
      /\ \A u \in TxIds : /\ Hashes(u) \subseteq Hashes(u)'
                          /\ Signed(u) => Signed(u)'
                          /\ WasSubmitted(u) => WasSubmitted(u)'
      /\ h \in Hashes(x.tx)'
  BY <1>1, <1>2, <1>4, <1>5, <1>6, AddAttempt
<1>8. UNCHANGED <<status, nonce>>
  BY <1>6 DEF CreateAttempt
<1>9. (PipelineTypeOK /\ PipelineRows /\ ManagerTypeOK)'
  BY <1>2, <1>7, <1>8 DEF procVars, IndInv, TypeOK, PipelineTypeOK, ManagerTypeOK,
                          RowsConsistent, PipelineRows, PipelineRow
<1>10. (PollerTypeOK /\ PollerRows)'
  BY <1>7, PollerStays
<1>11. (DetectorTypeOK /\ DetectorRows)'
  <2>1. sd' \in DetectorState /\ sd'.list = sd.list /\ sd'.hash = h
    BY <1>1, <1>4, <1>6 DEF DetectorState, DetectorPcs
  <2>2. \A y \in sd.list : y.tx \in TxIds /\ WasSubmitted(y.tx)
                             /\ y.nonce = nonce[y.tx]
    BY <1>1 DEF DetectorState, Stuck, IndInv, RowsConsistent, DetectorRows
  <2>3. \A y \in sd.list : Current(y) => y.tx = x.tx
    <3>1. TxIds \subseteq Nat
      BY DomainAssumption
    <3> QED
      BY <1>6, <2>2, <3>1 DEF Current
  <2>4. \A y \in sd.list : Current(y)' = Current(y)
    BY <2>1 DEF Current
  <2> QED
    BY <1>7, <1>8, <2>1, <2>2, <2>3, <2>4 DEF DetectorTypeOK, DetectorRows
<1> QED
  BY <1>7, <1>9, <1>10, <1>11 DEF IndInv, TypeOK, RowsConsistent

(* What is broadcast was stored in the step before. *)
LEMMA SendReplacementInv ==
  ASSUME IndInv, NEW x \in sd.list, SendReplacement(x), UNCHANGED <<pl, rp, procVars>>
  PROVE  IndInv'
<1>1. x.tx \in TxIds /\ sd \in DetectorState
  BY DEF IndInv, TypeOK, DetectorTypeOK, DetectorState, Stuck
<1>2. sd.hash \in Hashes(x.tx)
  BY DEF SendReplacement, IndInv, RowsConsistent, DetectorRows
<1>3. UNCHANGED repoVars
  BY DEF SendReplacement
<1>4. (ChainTypeOK /\ MinedOncePerNonce /\ BroadcastIsRecorded)'
  BY <1>1, <1>2, <1>3, SendKeeps DEF SendReplacement, repoVars
<1>5. (DetectorTypeOK /\ DetectorRows)'
  <2>1. CASE Done(x)
    BY <1>3, <2>1, OtherMemory, DoneRows DEF repoVars
  <2>2. CASE sd' = [sd EXCEPT !.pc = "submit"]
    <3>1. /\ sd' \in DetectorState /\ sd'.list = sd.list /\ sd'.hash = sd.hash
          /\ sd.pc = "send"
      BY <1>1, <2>2 DEF DetectorState, DetectorPcs, SendReplacement
    <3>2. \A y \in sd.list : y.tx \in TxIds /\ Current(y)' = Current(y)
      BY <1>1, <3>1 DEF DetectorState, Stuck, Current
    <3> QED
      BY <1>3, <3>1, <3>2, OtherMemory DEF DetectorTypeOK, DetectorRows, IndInv,
                                           RowsConsistent, repoVars
  <2> QED
    BY <2>1, <2>2 DEF SendReplacement
<1> QED
  BY <1>3, <1>4, <1>5, OtherMemory, MemoryFrame

(* MarkSubmitted with the replacement, whatever the status is. *)
LEMMA SubmitReplacementInv ==
  ASSUME IndInv, NEW x \in sd.list, SubmitReplacement(x),
         UNCHANGED <<pl, rp, procVars>>
  PROVE  IndInv'
<1>1. x.tx \in TxIds /\ status[x.tx] \in Statuses \ {"QUEUED", "PENDING"}
  BY DEF IndInv, TypeOK, DetectorTypeOK, DetectorState, Stuck, RowsConsistent,
         DetectorRows, WasSubmitted, HandedOver
<1>2. sd.hash \in SignedTx
  <2>1. sd.hash \in Hashes(x.tx)
    BY DEF SubmitReplacement, IndInv, RowsConsistent, DetectorRows
  <2> QED
    BY <1>1, <2>1, HashesType DEF IndInv, TypeOK
<1>3. /\ "SUBMITTED" \in Statuses \ {"QUEUED", "PENDING"}
      /\ LogStateTransition(x.tx, "SUBMITTED", "SUBMITTED")
  BY DEF SubmitReplacement, Statuses
<1>4. CASE MarkSubmitted(x.tx, sd.hash)
  BY <1>1, <1>2, <1>3, <1>4, MarkSubmittedRewrites, DetectorRewrites
     DEF SubmitReplacement
<1>5. CASE UNCHANGED <<rows, attempts, cursor>>
  <2>1. Rewrite(x.tx, status[x.tx])
    BY <1>1, <1>3, <1>5, NoRewrite
  <2> QED
    BY <1>1, <2>1, DetectorRewrites DEF SubmitReplacement
<1> QED
  BY <1>4, <1>5 DEF SubmitReplacement

(* Every step of the stuck detector preserves the invariant. *)
LEMMA DetectorStepInv == IndInv /\ RunDetector => IndInv'
  BY FetchStuckInv, SkipInv, GiveUpInv, BumpGasInv, SendReplacementInv,
     SubmitReplacementInv DEF RunDetector, DetectorStep

-----------------------------------------------------------------------------
(* The pipelines *)

(* A step of a pipeline: the row it works on is PENDING, so no other       *)
(* goroutine has it, and the rows that others have are left alone.         *)
LEMMA PipelineWrites ==
  ASSUME IndInv, NEW s \in Senders, NEW t \in TxIds, SenderOf[t] = s,
         ~ HandedOver(t), phase = "up",
         pl[s].pc # "idle" => pl[s].tx = t,
         RepoTypeOK',
         (ChainTypeOK /\ MinedOncePerNonce /\ BroadcastIsRecorded)',
         (AttemptsShareNonce /\ BumpsBounded)',
         \A u \in TxIds \ {t} : /\ status'[u] = status[u] /\ nonce'[u] = nonce[u]
                                /\ finalHash'[u] = finalHash[u]
                                /\ attempts'[u] = attempts[u],
         Hashes(t) \subseteq Hashes(t)',
         UNCHANGED <<rp, sd, procVars>>,
         NEW p \in PipelineState, pl' = [pl EXCEPT ![s] = p],
         p.pc = "idle" \/ (p.tx = t /\ status'[t] = "PENDING"),
         p.pc = "build" => nonce'[t] \in Nat,
         p.pc \in {"send", "fail", "submit"} =>
            Signed(t)' /\ p.hash \in Hashes(t)',
         \/ ~ HandedOver(t)'
         \/ status'[t] = "FAILED"
         \/ WasSubmitted(t)'
  PROVE  IndInv'
<1> USE DEF procVars
<1>1. \A u \in TxIds \ {t} :
        /\ Hashes(u)' = Hashes(u)
        /\ Signed(u)' = Signed(u)
        /\ WasSubmitted(u)' = WasSubmitted(u)
  BY DEF Hashes, Signed, AttemptsUse, WasSubmitted, HandedOver
<1>2. PipelineTypeOK' /\ ManagerTypeOK'
  BY DEF IndInv, TypeOK, PipelineTypeOK, ManagerTypeOK
<1>3. SubmittedRows'
  BY <1>1 DEF IndInv, RowsConsistent, SubmittedRows, HandedOver, Statuses
<1>4. PipelineRows'
  <2> SUFFICES ASSUME NEW q \in Senders PROVE PipelineRow(q)'
    BY DEF PipelineRows
  <2>1. pl \in [Senders -> PipelineState]
    BY DEF IndInv, TypeOK, PipelineTypeOK
  <2>2. CASE q = s
    <3>1. pl'[q] = p /\ phase' = "up"
      BY <2>1, <2>2
    <3> QED
      BY <2>2, <3>1 DEF PipelineRow, Signed, AttemptsUse, Hashes
  <2>3. CASE q # s
    <3>1. pl'[q] = pl[q]
      BY <2>1, <2>3
    <3>2. CASE pl[q].pc = "idle"
      BY <3>1, <3>2 DEF PipelineRow
    <3>3. CASE pl[q].pc # "idle"
      <4>1. PipelineRow(q)
        BY DEF IndInv, RowsConsistent, PipelineRows
      <4>2. PICK u \in TxIds : u = pl[q].tx
        BY <3>3, <4>1 DEF PipelineRow
      <4>3. /\ SenderOf[u] = q /\ status[u] = "PENDING"
            /\ pl[q].pc = "build" => nonce[u] \in Nat
            /\ pl[q].pc \in {"send", "fail", "submit"} =>
                 Signed(u) /\ pl[q].hash \in Hashes(u)
        BY <3>3, <4>1, <4>2 DEF PipelineRow, Signed, AttemptsUse, Hashes
      <4>4. u \in TxIds \ {t}
        BY <2>3, <4>3
      <4>5. /\ status'[u] = "PENDING"
            /\ pl'[q].pc = "build" => nonce'[u] \in Nat
            /\ pl'[q].pc \in {"send", "fail", "submit"} =>
                 Signed(u)' /\ pl'[q].hash \in Hashes(u)'
        BY <1>1, <3>1, <4>3, <4>4
      <4> QED
        BY <3>1, <4>2, <4>3, <4>5 DEF PipelineRow, Signed, AttemptsUse, Hashes
    <3> QED
      BY <3>2, <3>3
  <2> QED
    BY <2>2, <2>3
<1>5. PollerTypeOK' /\ PollerRows'
  <2>1. ~ WasSubmitted(t)
    BY DEF WasSubmitted
  <2> QED
    BY <1>1, <2>1, PollerStays
<1>6. DetectorTypeOK' /\ DetectorRows'
  <2>1. \A x \in sd.list : x.tx \in TxIds \ {t}
    BY DEF IndInv, TypeOK, DetectorTypeOK, DetectorState, Stuck, RowsConsistent,
           DetectorRows, WasSubmitted
  <2>2. \A x \in sd.list : Current(x)' = Current(x)
    BY DEF Current
  <2> QED
    BY <1>1, <2>1, <2>2 DEF IndInv, TypeOK, DetectorTypeOK, RowsConsistent,
                            DetectorRows
<1> QED
  BY <1>2, <1>3, <1>4, <1>5, <1>6 DEF IndInv, TypeOK, RowsConsistent

(* A pipeline between two rows is in a legal state. *)
LEMMA IdleState == Idle \in PipelineState /\ Idle.pc = "idle"
  BY DEF Idle, PipelineState, PipelinePcs

(* Statements that add no attempt and leave the chain alone. *)
LEMMA SameAttempts ==
  ASSUME IndInv, UNCHANGED <<attempts, chainVars>>
  PROVE  /\ (ChainTypeOK /\ MinedOncePerNonce /\ BroadcastIsRecorded)'
         /\ (AttemptsShareNonce /\ BumpsBounded)'
         /\ \A u \in TxIds : Hashes(u)' = Hashes(u)
<1>1. \A u \in TxIds : Hashes(u)' = Hashes(u)
  BY DEF Hashes
<1> QED
  BY <1>1 DEF chainVars, IndInv, TypeOK, ChainTypeOK, MinedOncePerNonce,
              BroadcastIsRecorded, AttemptsShareNonce, BumpsBounded

(* The claimed row was QUEUED, so no other goroutine holds it. *)
LEMMA ClaimInv ==
  ASSUME IndInv, NEW s \in Senders, phase = "up", Claim(s),
         UNCHANGED <<rp, sd, procVars>>
  PROVE  IndInv'
<1>1. PICK t \in TxIds : /\ ClaimNextQueued(s, t)
                         /\ LogStateTransition(t, "QUEUED", "PENDING")
                         /\ Goto(s, [Idle EXCEPT !.pc = "assign", !.tx = t])
  BY DEF Claim
<1>2. audit' \in [TxIds -> (Statuses \cup {NULL}) \X (Statuses \cup {NULL})]
  BY <1>1, LogType DEF Statuses
<1>3. RepoTypeOK'
  BY <1>1, <1>2 DEF ClaimNextQueued, IndInv, TypeOK, RepoTypeOK, Statuses
<1>4. /\ SenderOf[t] = s /\ status[t] = "QUEUED"
      /\ status' = [status EXCEPT ![t] = "PENDING"]
      /\ UNCHANGED <<nonce, finalHash, attempts, chainVars>>
  BY <1>1 DEF ClaimNextQueued, NextQueued, WithStatus, Claim
<1>5. status'[t] = "PENDING" /\ \A u \in TxIds \ {t} : status'[u] = status[u]
  BY <1>4 DEF IndInv, TypeOK, RepoTypeOK
<1> DEFINE p == [Idle EXCEPT !.pc = "assign", !.tx = t]
<1>6. p \in PipelineState /\ p.tx = t /\ p.pc = "assign"
  BY DEF Idle, PipelineState, PipelinePcs
<1>7. pl[s].pc = "idle" /\ pl' = [pl EXCEPT ![s] = p]
  BY <1>1 DEF Claim, Goto
<1>8. ~ HandedOver(t) /\ ~ HandedOver(t)'
  BY <1>4, <1>5 DEF HandedOver
<1> HIDE DEF p
<1> QED
  BY <1>3, <1>4, <1>5, <1>6, <1>7, <1>8, SameAttempts, PipelineWrites

(* failTx ends the work on the row. *)
LEMMA FailTxInv ==
  ASSUME IndInv, NEW s \in Senders, phase = "up", pl[s].pc # "idle",
         NEW t \in TxIds, t = pl[s].tx,
         FailTx(s, t), UNCHANGED <<rp, sd, procVars>>,
         (ChainTypeOK /\ MinedOncePerNonce /\ BroadcastIsRecorded)'
  PROVE  IndInv'
<1>1. SenderOf[t] = s /\ status[t] = "PENDING"
  BY DEF IndInv, RowsConsistent, PipelineRows, PipelineRow
<1>2. /\ UNCHANGED <<nonce, finalHash, receipt, attempts, cursor>>
      /\ status' = [status EXCEPT ![t] = "FAILED"] \/ status' = status
      /\ LogStateTransition(t, "PENDING", "FAILED")
      /\ pl' = [pl EXCEPT ![s] = Idle]
  BY DEF FailTx, MarkFailed, rows, Goto
<1>3. audit' \in [TxIds -> (Statuses \cup {NULL}) \X (Statuses \cup {NULL})]
  BY <1>2, LogType DEF Statuses
<1>4. RepoTypeOK'
  BY <1>2, <1>3 DEF IndInv, TypeOK, RepoTypeOK, Statuses
<1>5. /\ status'[t] \in {"FAILED", "PENDING"}
      /\ \A u \in TxIds \ {t} : status'[u] = status[u]
  BY <1>1, <1>2 DEF IndInv, TypeOK, RepoTypeOK
<1>6. ~ HandedOver(t) /\ (~ HandedOver(t)' \/ status'[t] = "FAILED")
  BY <1>1, <1>5 DEF HandedOver
<1>7. \A u \in TxIds : Hashes(u)' = Hashes(u)
  BY <1>2 DEF Hashes
<1>8. (AttemptsShareNonce /\ BumpsBounded)'
  BY <1>2, <1>7 DEF IndInv, AttemptsShareNonce, BumpsBounded
<1> QED
  BY <1>1, <1>2, <1>4, <1>5, <1>6, <1>7, <1>8, IdleState, PipelineWrites

(* A pipeline at work has a PENDING row of its sender. *)
LEMMA RowInHand ==
  ASSUME IndInv, NEW s \in Senders, pl[s].pc # "idle"
  PROVE  \E t \in TxIds :
            /\ t = pl[s].tx /\ SenderOf[t] = s /\ status[t] = "PENDING"
            /\ pl[s] \in PipelineState
            /\ pl[s].pc = "build" => nonce[t] \in Nat
            /\ pl[s].pc \in {"send", "fail", "submit"} =>
                  Signed(t) /\ pl[s].hash \in Hashes(t) /\ pl[s].hash \in SignedTx
<1>1. pl[s].tx \in TxIds /\ pl[s] \in PipelineState /\ PipelineRow(s)
  BY DEF IndInv, TypeOK, PipelineTypeOK, RowsConsistent, PipelineRows, PipelineRow
<1>2. PICK t \in TxIds : t = pl[s].tx
  BY <1>1
<1>3. /\ SenderOf[t] = s /\ status[t] = "PENDING"
      /\ pl[s].pc = "build" => nonce[t] \in Nat
      /\ pl[s].pc \in {"send", "fail", "submit"} =>
            Signed(t) /\ pl[s].hash \in Hashes(t)
  BY <1>1, <1>2 DEF PipelineRow, Signed, AttemptsUse, Hashes
<1>4. Hashes(t) \subseteq SignedTx
  BY HashesType DEF IndInv, TypeOK
<1> QED
  BY <1>1, <1>2, <1>3, <1>4

(* The row gets a nonce; were it signed already, it will not be again. *)
LEMMA AssignNonceInv ==
  ASSUME IndInv, NEW s \in Senders, phase = "up", AssignNonce(s),
         UNCHANGED <<rp, sd, procVars>>
  PROVE  IndInv'
<1>1. PICK t \in TxIds : /\ t = pl[s].tx /\ SenderOf[t] = s
                         /\ status[t] = "PENDING" /\ pl[s] \in PipelineState
  BY RowInHand DEF AssignNonce
<1>2. CASE FailTx(s, t)
  <2>1. attempts' = attempts /\ UNCHANGED chainVars /\ pl[s].pc # "idle"
    BY <1>2 DEF FailTx, MarkFailed, AssignNonce
  <2> QED
    BY <1>1, <1>2, <2>1, SameAttempts, FailTxInv
<1>3. CASE /\ AssignNonceAndMarkPending(s, t)
           /\ Goto(s, [pl[s] EXCEPT !.pc = "build"])
           /\ UNCHANGED audit
  <2>1. PICK p : p = [pl[s] EXCEPT !.pc = "build"]
    OBVIOUS
  <2>2. p \in PipelineState /\ p.tx = t /\ p.pc = "build"
    BY <1>1, <2>1 DEF PipelineState, PipelinePcs
  <2>3. /\ cursor[s] # NULL
        /\ cursor' = [cursor EXCEPT ![s] = cursor[s] + 1]
        /\ nonce'  = [nonce EXCEPT ![t] = cursor[s]]
        /\ UNCHANGED <<status, finalHash, receipt, attempts, audit, chainVars>>
        /\ pl' = [pl EXCEPT ![s] = p]
    BY <1>3, <2>1 DEF AssignNonceAndMarkPending, Goto, AssignNonce
  <2>4. /\ cursor \in [Senders -> Nat \cup {NULL}]
        /\ nonce \in [TxIds -> Nat \cup {NULL}]
    BY DEF IndInv, TypeOK, RepoTypeOK
  <2>5. cursor[s] \in Nat /\ cursor[s] + 1 \in Nat
    BY <2>3, <2>4, DomainAssumption
  <2>6. /\ cursor' \in [Senders -> Nat \cup {NULL}]
        /\ nonce' \in [TxIds -> Nat \cup {NULL}]
    BY <2>3, <2>4, <2>5
  <2>7. RepoTypeOK'
    BY <2>3, <2>6 DEF IndInv, TypeOK, RepoTypeOK
  <2>8. nonce'[t] \in Nat /\ \A u \in TxIds \ {t} : nonce'[u] = nonce[u]
    BY <2>3, <2>4, <2>5
  <2>9. ~ HandedOver(t) /\ ~ HandedOver(t)'
    BY <1>1, <2>3 DEF HandedOver
  <2> QED
    BY <1>1, <2>2, <2>3, <2>7, <2>8, <2>9, SameAttempts, PipelineWrites
<1> QED
  BY <1>1, <1>2, <1>3 DEF AssignNonce

(* The first attempt carries the nonce just assigned; no other has been    *)
(* stored for the row, or the INSERT would fail.                           *)
LEMMA BuildAndStoreInv ==
  ASSUME IndInv, NEW s \in Senders, phase = "up", BuildAndStore(s),
         UNCHANGED <<rp, sd, procVars>>
  PROVE  IndInv'
<1>1. PICK t \in TxIds : /\ t = pl[s].tx /\ SenderOf[t] = s
                         /\ status[t] = "PENDING" /\ pl[s] \in PipelineState
                         /\ nonce[t] \in Nat
  BY RowInHand DEF BuildAndStore
<1>2. pl[s].pc = "build" /\ UNCHANGED chainVars /\ ~ HandedOver(t)
  BY <1>1 DEF BuildAndStore, HandedOver
<1>3. CASE FailTx(s, t)
  <2>1. attempts' = attempts
    BY <1>3 DEF FailTx, MarkFailed
  <2> QED
    BY <1>1, <1>2, <1>3, <2>1, SameAttempts, FailTxInv
<1>4. CASE Goto(s, Idle) /\ UNCHANGED repoVars
  <2>1. RepoTypeOK' /\ ~ HandedOver(t)'
    BY <1>2, <1>4 DEF repoVars, IndInv, TypeOK, RepoTypeOK, HandedOver
  <2>2. pl' = [pl EXCEPT ![s] = Idle]
    BY <1>4 DEF Goto
  <2> QED
    BY <1>1, <1>2, <1>4, <2>1, <2>2, IdleState, SameAttempts, PipelineWrites
    DEF repoVars
<1>5. ASSUME NEW g \in InitialGas, NEW h, h = Build(s, t, g),
             CreateAttempt(t, 1, h),
             Goto(s, [pl[s] EXCEPT !.pc = "send", !.hash = h]),
             UNCHANGED audit
      PROVE  IndInv'
  <2>1. h \in SignedTx /\ h.from = SenderOf[t] /\ h.nonce = nonce[t]
    <3>1. g \in Nat /\ PayloadOf[t] \in Payloads
      BY DomainAssumption, PipelineAssumption
    <3> QED
      BY <1>1, <1>5, <3>1 DEF Build, SignedTx
  <2>2. Hashes(t) = {} /\ Len(attempts[t]) = 0
    BY <1>5, NoAttempts DEF CreateAttempt, IndInv, TypeOK
  <2>3. AttemptsUse(t, nonce[t]) /\ Len(attempts[t]) <= MaxGasBumps
    BY <2>2, DetectorAssumption DEF AttemptsUse
  <2>4. /\ (RepoTypeOK /\ ChainTypeOK /\ MinedOncePerNonce /\ BroadcastIsRecorded)'
        /\ (AttemptsShareNonce /\ BumpsBounded)'
        /\ Signed(t)' /\ h \in Hashes(t)' /\ Hashes(t) \subseteq Hashes(t)'
    BY <1>2, <1>5, <2>1, <2>3, AddAttempt
  <2>5. PICK p : p = [pl[s] EXCEPT !.pc = "send", !.hash = h]
    OBVIOUS
  <2>6. p \in PipelineState /\ p.tx = t /\ p.pc = "send" /\ p.hash = h
    BY <1>1, <2>1, <2>5 DEF PipelineState, PipelinePcs
  <2>7. /\ UNCHANGED <<status, nonce, finalHash>>
        /\ \A u \in TxIds \ {t} : attempts'[u] = attempts[u]
    BY <1>5 DEF CreateAttempt, IndInv, TypeOK, RepoTypeOK
  <2>8. pl' = [pl EXCEPT ![s] = p]
    BY <1>5, <2>5 DEF Goto
  <2>9. ~ HandedOver(t)'
    BY <1>2, <2>7 DEF HandedOver
  <2> QED
    BY <1>1, <1>2, <2>4, <2>6, <2>7, <2>8, <2>9, PipelineWrites
<1> QED
  BY <1>1, <1>3, <1>4, <1>5 DEF BuildAndStore

(* What is broadcast is an attempt of the row, whatever the call returns. *)
LEMMA SendInv ==
  ASSUME IndInv, NEW s \in Senders, phase = "up", Send(s),
         UNCHANGED <<rp, sd, procVars>>
  PROVE  IndInv'
<1>1. PICK t \in TxIds : /\ t = pl[s].tx /\ SenderOf[t] = s
                         /\ status[t] = "PENDING" /\ pl[s] \in PipelineState
                         /\ Signed(t) /\ pl[s].hash \in Hashes(t)
  BY RowInHand DEF Send
<1>2. /\ pl[s].pc = "send" /\ ~ HandedOver(t)
      /\ SendOk(pl[s].hash) \/ SendErr(pl[s].hash)
  BY <1>1 DEF Send, HandedOver
<1>4. ASSUME NEW p \in PipelineState, p.tx = t, p.hash = pl[s].hash,
             p.pc \in {"send", "fail", "submit"}, Goto(s, p), UNCHANGED repoVars
      PROVE  IndInv'
  <2>1. (ChainTypeOK /\ MinedOncePerNonce /\ BroadcastIsRecorded)'
    BY <1>1, <1>2, <1>4, SendKeeps DEF repoVars
  <2>2. RepoTypeOK' /\ ~ HandedOver(t)' /\ (AttemptsShareNonce /\ BumpsBounded)'
    <3>1. RepoTypeOK' /\ ~ HandedOver(t)'
      BY <1>2, <1>4 DEF repoVars, IndInv, TypeOK, RepoTypeOK, HandedOver
    <3>2. \A u \in TxIds : Hashes(u)' = Hashes(u)
      BY <1>4 DEF repoVars, Hashes
    <3> QED
      BY <1>4, <3>1, <3>2 DEF repoVars, IndInv, AttemptsShareNonce, BumpsBounded
  <2>3. Signed(t)' /\ p.hash \in Hashes(t)' /\ status'[t] = "PENDING"
    BY <1>1, <1>4 DEF repoVars, Signed, AttemptsUse, Hashes
  <2>4. pl' = [pl EXCEPT ![s] = p]
    BY <1>4 DEF Goto
  <2>5. UNCHANGED <<status, nonce, finalHash, attempts>> /\ Hashes(t)' = Hashes(t)
    BY <1>4 DEF repoVars, Hashes
  <2> QED
    BY <1>1, <1>2, <1>4, <2>1, <2>2, <2>3, <2>4, <2>5, PipelineWrites
<1>5. CASE Goto(s, [pl[s] EXCEPT !.pc = "submit"]) /\ UNCHANGED repoVars
  <2>1. PICK p : p = [pl[s] EXCEPT !.pc = "submit"]
    OBVIOUS
  <2>2. p \in PipelineState /\ p.tx = t /\ p.hash = pl[s].hash /\ p.pc = "submit"
    BY <1>1, <2>1 DEF PipelineState, PipelinePcs
  <2> QED
    BY <1>4, <1>5, <2>1, <2>2
<1>6. ASSUME NEW pc \in {"send", "fail"},
             Goto(s, [pl[s] EXCEPT !.tries = pl[s].tries + 1, !.pc = pc]),
             UNCHANGED repoVars
      PROVE  IndInv'
  <2>1. PICK p : p = [pl[s] EXCEPT !.tries = pl[s].tries + 1, !.pc = pc]
    OBVIOUS
  <2>2. pl[s].tries + 1 \in Nat /\ pc \in PipelinePcs
    BY <1>1 DEF PipelineState, PipelinePcs
  <2>3. p \in PipelineState /\ p.tx = t /\ p.hash = pl[s].hash /\ p.pc = pc
    BY <1>1, <2>1, <2>2 DEF PipelineState
  <2> QED
    BY <1>4, <1>6, <2>1, <2>3
<1> QED
  BY <1>5, <1>6 DEF Send

(* Retries are exhausted: the row is failed, whatever is in the pools. *)
LEMMA FailBroadcastInv ==
  ASSUME IndInv, NEW s \in Senders, phase = "up", FailBroadcast(s),
         UNCHANGED <<rp, sd, procVars>>
  PROVE  IndInv'
<1>1. PICK t \in TxIds : t = pl[s].tx
  BY RowInHand DEF FailBroadcast
<1>2. FailTx(s, t) /\ UNCHANGED chainVars /\ pl[s].pc # "idle"
  BY <1>1 DEF FailBroadcast
<1>3. attempts' = attempts
  BY <1>2 DEF FailTx, MarkFailed
<1> QED
  BY <1>1, <1>2, <1>3, SameAttempts, FailTxInv

(* MarkSubmitted hands the row over with a hash of one of its attempts. *)
LEMMA SubmitInv ==
  ASSUME IndInv, NEW s \in Senders, phase = "up", Submit(s),
         UNCHANGED <<rp, sd, procVars>>
  PROVE  IndInv'
<1>1. PICK t \in TxIds : /\ t = pl[s].tx /\ SenderOf[t] = s
                         /\ status[t] = "PENDING" /\ Signed(t)
                         /\ pl[s].hash \in SignedTx
  BY RowInHand DEF Submit
<1>2. PICK h \in SignedTx : h = pl[s].hash
  BY <1>1
<1>3. /\ pl[s].pc = "submit" /\ ~ HandedOver(t) /\ UNCHANGED chainVars
      /\ pl' = [pl EXCEPT ![s] = Idle]
  BY <1>1 DEF Submit, HandedOver, Goto
<1>4. CASE UNCHANGED repoVars
  <2>1. RepoTypeOK' /\ ~ HandedOver(t)'
    BY <1>3, <1>4 DEF repoVars, IndInv, TypeOK, RepoTypeOK, HandedOver
  <2> QED
    BY <1>1, <1>3, <1>4, <2>1, IdleState, SameAttempts, PipelineWrites
    DEF repoVars
<1>5. CASE /\ MarkSubmitted(t, h)
           /\ LogStateTransition(t, "PENDING", "SUBMITTED")
  <2>1. audit' \in [TxIds -> (Statuses \cup {NULL}) \X (Statuses \cup {NULL})]
    BY <1>5, LogType DEF Statuses
  <2>2. RepoTypeOK'
    BY <1>5, <2>1 DEF MarkSubmitted, IndInv, TypeOK, RepoTypeOK, Statuses
  <2>3. /\ UNCHANGED <<nonce, attempts>>
        /\ status'[t] = "SUBMITTED" /\ finalHash'[t] = h
        /\ \A u \in TxIds \ {t} : status'[u] = status[u]
                                   /\ finalHash'[u] = finalHash[u]
    BY <1>5 DEF MarkSubmitted, IndInv, TypeOK, RepoTypeOK
  <2>4. WasSubmitted(t)'
    BY <1>1, <2>3, DomainAssumption DEF WasSubmitted, HandedOver, Signed,
                                        AttemptsUse, Hashes, Statuses
  <2> QED
    BY <1>1, <1>3, <2>2, <2>3, <2>4, IdleState, SameAttempts, PipelineWrites
<1> QED
  BY <1>1, <1>2, <1>4, <1>5 DEF Submit

(* Every step of a pipeline preserves the invariant. *)
LEMMA PipelineStepInv ==
  ASSUME IndInv, NEW s \in Senders, RunPipeline(s)
  PROVE  IndInv'
  BY ClaimInv, AssignNonceInv, BuildAndStoreInv, SendInv, FailBroadcastInv,
     SubmitInv
  DEF RunPipeline, PipelineStep

-----------------------------------------------------------------------------
(* Clients and the manager *)

(* A new row is nobody's yet. *)
LEMMA CreateTransferInv ==
  ASSUME IndInv, NEW t \in TxIds, CreateTransfer(t)
  PROVE  IndInv'
<1>1. /\ status[t] = NULL /\ status' = [status EXCEPT ![t] = "QUEUED"]
      /\ LogStateTransition(t, NULL, "QUEUED")
      /\ UNCHANGED <<nonce, finalHash, receipt, attempts, cursor>>
      /\ UNCHANGED <<chainVars, memory, procVars>>
  BY DEF CreateTransfer, CreateTransaction
<1>2. audit' \in [TxIds -> (Statuses \cup {NULL}) \X (Statuses \cup {NULL})]
  BY <1>1, LogType DEF Statuses
<1>3. RepoTypeOK'
  BY <1>1, <1>2 DEF IndInv, TypeOK, RepoTypeOK, Statuses
<1>4. /\ status'[t] = "QUEUED" /\ \A u \in TxIds \ {t} : status'[u] = status[u]
  BY <1>1 DEF IndInv, TypeOK, RepoTypeOK
<1>5. \A u \in TxIds : Hashes(u)' = Hashes(u)
  BY <1>1 DEF Hashes
<1>6. \A u \in TxIds : /\ status[u] = "PENDING" => status'[u] = "PENDING"
                       /\ Signed(u) => Signed(u)'
                       /\ WasSubmitted(u) => WasSubmitted(u)'
  BY <1>1, <1>4, <1>5, DomainAssumption
  DEF Signed, AttemptsUse, WasSubmitted, HandedOver, Statuses
<1>7. (AttemptsShareNonce /\ BumpsBounded)'
      /\ (ChainTypeOK /\ MinedOncePerNonce /\ BroadcastIsRecorded)'
  BY <1>1, SameAttempts
<1>8. SubmittedRows'
  BY <1>4, <1>6 DEF IndInv, RowsConsistent, SubmittedRows
<1>9. PipelineTypeOK' /\ PollerTypeOK' /\ DetectorTypeOK' /\ ManagerTypeOK'
  BY <1>1 DEF memory, procVars, IndInv, TypeOK, PipelineTypeOK, PollerTypeOK,
              DetectorTypeOK, ManagerTypeOK
<1>10. PipelineRows'
  <2> SUFFICES ASSUME NEW q \in Senders PROVE PipelineRow(q)'
    BY DEF PipelineRows
  <2>1. PipelineRow(q) /\ UNCHANGED <<pl, phase>>
    BY <1>1 DEF memory, procVars, IndInv, RowsConsistent, PipelineRows
  <2> QED
    BY <1>1, <1>5, <1>6, <2>1 DEF PipelineRow
<1>11. PollerRows'
  BY <1>1, <1>5, <1>6, PollerStays DEF memory
<1>12. DetectorRows'
  <2>1. \A x \in sd.list : x.tx \in TxIds /\ Current(x)' = Current(x)
    BY <1>1 DEF memory, IndInv, TypeOK, DetectorTypeOK, DetectorState, Stuck, Current
  <2> QED
    BY <1>1, <1>5, <1>6, <2>1 DEF memory, IndInv, RowsConsistent, DetectorRows
<1> QED
  BY <1>3, <1>7, <1>8, <1>9, <1>10, <1>11, <1>12 DEF IndInv, TypeOK, RowsConsistent

(* Crash recovery takes the nonce from PENDING rows only: no goroutine     *)
(* runs, and no row the network has seen as SUBMITTED is touched.          *)
LEMMA StartRecoveryInv ==
  ASSUME IndInv, StartRecovery
  PROVE  IndInv'
<1>1. /\ phase = "down" /\ ResetPendingToQueued
      /\ phase' = "init" /\ uninit' = Senders
      /\ UNCHANGED <<chainVars, memory, pending, crashes>>
  BY DEF StartRecovery
<1>2. RepoTypeOK'
  BY <1>1 DEF ResetPendingToQueued, IndInv, TypeOK, RepoTypeOK, Statuses
<1>3. \A u \in TxIds : /\ status[u] # "PENDING" =>
                             status'[u] = status[u] /\ nonce'[u] = nonce[u]
                       /\ status[u] = "PENDING" => status'[u] = "QUEUED"
                       /\ finalHash'[u] = finalHash[u]
                       /\ attempts'[u] = attempts[u]
  BY <1>1 DEF ResetPendingToQueued
<1>4. \A u \in TxIds : Hashes(u)' = Hashes(u)
  BY <1>3 DEF Hashes
<1>5. \A u \in TxIds :
        WasSubmitted(u) => WasSubmitted(u)' /\ nonce'[u] = nonce[u]
  BY <1>3, <1>4 DEF WasSubmitted, HandedOver, Signed, AttemptsUse
<1>6. (AttemptsShareNonce /\ BumpsBounded)'
      /\ (ChainTypeOK /\ MinedOncePerNonce /\ BroadcastIsRecorded)'
  BY <1>1, SameAttempts DEF ResetPendingToQueued
<1>7. SubmittedRows'
  BY <1>3, <1>5 DEF IndInv, RowsConsistent, SubmittedRows
<1>8. PipelineTypeOK' /\ PollerTypeOK' /\ DetectorTypeOK' /\ ManagerTypeOK'
  BY <1>1 DEF memory, IndInv, TypeOK, PipelineTypeOK, PollerTypeOK,
              DetectorTypeOK, ManagerTypeOK
<1>9. PipelineRows'
  BY <1>1 DEF memory, IndInv, RowsConsistent, PipelineRows, PipelineRow
<1>10. PollerRows'
  BY <1>1, <1>4, <1>5, PollerStays DEF memory
<1>11. DetectorRows'
  <2>1. \A x \in sd.list : x.tx \in TxIds /\ Current(x)' = Current(x)
    BY <1>1 DEF memory, IndInv, TypeOK, DetectorTypeOK, DetectorState, Stuck, Current
  <2> QED
    BY <1>1, <1>4, <1>5, <2>1 DEF memory, IndInv, RowsConsistent, DetectorRows
<1> QED
  BY <1>2, <1>6, <1>7, <1>8, <1>9, <1>10, <1>11 DEF IndInv, TypeOK, RowsConsistent

(* A step of the start-up that writes no row and moves no goroutine. *)
LEMMA PhaseFrame ==
  ASSUME IndInv, UNCHANGED <<repoVars, chainVars, memory, phase>>, ManagerTypeOK'
  PROVE  IndInv'
<1>1. \A t \in TxIds : /\ Hashes(t)' = Hashes(t)
                        /\ Signed(t)' = Signed(t)
                        /\ WasSubmitted(t)' = WasSubmitted(t)
  BY DEF repoVars, Hashes, Signed, AttemptsUse, WasSubmitted, HandedOver
<1>2. (ChainTypeOK /\ MinedOncePerNonce /\ BroadcastIsRecorded)'
  BY SameAttempts DEF repoVars
<1>3. (PipelineTypeOK /\ PipelineRows)'
  BY <1>1 DEF memory, repoVars, IndInv, TypeOK, PipelineTypeOK, RowsConsistent,
              PipelineRows, PipelineRow
<1>4. (PollerTypeOK /\ PollerRows)'
  BY <1>1, PollerStays DEF memory
<1>5. (DetectorTypeOK /\ DetectorRows)'
  <2>1. \A x \in sd.list : x.tx \in TxIds
    BY DEF IndInv, TypeOK, DetectorTypeOK, DetectorState, Stuck
  <2> QED
    BY <1>1, <2>1 DEF memory, repoVars, IndInv, TypeOK, DetectorTypeOK,
                      RowsConsistent, DetectorRows, Current
<1> QED
  BY <1>2, <1>3, <1>4, <1>5, MemoryFrame

(* The nonce a node answers with is a number. *)
LEMMA PendingNonceType ==
  ASSUME ChainTypeOK, NEW s \in Senders
  PROVE  PendingNonceAnswer(s) \subseteq Nat
<1>1. UsedNonces(s) \subseteq Nat
  BY DEF UsedNonces, ChainTypeOK, MinedTx, SignedTx
<1> QED
  BY <1>1 DEF PendingNonceAnswer

(* The answer is kept, and nothing else happens. *)
LEMMA AskPendingNonceInv ==
  ASSUME IndInv, NEW s \in Senders, AskPendingNonce(s)
  PROVE  IndInv'
<1>1. PICK n \in PendingNonceAnswer(s) : pending' = [pending EXCEPT ![s] = n]
  BY DEF AskPendingNonce
<1>2. n \in Nat
  BY PendingNonceType DEF IndInv, TypeOK
<1>3. UNCHANGED <<repoVars, chainVars, memory, phase, uninit, crashes>>
  BY DEF AskPendingNonce
<1>4. ManagerTypeOK'
  BY <1>1, <1>2, <1>3 DEF IndInv, TypeOK, ManagerTypeOK
<1> QED
  BY <1>3, <1>4, PhaseFrame

(* The cursor moves, forwards or back; no row depends on it. *)
LEMMA InitNonceForSenderInv ==
  ASSUME IndInv, NEW s \in Senders, InitNonceForSender(s)
  PROVE  IndInv'
<1>1. /\ phase = "init" /\ UNCHANGED <<status, nonce, finalHash, receipt>>
      /\ UNCHANGED <<attempts, audit, chainVars, memory, phase, crashes>>
      /\ uninit' = uninit \ {s} /\ pending' = NothingAsked
  BY DEF InitNonceForSender, rows
<1>2. PICK n \in Nat :
        IF cursor[s] = NULL THEN InitNonceCursor(s, n) ELSE SetNonceCursor(s, n)
  BY DEF InitNonceForSender, StartNonce, IndInv, TypeOK, ManagerTypeOK
<1>3. n \in Nat /\ cursor \in [Senders -> Nat \cup {NULL}]
  BY DEF IndInv, TypeOK, RepoTypeOK
<1>4. cursor' \in [Senders -> Nat \cup {NULL}]
  BY <1>2, <1>3 DEF InitNonceCursor, SetNonceCursor
<1>5. RepoTypeOK'
  BY <1>1, <1>4 DEF IndInv, TypeOK, RepoTypeOK
<1>6. \A u \in TxIds : /\ Hashes(u)' = Hashes(u)
                       /\ WasSubmitted(u)' = WasSubmitted(u)
  BY <1>1 DEF Hashes, WasSubmitted, HandedOver, Signed, AttemptsUse
<1>7. (AttemptsShareNonce /\ BumpsBounded)'
      /\ (ChainTypeOK /\ MinedOncePerNonce /\ BroadcastIsRecorded)'
  BY <1>1, SameAttempts
<1>8. PipelineTypeOK' /\ PollerTypeOK' /\ DetectorTypeOK' /\ ManagerTypeOK'
  BY <1>1 DEF memory, IndInv, TypeOK, PipelineTypeOK, PollerTypeOK,
              DetectorTypeOK, ManagerTypeOK, NothingAsked
<1>9. SubmittedRows' /\ PipelineRows'
  BY <1>1, <1>6 DEF memory, IndInv, RowsConsistent, SubmittedRows, PipelineRows,
                    PipelineRow
<1>10. PollerRows'
  BY <1>1, <1>6, PollerStays DEF memory
<1>11. DetectorRows'
  <2>1. \A x \in sd.list : x.tx \in TxIds /\ Current(x)' = Current(x)
    BY <1>1 DEF memory, IndInv, TypeOK, DetectorTypeOK, DetectorState, Stuck, Current
  <2> QED
    BY <1>1, <1>6, <2>1 DEF memory, IndInv, RowsConsistent, DetectorRows
<1> QED
  BY <1>5, <1>7, <1>8, <1>9, <1>10, <1>11 DEF IndInv, TypeOK, RowsConsistent

(* Start and Crash: the goroutines begin, or are gone, with empty hands. *)
LEMMA EmptyHands ==
  ASSUME IndInv, UNCHANGED <<repoVars, chainVars>>, ManagerTypeOK',
         pl' = [s \in Senders |-> Idle], rp' = NewPoll, sd' = NoCheck
  PROVE  IndInv'
<1>1. (ChainTypeOK /\ MinedOncePerNonce /\ BroadcastIsRecorded)'
  BY SameAttempts DEF repoVars
<1>2. (PipelineTypeOK /\ PipelineRows)'
  BY IdleState DEF PipelineTypeOK, PipelineRows, PipelineRow
<1>3. (PollerTypeOK /\ PollerRows)'
  BY DEF PollerTypeOK, PollerRows, NewPoll, PollerState, PollerPcs
<1>4. (DetectorTypeOK /\ DetectorRows)'
  BY DEF DetectorTypeOK, DetectorRows, NoCheck, DetectorState, DetectorPcs
<1> QED
  BY <1>1, <1>2, <1>3, <1>4, MemoryFrame

(* Recovery, start and crash preserve the invariant. *)
LEMMA ManagerStepInv == IndInv /\ (ManagerStep \/ Crash) => IndInv'
<1> SUFFICES ASSUME IndInv, ManagerStep \/ Crash PROVE IndInv'
  OBVIOUS
<1>1. CASE Start
  <2>1. ManagerTypeOK'
    BY <1>1 DEF Start, IndInv, TypeOK, ManagerTypeOK
  <2> QED
    BY <1>1, <2>1, EmptyHands DEF Start
<1>2. CASE Crash
  <2>1. ManagerTypeOK'
    BY <1>2 DEF Crash, IndInv, TypeOK, ManagerTypeOK, NothingAsked
  <2> QED
    BY <1>2, <2>1, EmptyHands DEF Crash
<1> QED
  BY <1>1, <1>2, StartRecoveryInv, AskPendingNonceInv, InitNonceForSenderInv
  DEF ManagerStep

-----------------------------------------------------------------------------
(* The theorems *)

(* Nothing moves. *)
LEMMA StutterInv ==
  ASSUME IndInv, UNCHANGED vars
  PROVE  IndInv'
<1>1. UNCHANGED <<repoVars, memory, procVars, chainVars>>
  BY DEF vars
<1> QED
  BY <1>1, OtherMemory, MemoryFrame DEF memory

(* Every step of the service and of the chain preserves the invariant. *)
LEMMA NextInv == IndInv /\ [Next]_vars => IndInv'
  BY CreateTransferInv, PipelineStepInv, PollerStepInv, DetectorStepInv,
     ChainStepInv, ManagerStepInv, StutterInv DEF Next

(* The rows, the chain and what the goroutines hold in memory are          *)
(* consistent in every state, through any number of crashes, reorgs and    *)
(* failed calls.                                                           *)
THEOREM Invariance == Spec => []IndInv
  BY InitInv, NextInv, PTL DEF Spec

(* Every variable has its type. *)
THEOREM TypeCorrect == Spec => []TypeOK
<1>1. IndInv => TypeOK
  BY DEF IndInv
<1> QED
  BY <1>1, Invariance, PTL

(* No double-sends: the chain never holds two of the transactions signed   *)
(* for a row, since all of them carry one nonce.                           *)
THEOREM NoDoubleSends == Spec => []NoDoubleSend
<1>1. IndInv => NoDoubleSend
  <2> SUFFICES ASSUME IndInv, NEW t \in TxIds, NEW m \in OnChain(t),
                      NEW l \in OnChain(t)
               PROVE  m = l
    BY DEF NoDoubleSend
  <2>1. m \in mined /\ l \in mined /\ m.tx \in Hashes(t) /\ l.tx \in Hashes(t)
    BY DEF OnChain
  <2>2. m.tx.from = l.tx.from /\ m.tx.nonce = l.tx.nonce
    BY <2>1 DEF IndInv, AttemptsShareNonce
  <2> QED
    BY <2>1, <2>2 DEF IndInv, MinedOncePerNonce
<1> QED
  BY <1>1, Invariance, PTL

(* Whatever is in a pool or on the chain is an attempt of some row. *)
THEOREM BroadcastsRecorded == Spec => []BroadcastIsRecorded
<1>1. IndInv => BroadcastIsRecorded
  BY DEF IndInv
<1> QED
  BY <1>1, Invariance, PTL

(* bumpGas never indexes an empty list of attempts, nor signs with a nonce *)
(* other than that of the attempts it replaces.                            *)
THEOREM BumpsReplace == Spec => []BumpHasAttempt
<1>1. IndInv => BumpHasAttempt
  BY DEF IndInv, RowsConsistent, DetectorRows, WasSubmitted, Signed, AttemptsUse,
         BumpHasAttempt
<1> QED
  BY <1>1, Invariance, PTL

(* No row ever has more than MaxGasBumps replacements. *)
THEOREM BumpsAreBounded == Spec => []BumpsBounded
<1>1. IndInv => BumpsBounded
  BY DEF IndInv
<1> QED
  BY <1>1, Invariance, PTL

(* The status column is left alone, or an existing row gets a status that  *)
(* is not QUEUED or PENDING, or the row had not been handed over.          *)
WritesStatus ==
    \/ status' = status
    \/ \E t \in TxIds, st \in Statuses :
         /\ status[t] # NULL
         /\ status' = [status EXCEPT ![t] = st]
         /\ st \notin {"QUEUED", "PENDING"} \/ ~ HandedOver(t)

(* A pipeline writes the status of the PENDING row it holds only. *)
LEMMA PipelineWritesStatus ==
  ASSUME IndInv, NEW s \in Senders, PipelineStep(s)
  PROVE  WritesStatus
<1>1. CASE Claim(s)
  <2>1. PICK t \in TxIds : ClaimNextQueued(s, t)
    BY <1>1 DEF Claim
  <2>2. /\ status' = [status EXCEPT ![t] = "PENDING"] /\ ~ HandedOver(t)
        /\ "PENDING" \in Statuses /\ status[t] # NULL
    BY <2>1, DomainAssumption DEF ClaimNextQueued, NextQueued, WithStatus, HandedOver, Statuses
  <2> QED
    BY <2>2 DEF WritesStatus
<1>2. ASSUME FailTx(s, pl[s].tx), pl[s].pc # "idle" PROVE WritesStatus
  <2>1. /\ pl[s].tx \in TxIds /\ status[pl[s].tx] # NULL /\ "FAILED" \in Statuses
        /\ status' = status \/ status' = [status EXCEPT ![pl[s].tx] = "FAILED"]
    BY <1>2, RowInHand, DomainAssumption DEF FailTx, MarkFailed, rows, Statuses
  <2> QED
    BY <2>1 DEF WritesStatus
<1>3. CASE AssignNonce(s) \/ BuildAndStore(s) \/ Send(s) \/ FailBroadcast(s)
  <2>1. status' = status \/ (FailTx(s, pl[s].tx) /\ pl[s].pc # "idle")
    BY <1>3 DEF AssignNonce, BuildAndStore, Send, FailBroadcast,
                AssignNonceAndMarkPending, CreateAttempt, repoVars
  <2> QED
    BY <1>2, <2>1 DEF WritesStatus
<1>4. CASE Submit(s)
  <2>1. /\ pl[s].tx \in TxIds /\ status[pl[s].tx] # NULL /\ "SUBMITTED" \in Statuses
        /\ status' = status \/ status' = [status EXCEPT ![pl[s].tx] = "SUBMITTED"]
    BY <1>4, RowInHand, DomainAssumption DEF Submit, MarkSubmitted, repoVars, Statuses
  <2> QED
    BY <2>1 DEF WritesStatus
<1> QED
  BY <1>1, <1>3, <1>4 DEF PipelineStep

(* The poller writes no QUEUED or PENDING. *)
LEMMA PollerWritesStatus ==
  ASSUME IndInv, PollerStep
  PROVE  WritesStatus
<1>1. \A x \in rp.page : x.tx \in TxIds /\ status[x.tx] # NULL
  BY DomainAssumption DEF IndInv, TypeOK, PollerTypeOK, PollerState, Seen, RowsConsistent,
                          PollerRows, WasSubmitted, HandedOver
<1>2. ASSUME NEW x \in rp.page, ApplySubmitted(x) \/ ApplyIncluded(x)
      PROVE  WritesStatus
  <2>1. \/ status' = status
        \/ \E st \in {"SUBMITTED", "INCLUDED", "CONFIRMED", "REVERTED"} :
              status' = [status EXCEPT ![x.tx] = st]
    BY <1>2 DEF ApplySubmitted, ApplyIncluded, Record, MarkReverted, MarkIncluded,
                MarkConfirmed, MarkWithReceipt, RevertToSubmitted, repoVars
  <2> QED
    BY <1>1, <2>1 DEF WritesStatus, Statuses
<1>3. CASE FetchSubmitted \/ FetchSubmittedReceipts \/ ReadBlockNumber
             \/ FetchIncluded \/ FetchIncludedReceipts \/ ReadLatestAttempt
             \/ RebroadcastAfterReorg
  BY <1>3 DEF WritesStatus, FetchSubmitted, FetchSubmittedReceipts, ReadBlockNumber,
              FetchIncluded, FetchIncludedReceipts, ReadLatestAttempt,
              RebroadcastAfterReorg, FetchPage, repoVars
<1> QED
  BY <1>2, <1>3 DEF PollerStep

(* Neither does the detector. *)
LEMMA DetectorWritesStatus ==
  ASSUME IndInv, DetectorStep
  PROVE  WritesStatus
<1>1. \A x \in sd.list : x.tx \in TxIds /\ status[x.tx] # NULL
  BY DomainAssumption DEF IndInv, TypeOK, DetectorTypeOK, DetectorState, Stuck, RowsConsistent,
                          DetectorRows, WasSubmitted, HandedOver
<1>2. CASE FetchStuck
  BY <1>2 DEF FetchStuck, repoVars, WritesStatus
<1>3. ASSUME NEW x \in sd.list, \/ Skip(x) \/ GiveUp(x) \/ BumpGas(x)
                                \/ SendReplacement(x) \/ SubmitReplacement(x)
      PROVE  WritesStatus
  <2>1. \/ status' = status
        \/ \E st \in {"SUBMITTED", "FAILED"} : status' = [status EXCEPT ![x.tx] = st]
    BY <1>3 DEF Skip, GiveUp, BumpGas, SendReplacement, SubmitReplacement,
                MarkFailed, MarkSubmitted, CreateAttempt, rows, repoVars
  <2> QED
    BY <1>1, <2>1 DEF WritesStatus, Statuses
<1> QED
  BY <1>2, <1>3 DEF DetectorStep

(* What a step may do to the statuses. *)
LEMMA StatusStep ==
  ASSUME IndInv, [Next]_vars
  PROVE  WritesStatus \/ StartRecovery \/ \E u \in TxIds : CreateTransfer(u)
<1>1. ASSUME \/ RunChain \/ Start \/ Crash \/ UNCHANGED vars
             \/ \E s \in Senders : AskPendingNonce(s) \/ InitNonceForSender(s)
      PROVE  WritesStatus
  BY <1>1 DEF WritesStatus, RunChain, Start, Crash, AskPendingNonce,
              InitNonceForSender, vars, repoVars, rows
<1>2. ASSUME RunPoller \/ RunDetector \/ \E s \in Senders : RunPipeline(s)
      PROVE  WritesStatus
  BY <1>2, PipelineWritesStatus, PollerWritesStatus, DetectorWritesStatus
  DEF RunPoller, RunDetector, RunPipeline
<1> QED
  BY <1>1, <1>2 DEF Next, ManagerStep
=============================================================================

---------------------------- MODULE NonceProofs -----------------------------
(***************************************************************************)
(* Which nonces and which transactions a row has, for every value of the   *)
(* constants:                                                              *)
(*                                                                         *)
(* - TxSender implements AtMostOnce.  That the chain holds one transaction *)
(*   of a row follows from IndInv.  The rest is about single steps: a row  *)
(*   is accepted by CreateTransfer only (StatusStep), and a seal is set by *)
(*   the first attempt of a row and never changed, since attempts are only *)
(*   added (AttemptsStep) and share a nonce.                               *)
(* - Attempts and hashes belong to the row they are found by (Ownership).  *)
(* - As long as the process has not crashed, the nonces of a sender's rows *)
(*   are those below its cursor, each at one row, and a nonce that nothing *)
(*   was signed for is that of a FAILED row.  A crash ends this: the       *)
(*   cursor is set back to what some endpoint says, which may be below     *)
(*   nonces that rows still have.                                          *)
(***************************************************************************)
EXTENDS TxSenderProofs

(* A sequence that is not empty has a first element. *)
LEMMA FirstIndex ==
  ASSUME NEW n \in Nat, n # 0
  PROVE  1 \in 1..n
  OBVIOUS

(* The first of the attempts is one of their hashes. *)
LEMMA FirstHash ==
  ASSUME NEW as \in Seq(Attempt), as # <<>>
  PROVE  as[1].hash \in HashesOf(as) /\ as[1].hash.nonce \in Nat
<1>1. Len(as) \in Nat /\ DOMAIN as = 1..Len(as)
  BY LenProperties
<1>2. 1 \in 1..Len(as)
  <2>1. Len(as) # 0
    BY EmptySeq
  <2> QED
    BY <1>1, <2>1, FirstIndex
<1>3. as[1] \in Attempt
  BY <1>2, ElementOfSeq
<1> QED
  BY <1>1, <1>2, <1>3 DEF HashesOf, Attempt, SignedTx

(* The statements that write tx_attempts: markAttemptConfirmed changes     *)
(* statuses, CreateAttempt adds an attempt to an existing row.             *)
Settles ==
    \E t \in TxIds : \E h, done :
        attempts' = [attempts EXCEPT ![t] = Settled(attempts[t], h, done)]
Adds(t) ==
    /\ status[t] # NULL /\ status' = status
    /\ \E a :
          attempts' = [attempts EXCEPT ![t] = Append(attempts[t], a)]
WritesAttempts ==
    attempts' = attempts \/ Settles \/ \E t \in TxIds : Adds(t)

(* Appending keeps what there was. *)
LEMMA AppendKeeps ==
  ASSUME NEW as \in Seq(Attempt), NEW a
  PROVE  Append(as, a) # <<>> /\ HashesOf(as) \subseteq HashesOf(Append(as, a))
<1> DEFINE S == Attempt \cup {a}
           bs == Append(as, a)
<1>1. as \in Seq(S) /\ a \in S
  BY SeqMonotonic
<1> HIDE DEF S
<1>2. bs \in Seq(S)
  BY <1>1, AppendProperties
<1>3. bs # <<>> /\ Len(bs) = Len(as) + 1
  BY <1>1, AppendProperties
<1>4. \A i \in 1..Len(as) : bs[i] = as[i]
  BY <1>1, AppendProperties
<1>5. Len(as) \in Nat /\ DOMAIN as = 1..Len(as)
  BY LenProperties
<1>6. DOMAIN bs = 1..(Len(as) + 1)
  BY <1>2, <1>3, LenProperties
<1>7. DOMAIN as \subseteq DOMAIN bs
  BY <1>5, <1>6, NextInterval
<1> HIDE DEF bs
<1>8. HashesOf(as) \subseteq HashesOf(bs)
  BY <1>4, <1>5, <1>7 DEF HashesOf
<1> QED
  BY <1>3, <1>8 DEF bs

(* A pipeline stores a first attempt of the PENDING row it holds, or none. *)
LEMMA PipelineWritesAttempts ==
  ASSUME IndInv, NEW s \in Senders, PipelineStep(s)
  PROVE  WritesAttempts
<1>1. CASE BuildAndStore(s)
  <2>1. pl[s].pc # "idle"
    BY <1>1 DEF BuildAndStore
  <2>2. pl[s].tx \in TxIds /\ status[pl[s].tx] # NULL
    BY <2>1, RowInHand, DomainAssumption DEF Statuses
  <2>3. attempts' = attempts \/ \E h : CreateAttempt(pl[s].tx, 1, h)
    BY <1>1 DEF BuildAndStore, FailTx, MarkFailed, repoVars
  <2> QED
    BY <2>2, <2>3 DEF CreateAttempt, WritesAttempts, Adds
<1>2. CASE \/ Claim(s) \/ AssignNonce(s) \/ Send(s) \/ FailBroadcast(s)
           \/ Submit(s)
  BY <1>2 DEF Claim, AssignNonce, Send, FailBroadcast, Submit, ClaimNextQueued,
              FailTx, AssignNonceAndMarkPending, MarkFailed, MarkSubmitted,
              repoVars, WritesAttempts
<1> QED
  BY <1>1, <1>2 DEF PipelineStep

(* The poller settles the attempts of a row that it confirms. *)
LEMMA PollerWritesAttempts ==
  ASSUME IndInv, PollerStep
  PROVE  WritesAttempts
<1>1. \A x \in rp.page : x.tx \in TxIds
  BY DEF IndInv, TypeOK, PollerTypeOK, PollerState, Seen
<1>2. ASSUME NEW x \in rp.page, ApplySubmitted(x) \/ ApplyIncluded(x)
      PROVE  WritesAttempts
  <2>1. attempts' = attempts \/ MarkConfirmed(x.tx, x.hash, x.got)
    BY <1>2 DEF ApplySubmitted, ApplyIncluded, Record, MarkReverted, MarkIncluded,
                RevertToSubmitted, repoVars
  <2>2. ASSUME MarkConfirmed(x.tx, x.hash, x.got) PROVE Settles
    BY <1>1, <2>2 DEF MarkConfirmed, Settles
  <2> QED
    BY <2>1, <2>2 DEF WritesAttempts
<1>3. CASE FetchSubmitted \/ FetchSubmittedReceipts \/ ReadBlockNumber
             \/ FetchIncluded \/ FetchIncludedReceipts \/ ReadLatestAttempt
             \/ RebroadcastAfterReorg
  BY <1>3 DEF WritesAttempts, FetchSubmitted, FetchSubmittedReceipts, ReadBlockNumber,
              FetchIncluded, FetchIncludedReceipts, ReadLatestAttempt,
              RebroadcastAfterReorg,
              FetchPage, repoVars
<1> QED
  BY <1>2, <1>3 DEF PollerStep

(* The detector adds replacements to rows that were handed over. *)
LEMMA DetectorWritesAttempts ==
  ASSUME IndInv, DetectorStep
  PROVE  WritesAttempts
<1>1. \A x \in sd.list : x.tx \in TxIds /\ status[x.tx] # NULL
  BY DomainAssumption DEF IndInv, TypeOK, DetectorTypeOK, DetectorState, Stuck,
                          RowsConsistent, DetectorRows, WasSubmitted, HandedOver
<1>2. ASSUME NEW x \in sd.list, BumpGas(x) PROVE Adds(x.tx)
  BY <1>1, <1>2 DEF BumpGas, CreateAttempt, Adds
<1>3. ASSUME \/ FetchStuck
             \/ \E x \in sd.list : \/ Skip(x) \/ GiveUp(x)
                                   \/ SendReplacement(x) \/ SubmitReplacement(x)
      PROVE  attempts' = attempts
  BY <1>3 DEF FetchStuck, Skip, GiveUp, SendReplacement, SubmitReplacement,
              MarkFailed, MarkSubmitted, repoVars
<1> QED
  BY <1>1, <1>2, <1>3 DEF DetectorStep, WritesAttempts

(* What a step may do to the attempts. *)
LEMMA AttemptsStep ==
  ASSUME IndInv, [Next]_vars
  PROVE  WritesAttempts
<1>1. ASSUME \/ RunChain \/ Start \/ Crash \/ UNCHANGED vars \/ StartRecovery
             \/ \E s \in Senders : AskPendingNonce(s) \/ InitNonceForSender(s)
             \/ \E t \in TxIds : CreateTransfer(t)
      PROVE  WritesAttempts
  BY <1>1 DEF WritesAttempts, RunChain, Start, Crash, StartRecovery,
              ResetPendingToQueued, AskPendingNonce, InitNonceForSender, CreateTransfer,
              CreateTransaction, vars, repoVars, rows
<1>2. ASSUME RunPoller \/ RunDetector \/ \E s \in Senders : RunPipeline(s)
      PROVE  WritesAttempts
  BY <1>2, PipelineWritesAttempts, PollerWritesAttempts, DetectorWritesAttempts
  DEF RunPoller, RunDetector, RunPipeline
<1> QED
  BY <1>1, <1>2 DEF Next, ManagerStep

-----------------------------------------------------------------------------
(* Seals *)

(* No attempt of a row is lost. *)
LEMMA AttemptsGrow ==
  ASSUME IndInv, WritesAttempts, NEW t \in TxIds
  PROVE  /\ HashesOf(attempts[t]) \subseteq HashesOf(attempts'[t])
         /\ attempts[t] # <<>> => attempts'[t] # <<>>
<1>1. attempts \in [TxIds -> Seq(Attempt)] /\ attempts[t] \in Seq(Attempt)
  BY DEF IndInv, TypeOK, RepoTypeOK
<1>2. CASE attempts'[t] = attempts[t]
  BY <1>2
<1>3. ASSUME NEW h, NEW done, attempts'[t] = Settled(attempts[t], h, done)
      PROVE  /\ HashesOf(attempts[t]) \subseteq HashesOf(attempts'[t])
             /\ attempts[t] # <<>> => attempts'[t] # <<>>
  <2>1. /\ attempts'[t] \in Seq(Attempt) /\ Len(attempts'[t]) = Len(attempts[t])
        /\ HashesOf(attempts'[t]) = HashesOf(attempts[t])
    BY <1>1, <1>3, SettledHashes
  <2>2. attempts[t] # <<>> => attempts'[t] # <<>>
    BY <1>1, <2>1, EmptySeq
  <2> QED
    BY <2>1, <2>2
<1>4. ASSUME NEW a, attempts'[t] = Append(attempts[t], a)
      PROVE  /\ HashesOf(attempts[t]) \subseteq HashesOf(attempts'[t])
             /\ attempts[t] # <<>> => attempts'[t] # <<>>
  BY <1>1, <1>4, AppendKeeps
<1>5. \/ attempts'[t] = attempts[t]
      \/ \E h, done : attempts'[t] = Settled(attempts[t], h, done)
      \/ \E a : attempts'[t] = Append(attempts[t], a)
  <2>1. CASE attempts' = attempts
    BY <2>1
  <2>2. CASE Settles
    BY <1>1, <2>2 DEF Settles
  <2>3. ASSUME NEW u \in TxIds, Adds(u)
        PROVE  attempts'[t] = attempts[t]
                 \/ \E a : attempts'[t] = Append(attempts[t], a)
    BY <1>1, <2>3 DEF Adds
  <2> QED
    BY <2>1, <2>2, <2>3 DEF WritesAttempts
<1> QED
  BY <1>2, <1>3, <1>4, <1>5

(* A seal, once set, stays: the old first attempt and the new one are both *)
(* among the row's hashes, which share a nonce.                            *)
LEMMA SealStays ==
  ASSUME IndInv, IndInv', WritesAttempts, NEW t \in TxIds, attempts[t] # <<>>
  PROVE  SealOf(t)' = SealOf(t)
<1>1. attempts[t] \in Seq(Attempt) /\ attempts'[t] \in Seq(Attempt)
  BY DEF IndInv, TypeOK, RepoTypeOK
<1>2. attempts'[t] # <<>>
  BY AttemptsGrow
<1>3. attempts[t][1].hash \in HashesOf(attempts'[t])
  BY <1>1, FirstHash, AttemptsGrow
<1>4. attempts'[t][1].hash \in HashesOf(attempts'[t])
  BY <1>1, <1>2, FirstHash
<1>5. \A g, h \in HashesOf(attempts'[t]) : g.nonce = h.nonce
  BY DEF IndInv, AttemptsShareNonce, Hashes, HashesOf
<1> QED
  BY <1>2, <1>3, <1>4, <1>5 DEF SealOf

(* A step keeps all seals, or gives an accepted row without one its seal. *)
LEMMA SealStep ==
  ASSUME IndInv, IndInv', [Next]_vars
  PROVE  \/ \A t \in TxIds : SealOf(t)' = SealOf(t)
         \/ \E t \in TxIds :
              /\ status[t] # NULL /\ status' = status
              /\ SealOf(t) = NULL /\ SealOf(t)' \in Nat
              /\ \A u \in TxIds \ {t} : SealOf(u)' = SealOf(u)
<1>1. attempts \in [TxIds -> Seq(Attempt)] /\ attempts' \in [TxIds -> Seq(Attempt)]
  BY DEF IndInv, TypeOK, RepoTypeOK
<1>2. WritesAttempts
  BY AttemptsStep
<1>3. \A t \in TxIds : attempts[t] # <<>> => SealOf(t)' = SealOf(t)
  BY <1>2, SealStays
<1>4. \A t \in TxIds : attempts'[t] = attempts[t] => SealOf(t)' = SealOf(t)
  BY DEF SealOf
<1>5. CASE attempts' = attempts
  BY <1>4, <1>5
<1>6. ASSUME Settles PROVE \A t \in TxIds : SealOf(t)' = SealOf(t)
  <2>1. PICK u \in TxIds : \E h, done :
          attempts' = [attempts EXCEPT ![u] = Settled(attempts[u], h, done)]
    BY <1>6 DEF Settles
  <2>2. PICK h, done :
          attempts' = [attempts EXCEPT ![u] = Settled(attempts[u], h, done)]
    BY <2>1
  <2>3. \A t \in TxIds \ {u} : attempts'[t] = attempts[t]
    BY <1>1, <2>2
  <2>4. ASSUME attempts[u] = <<>> PROVE attempts'[u] = <<>>
    <3>1. attempts'[u] = Settled(attempts[u], h, done)
      BY <1>1, <2>2
    <3>2. Len(attempts'[u]) = Len(attempts[u]) /\ attempts'[u] \in Seq(Attempt)
      BY <1>1, <3>1, SettledHashes
    <3> QED
      BY <1>1, <2>4, <3>2, EmptySeq
  <2> QED
    BY <1>3, <1>4, <2>3, <2>4
<1>7. ASSUME NEW t \in TxIds, Adds(t)
      PROVE  \/ \A u \in TxIds : SealOf(u)' = SealOf(u)
             \/ /\ status[t] # NULL /\ status' = status
                /\ SealOf(t) = NULL /\ SealOf(t)' \in Nat
                /\ \A u \in TxIds \ {t} : SealOf(u)' = SealOf(u)
  <2>1. PICK a : attempts' = [attempts EXCEPT ![t] = Append(attempts[t], a)]
    BY <1>7 DEF Adds
  <2>2. /\ \A u \in TxIds \ {t} : attempts'[u] = attempts[u]
        /\ attempts'[t] = Append(attempts[t], a)
    BY <1>1, <2>1
  <2>3. attempts'[t] # <<>> /\ attempts'[t][1].hash.nonce \in Nat
    BY <1>1, <2>2, AppendKeeps, FirstHash
  <2>4. CASE attempts[t] # <<>>
    BY <1>3, <1>4, <2>2, <2>4
  <2>5. CASE attempts[t] = <<>>
    <3>1. SealOf(t) = NULL /\ SealOf(t)' \in Nat
      BY <2>3, <2>5 DEF SealOf
    <3> QED
      BY <1>4, <1>7, <2>2, <3>1 DEF Adds
  <2> QED
    BY <2>4, <2>5
<1> QED
  BY <1>2, <1>5, <1>6, <1>7 DEF WritesAttempts

(* Rows come to exist by CreateTransfer only. *)
LEMMA AcceptedStep ==
  ASSUME IndInv, [Next]_vars
  PROVE  \/ AcceptedRows' = AcceptedRows
         \/ \E t \in TxIds : CreateTransfer(t)
<1>1. status \in [TxIds -> Statuses \cup {NULL}]
  BY DEF IndInv, TypeOK, RepoTypeOK
<1>2. CASE WritesStatus
  BY <1>1, <1>2, DomainAssumption DEF WritesStatus, AcceptedRows
<1>3. CASE StartRecovery
  BY <1>1, <1>3, DomainAssumption DEF StartRecovery, ResetPendingToQueued,
                                      AcceptedRows, Statuses
<1> QED
  BY <1>2, <1>3, StatusStep

-----------------------------------------------------------------------------
(* The refinement *)

(* The chain holds one transaction of a row, with the nonce of its seal. *)
Landed == \A t \in TxIds : Once!Single(t)

LEMMA LandedOnce == IndInv => Landed
<1> SUFFICES ASSUME IndInv, NEW t \in TxIds PROVE Once!Single(t)
  BY DEF Landed
<1>1. \A m \in OnChain(t) : m \in mined /\ m.tx \in Hashes(t)
  BY DEF OnChain
<1>2. ASSUME NEW m \in OnChain(t) PROVE m.tx.nonce = SealOf(t)
  <2>1. attempts[t] \in Seq(Attempt) /\ HashesOf(attempts[t]) = Hashes(t)
    BY DEF IndInv, TypeOK, RepoTypeOK, Hashes, HashesOf
  <2>2. attempts[t] # <<>>
    BY <1>1, <1>2, NoAttempts DEF IndInv, TypeOK
  <2>3. attempts[t][1].hash \in Hashes(t)
    BY <2>1, <2>2, FirstHash
  <2> QED
    BY <1>1, <1>2, <2>2, <2>3 DEF IndInv, AttemptsShareNonce, SealOf
<1>3. \A l, m \in OnChain(t) : l = m
  BY <1>1 DEF IndInv, AttemptsShareNonce, MinedOncePerNonce
<1> QED
  BY <1>2, <1>3 DEF Once!Single

LEMMA InitOnce == Init => Once!Init
<1> SUFFICES ASSUME Init PROVE Once!Init
  OBVIOUS
<1>1. \A t \in TxIds : status[t] = NULL /\ attempts[t] = <<>>
  BY DEF Init, RepoInit
<1>2. \A t \in TxIds : OnChain(t) = {}
  BY DEF Init, ChainInit, OnChain
<1> QED
  BY <1>1, <1>2 DEF Once!Init, AcceptedRows, SealOf

LEMMA StepOnce ==
  ASSUME IndInv, IndInv', Landed', [Next]_vars
  PROVE  [Once!Next]_(Once!vars)
<1>1. ASSUME NEW t \in TxIds, CreateTransfer(t) PROVE Once!Accept(t)
  <2>1. /\ status \in [TxIds -> Statuses \cup {NULL}]
        /\ status[t] = NULL /\ status' = [status EXCEPT ![t] = "QUEUED"]
        /\ attempts' = attempts /\ mined' = mined
    BY <1>1 DEF CreateTransfer, CreateTransaction, chainVars, IndInv, TypeOK,
                RepoTypeOK
  <2>2. t \notin AcceptedRows /\ AcceptedRows' = AcceptedRows \cup {t}
    BY <2>1, DomainAssumption DEF AcceptedRows, Statuses
  <2>3. \A u \in TxIds : SealOf(u)' = SealOf(u) /\ OnChain(u)' = OnChain(u)
    BY <2>1 DEF SealOf, OnChain, Hashes
  <2> QED
    BY <2>2, <2>3 DEF Once!Accept
<1>2. ASSUME AcceptedRows' = AcceptedRows, \A t \in TxIds : SealOf(t)' = SealOf(t)
      PROVE  Once!Land
  BY <1>2 DEF Once!Land, Landed
<1>3. ASSUME NEW t \in TxIds, status[t] # NULL, status' = status,
             SealOf(t) = NULL, SealOf(t)' \in Nat,
             \A u \in TxIds \ {t} : SealOf(u)' = SealOf(u)
      PROVE  Once!Seal(t)
  <2>1. t \in AcceptedRows /\ AcceptedRows' = AcceptedRows
    BY <1>3 DEF AcceptedRows
  <2> QED
    BY <1>3, <2>1 DEF Once!Seal, Landed
<1> QED
  BY <1>1, <1>2, <1>3, SealStep, AcceptedStep DEF Once!Next, AcceptedRows

(* The service implements AtMostOnce, with any number of rows, senders,    *)
(* crashes, reorgs and faults: no row is ever signed with a second nonce,  *)
(* and no two transactions of a row are on the chain.                      *)
THEOREM AtMostOnceImplemented == Spec => ImplementsAtMostOnce
  BY InitOnce, StepOnce, LandedOnce, Invariance, PTL
     DEF Spec, ImplementsAtMostOnce, Once!Spec

-----------------------------------------------------------------------------
(* What the attempts of a row are: signed for the row's own payload, each  *)
(* with a higher fee than the one before, and the hash that a row or a     *)
(* goroutine holds for it is one of them.  The proofs about nonces and     *)
(* about finality rest on this.                                            *)

(* The row was claimed by its pipeline sometime. *)
Tended(t) == status[t] \notin {NULL, "QUEUED"}

(* Whatever the service may look up for a row is an attempt of that row. *)
OwnHashes ==
    /\ \A t \in TxIds : finalHash[t] # NULL => finalHash[t] \in Hashes(t)
    /\ \A x \in rp.page : x.hash \in Hashes(x.tx)

OwnPayload == \A t \in TxIds : \A h \in Hashes(t) : h.pay = PayloadOf[t]

Rising(as) ==
    \A i, j \in DOMAIN as : i < j => as[i].hash.gas < as[j].hash.gas

FeesRise == \A t \in TxIds : Rising(attempts[t])

AttemptsOwned == OwnHashes /\ OwnPayload /\ FeesRise

-----------------------------------------------------------------------------
(* Lists of attempts *)

LEMMA SettledRising ==
  ASSUME NEW as \in Seq(Attempt), NEW h, NEW done, Rising(as)
  PROVE  Rising(Settled(as, h, done))
<1> DEFINE bs == Settled(as, h, done)
<1>1. /\ DOMAIN bs = DOMAIN as
      /\ \A i \in DOMAIN as : bs[i].hash = as[i].hash
  BY DEF Settled
<1> HIDE DEF bs
<1>2. ASSUME NEW i \in DOMAIN bs, NEW j \in DOMAIN bs, i < j
      PROVE  bs[i].hash.gas < bs[j].hash.gas
  <2>1. i \in DOMAIN as /\ j \in DOMAIN as
    BY <1>1, <1>2
  <2>2. as[i].hash.gas < as[j].hash.gas
    BY <1>2, <2>1, Zenon DEF Rising
  <2>3. bs[i].hash = as[i].hash /\ bs[j].hash = as[j].hash
    BY <1>1, <2>1
  <2> QED
    BY <2>2, <2>3
<1>3. Rising(bs)
  BY <1>2 DEF Rising
<1> QED
  BY <1>3 DEF bs

(* An index before the last one, or the last one. *)
LEMMA LastOrBefore ==
  ASSUME NEW n \in Nat, NEW i \in 1..n, i # n
  PROVE  n \in 1..n /\ i < n
  OBVIOUS

LEMMA SomeIndex ==
  ASSUME NEW n \in Nat, NEW i \in 1..n
  PROVE  n # 0
  OBVIOUS

LEMMA Between ==
  ASSUME NEW k \in Nat, NEW l \in Nat, NEW m \in Nat, k < l, l < m
  PROVE  k < m
  OBVIOUS

LEMMA AppendRising ==
  ASSUME NEW as \in Seq(Attempt), NEW a \in Attempt, Rising(as),
         as # <<>> => as[Len(as)].hash.gas < a.hash.gas
  PROVE  Rising(Append(as, a))
<1> DEFINE n == Len(as)
           bs == Append(as, a)
<1>1. n \in Nat /\ DOMAIN as = 1..n
  BY LenProperties
<1>2. bs \in Seq(Attempt) /\ Len(bs) = n + 1
  BY AppendHashes
<1>3. DOMAIN bs = 1..(n + 1)
  BY <1>2, LenProperties
<1>4. /\ bs[n + 1] = a
      /\ \A i \in 1..n : bs[i] = as[i]
  <2>1. \A i \in 1..Len(as) : bs[i] = as[i]
    BY AppendProperties
  <2>2. bs[Len(as) + 1] = a
    BY AppendProperties
  <2> QED
    BY <2>1, <2>2
<1>5. \A i \in 1..n : as[i].hash.gas \in Nat
  <2>1. \A i \in 1..n : as[i] \in Attempt
    BY ElementOfSeq
  <2> QED
    BY <2>1 DEF Attempt, SignedTx
<1>6. \A i \in 1..n : as[i].hash.gas < a.hash.gas
  <2> SUFFICES ASSUME NEW i \in 1..n PROVE as[i].hash.gas < a.hash.gas
    OBVIOUS
  <2>1. as # <<>>
    <3>1. as = <<>> => n = 0
      BY EmptySeq
    <3> QED
      BY <1>1, <3>1, SomeIndex
  <2>2. CASE i = n
    BY <2>1, <2>2
  <2>3. CASE i # n
    <3>1. n \in 1..n /\ i < n
      BY <1>1, <2>3, LastOrBefore
    <3>2. as[i].hash.gas < as[n].hash.gas
      BY <1>1, <3>1 DEF Rising
    <3>3. a.hash.gas \in Nat /\ as[i].hash.gas \in Nat /\ as[n].hash.gas \in Nat
      BY <1>5, <3>1 DEF Attempt, SignedTx
    <3> QED
      BY <2>1, <3>2, <3>3, Between
  <2> QED
    BY <2>2, <2>3
<1> HIDE DEF n, bs
<1>7. ASSUME NEW i \in DOMAIN bs, NEW j \in DOMAIN bs, i < j
      PROVE  bs[i].hash.gas < bs[j].hash.gas
  <2>1. i \in 1..n
    BY <1>1, <1>3, <1>7
  <2>2. CASE j = n + 1
    BY <1>4, <1>6, <2>1, <2>2
  <2>3. CASE j # n + 1
    <3>1. j \in 1..n
      BY <1>1, <1>3, <2>3
    <3> QED
      BY <1>1, <1>4, <1>7, <2>1, <3>1 DEF Rising
  <2> QED
    BY <2>2, <2>3
<1> QED
  BY <1>7 DEF Rising, bs

-----------------------------------------------------------------------------
(* What a step does to the attempts *)

(* CreateAttempt as its two callers use it. *)
Extends(t) ==
    /\ Tended(t)
    /\ \E h \in SignedTx :
         /\ attempts' = [attempts EXCEPT ![t] =
                           Append(attempts[t], [hash |-> h, status |-> "BROADCAST"])]
         /\ h.pay = PayloadOf[t]
         /\ attempts[t] # <<>> => LatestAttempt(t).gas < h.gas
    /\ UNCHANGED <<status, nonce, finalHash, receipt, cursor>>

(* A pipeline stores the first attempt of the row it holds. *)
LEMMA BuildExtends ==
  ASSUME IndInv, NEW s \in Senders, PipelineStep(s)
  PROVE  attempts' = attempts \/ (BuildAndStore(s) /\ Extends(pl[s].tx))
<1>1. CASE BuildAndStore(s)
  <2> DEFINE t == pl[s].tx
  <2>1. pl[s].pc = "build"
    BY <1>1 DEF BuildAndStore
  <2>2. /\ t \in TxIds /\ SenderOf[t] = s /\ status[t] = "PENDING"
        /\ nonce[t] \in Nat
    BY <2>1 DEF IndInv, RowsConsistent, PipelineRows, PipelineRow
  <2>3. Tended(t)
    BY <2>2, DomainAssumption DEF Tended, Statuses
  <2>4. ASSUME NEW g \in InitialGas, CreateAttempt(t, 1, Build(s, t, g))
        PROVE  Extends(t)
    <3> DEFINE h == Build(s, t, g)
    <3>1. h \in SignedTx /\ h.pay = PayloadOf[t]
      BY <2>2, DomainAssumption, PipelineAssumption DEF Build, SignedTx
    <3>2. attempts[t] = <<>>
      BY <2>2, <2>4, NoAttempts DEF CreateAttempt, IndInv, TypeOK
    <3>3. attempts' = [attempts EXCEPT ![t] =
                         Append(attempts[t], [hash |-> h, status |-> "BROADCAST"])]
      BY <2>4 DEF CreateAttempt
    <3> HIDE DEF h, t
    <3> QED
      BY <2>3, <2>4, <3>1, <3>2, <3>3 DEF Extends, CreateAttempt
  <2> HIDE DEF t
  <2>5. attempts' = attempts \/ \E g \in InitialGas : CreateAttempt(t, 1, Build(s, t, g))
    BY <1>1 DEF BuildAndStore, FailTx, MarkFailed, repoVars, t
  <2> QED
    BY <1>1, <2>4, <2>5 DEF t
<1>2. CASE \/ Claim(s) \/ AssignNonce(s) \/ Send(s) \/ FailBroadcast(s)
           \/ Submit(s)
  BY <1>2 DEF Claim, AssignNonce, Send, FailBroadcast, Submit, ClaimNextQueued,
              FailTx, AssignNonceAndMarkPending, MarkFailed, MarkSubmitted,
              repoVars
<1> QED
  BY <1>1, <1>2 DEF PipelineStep

(* The detector stores a replacement that pays more. *)
LEMMA BumpExtends ==
  ASSUME IndInv, DetectorStep
  PROVE  attempts' = attempts \/ \E x \in sd.list : BumpGas(x) /\ Extends(x.tx)
<1>1. ASSUME NEW x \in sd.list, BumpGas(x) PROVE Extends(x.tx)
  <2> DEFINE h == Replacement(x)
  <2>1. /\ x.tx \in TxIds /\ WasSubmitted(x.tx) /\ x.nonce = nonce[x.tx]
    BY DEF IndInv, TypeOK, DetectorTypeOK, DetectorState, Stuck, RowsConsistent,
           DetectorRows
  <2>2. nonce[x.tx] \in Nat /\ attempts[x.tx] # <<>> /\ Tended(x.tx)
    BY <2>1, DomainAssumption DEF WasSubmitted, Signed, HandedOver, Tended, Statuses
  <2>3. LatestAttempt(x.tx).gas \in Nat
    BY <2>1, <2>2, LatestIsAttempt DEF IndInv, TypeOK, SignedTx
  <2>4. h = [from |-> SenderOf[x.tx], pay |-> PayloadOf[x.tx], nonce |-> x.nonce,
             gas |-> LatestAttempt(x.tx).gas + 1]
    BY DEF Replacement, LatestAttempt
  <2>5. CreateAttempt(x.tx, Len(attempts[x.tx]) + 1, h)
    BY <1>1 DEF BumpGas
  <2> HIDE DEF h
  <2>6. h \in SignedTx /\ h.pay = PayloadOf[x.tx] /\ LatestAttempt(x.tx).gas < h.gas
    <3>1. SenderOf[x.tx] \in Senders /\ PayloadOf[x.tx] \in Payloads
      BY <2>1, DomainAssumption
    <3> QED
      BY <2>1, <2>2, <2>3, <2>4, <3>1 DEF SignedTx
  <2>7. attempts' = [attempts EXCEPT ![x.tx] =
                       Append(attempts[x.tx], [hash |-> h, status |-> "BROADCAST"])]
    BY <2>5 DEF CreateAttempt
  <2> QED
    BY <2>2, <2>5, <2>6, <2>7 DEF Extends, CreateAttempt
<1>2. ASSUME \/ FetchStuck
             \/ \E x \in sd.list : \/ Skip(x) \/ GiveUp(x)
                                   \/ SendReplacement(x) \/ SubmitReplacement(x)
      PROVE  attempts' = attempts
  BY <1>2 DEF FetchStuck, Skip, GiveUp, SendReplacement, SubmitReplacement,
              MarkFailed, MarkSubmitted, repoVars
<1> QED
  BY <1>1, <1>2 DEF DetectorStep

(* What a step may do to the attempts, and what is new in them. *)
LEMMA ExtendsOutsidePoller ==
  ASSUME IndInv, [Next]_vars, ~ RunPoller
  PROVE  attempts' = attempts \/ \E t \in TxIds : Extends(t)
<1>1. ASSUME NEW s \in Senders, PipelineStep(s)
      PROVE  attempts' = attempts \/ \E t \in TxIds : Extends(t)
  <2>1. CASE BuildAndStore(s)
    <3>1. pl[s].pc # "idle"
      BY <2>1 DEF BuildAndStore
    <3> QED
      BY <1>1, <3>1, BuildExtends, RowInHand
  <2> QED
    BY <1>1, <2>1, BuildExtends
<1>2. ASSUME DetectorStep
      PROVE  attempts' = attempts \/ \E t \in TxIds : Extends(t)
  <2>1. \A x \in sd.list : x.tx \in TxIds
    BY DEF IndInv, TypeOK, DetectorTypeOK, DetectorState, Stuck
  <2> QED
    BY <1>2, <2>1, BumpExtends
<1>3. ASSUME \/ RunChain \/ Start \/ Crash \/ UNCHANGED vars \/ StartRecovery
             \/ \E s \in Senders : AskPendingNonce(s) \/ InitNonceForSender(s)
             \/ \E t \in TxIds : CreateTransfer(t)
      PROVE  attempts' = attempts
  BY <1>3 DEF RunChain, Start, Crash, StartRecovery, ResetPendingToQueued,
              AskPendingNonce, InitNonceForSender, CreateTransfer, CreateTransaction, vars, repoVars
<1> QED
  BY <1>1, <1>2, <1>3 DEF Next, ManagerStep, RunPipeline, RunDetector

LEMMA ExtendsStep ==
  ASSUME IndInv, [Next]_vars
  PROVE  attempts' = attempts \/ Settles \/ \E t \in TxIds : Extends(t)
<1>1. ASSUME PollerStep PROVE attempts' = attempts \/ Settles
  <2>1. \A x \in rp.page : x.tx \in TxIds
    BY DEF IndInv, TypeOK, PollerTypeOK, PollerState, Seen
  <2>2. ASSUME NEW x \in rp.page, MarkConfirmed(x.tx, x.hash, x.got) PROVE Settles
    BY <2>1, <2>2 DEF MarkConfirmed, Settles
  <2>3. ASSUME NEW x \in rp.page, ApplySubmitted(x) \/ ApplyIncluded(x)
        PROVE  attempts' = attempts \/ MarkConfirmed(x.tx, x.hash, x.got)
    BY <2>3 DEF ApplySubmitted, ApplyIncluded, Record, MarkReverted, MarkIncluded,
                RevertToSubmitted, repoVars
  <2>4. ASSUME \/ FetchSubmitted \/ FetchSubmittedReceipts \/ ReadBlockNumber
               \/ FetchIncluded \/ FetchIncludedReceipts \/ ReadLatestAttempt
             \/ RebroadcastAfterReorg
        PROVE  attempts' = attempts
    BY <2>4 DEF FetchSubmitted, FetchSubmittedReceipts, ReadBlockNumber,
                FetchIncluded, FetchIncludedReceipts, ReadLatestAttempt,
              RebroadcastAfterReorg,
                FetchPage, repoVars
  <2> QED
    BY <1>1, <2>2, <2>3, <2>4 DEF PollerStep
<1> QED
  BY <1>1, ExtendsOutsidePoller DEF RunPoller

(* The same, for one row. *)
LEMMA AttemptsOfRow ==
  ASSUME IndInv, [Next]_vars, NEW t \in TxIds
  PROVE  \/ attempts'[t] = attempts[t]
         \/ \E h, done : attempts'[t] = Settled(attempts[t], h, done)
         \/ /\ Tended(t)
            /\ \E h \in SignedTx :
                 /\ attempts'[t] = Append(attempts[t], [hash |-> h, status |-> "BROADCAST"])
                 /\ h.pay = PayloadOf[t]
                 /\ attempts[t] # <<>> => LatestAttempt(t).gas < h.gas
<1>1. attempts \in [TxIds -> Seq(Attempt)]
  BY DEF IndInv, TypeOK, RepoTypeOK
<1>2. CASE attempts' = attempts
  BY <1>2
<1>3. CASE Settles
  BY <1>1, <1>3 DEF Settles
<1>4. ASSUME NEW u \in TxIds, Extends(u)
      PROVE  \/ attempts'[t] = attempts[t]
             \/ /\ Tended(t)
                /\ \E h \in SignedTx :
                     /\ attempts'[t] = Append(attempts[t], [hash |-> h, status |-> "BROADCAST"])
                     /\ h.pay = PayloadOf[t]
                     /\ attempts[t] # <<>> => LatestAttempt(t).gas < h.gas
  <2>1. CASE u = t
    BY <1>1, <1>4, <2>1 DEF Extends
  <2>2. CASE u # t
    BY <1>1, <1>4, <2>2 DEF Extends
  <2> QED
    BY <2>1, <2>2
<1> QED
  BY <1>2, <1>3, <1>4, ExtendsStep

LEMMA NewAttemptType ==
  ASSUME NEW h \in SignedTx
  PROVE  /\ [hash |-> h, status |-> "BROADCAST"] \in Attempt
         /\ [hash |-> h, status |-> "BROADCAST"].hash = h
BY DEF Attempt, AttemptStatuses

(* Payloads and fees of the attempts stay as they should be. *)
LEMMA PayloadStep ==
  ASSUME IndInv, OwnPayload, FeesRise, [Next]_vars
  PROVE  OwnPayload' /\ FeesRise'
<1> SUFFICES ASSUME NEW t \in TxIds
             PROVE  /\ \A h \in HashesOf(attempts'[t]) : h.pay = PayloadOf[t]
                    /\ Rising(attempts'[t])
  BY DEF OwnPayload, FeesRise, Hashes, HashesOf, Rising
<1>1. /\ attempts[t] \in Seq(Attempt) /\ Rising(attempts[t])
      /\ \A h \in HashesOf(attempts[t]) : h.pay = PayloadOf[t]
  BY DEF IndInv, TypeOK, RepoTypeOK, OwnPayload, FeesRise, Hashes, HashesOf
<1>2. CASE attempts'[t] = attempts[t]
  BY <1>1, <1>2
<1>3. ASSUME NEW h, NEW done, attempts'[t] = Settled(attempts[t], h, done)
      PROVE  /\ \A g \in HashesOf(attempts'[t]) : g.pay = PayloadOf[t]
             /\ Rising(attempts'[t])
  BY <1>1, <1>3, SettledHashes, SettledRising
<1>4. ASSUME NEW h \in SignedTx, h.pay = PayloadOf[t],
             attempts'[t] = Append(attempts[t], [hash |-> h, status |-> "BROADCAST"]),
             attempts[t] # <<>> => LatestAttempt(t).gas < h.gas
      PROVE  /\ \A g \in HashesOf(attempts'[t]) : g.pay = PayloadOf[t]
             /\ Rising(attempts'[t])
  <2> DEFINE a == [hash |-> h, status |-> "BROADCAST"]
  <2>1. a \in Attempt /\ a.hash = h
    BY NewAttemptType
  <2>2. attempts'[t] = Append(attempts[t], a)
    BY <1>4
  <2> HIDE DEF a
  <2>3. HashesOf(attempts'[t]) = HashesOf(attempts[t]) \cup {h}
    BY <1>1, <2>1, <2>2, AppendHashes
  <2>4. attempts[t] # <<>> => attempts[t][Len(attempts[t])].hash.gas < a.hash.gas
    BY <1>4, <2>1 DEF LatestAttempt
  <2>5. Rising(attempts'[t])
    BY <1>1, <2>1, <2>2, <2>4, AppendRising
  <2> QED
    BY <1>1, <1>4, <2>3, <2>5
<1> QED
  BY <1>2, <1>3, <1>4, AttemptsOfRow

-----------------------------------------------------------------------------
(* What the poller has on its page *)

(* A row comes to a page as it is read, and gets an answer later. *)
Fetched(y, st) == \E t \in TxIds : status[t] = st /\ y = Snapshot(t)
AnswerTo(y, x) == y = [x EXCEPT !.got = y.got] /\ ReceiptAnswer(x.hash, y.got)

LEMMA ReturnFields ==
  ASSUME NEW pass
  PROVE  /\ Return(pass).page = {} /\ Return(pass).pc \in {"submitted", "head"}
         /\ Return(pass).after = 0 /\ Return(pass).head = 0
BY DEF Return, NewPoll

LEMMA ContinueFields ==
  ASSUME rp \in PollerState, NEW pass \in {"submitted", "included"}, NEW apply,
         NEW rest, NEW q, q = Continue(pass, apply, rest)
  PROVE  \/ /\ rest # {} /\ q.pc = apply /\ q.page = rest
            /\ q.after = rp.after /\ q.head = rp.head
         \/ /\ rest = {} /\ q.pc = pass /\ q.page = {}
            /\ q.after = rp.after /\ q.head = rp.head
         \/ /\ rest = {} /\ q.pc \in {"submitted", "head"} /\ q.page = {}
            /\ q.after = 0 /\ q.head = 0
<1>1. CASE rest # {}
  BY <1>1 DEF Continue, PollerState
<1>2. CASE rest = {} /\ rp.more
  BY <1>2 DEF Continue, PollerState
<1>3. CASE rest = {} /\ ~ rp.more
  BY <1>3, ReturnFields DEF Continue
<1> QED
  BY <1>1, <1>2, <1>3 DEF PollerState

(* GetSubmittedTransactions and GetIncludedTransactions. *)
LEMMA FetchFields ==
  ASSUME IndInv, NEW pass \in {"submitted", "included"}, NEW st, NEW receipts,
         NEW wanted, FetchPage(pass, st, receipts, wanted)
  PROVE  \/ /\ rp'.page = {} /\ rp'.pc \in {"submitted", "head"}
            /\ rp'.after = 0 /\ rp'.head = 0
         \/ /\ rp'.pc = pass /\ rp'.page = rp.page /\ rp'.head = rp.head
            /\ rp'.after \in TxIds /\ rp'.after > rp.after
         \/ /\ rp'.pc = receipts /\ rp'.head = rp.head
            /\ rp'.after \in TxIds /\ rp'.after > rp.after
            /\ \A y \in rp'.page : \E t \in TxIds \cap wanted :
                 /\ status[t] = st /\ y = Snapshot(t)
                 /\ t > rp.after /\ t <= rp'.after
<1> DEFINE ids == Page(st, rp.after, ReceiptChunkSize)
           page == {Snapshot(t) : t \in ids \cap wanted}
           more == Cardinality(ids) = ReceiptChunkSize
<1>0. rp \in PollerState /\ rp.pc = pass
  BY DEF IndInv, TypeOK, PollerTypeOK, FetchPage
<1>1. \A t \in ids : t \in TxIds /\ status[t] = st /\ t > rp.after
  BY DEF Page, RowsAfter, WithStatus
<1>2. \/ rp' = Return(pass)
      \/ \E last \in ids :
           /\ \A t \in ids : t <= last
           /\ rp' = IF page # {}
                    THEN [rp EXCEPT !.pc = receipts, !.page = page,
                                    !.after = last, !.more = more]
                    ELSE IF more THEN [rp EXCEPT !.after = last]
                    ELSE Return(pass)
  BY DEF FetchPage
<1>3. CASE rp' = Return(pass)
  BY <1>3, ReturnFields
<1>4. ASSUME NEW last \in ids, \A t \in ids : t <= last,
             rp' = [rp EXCEPT !.pc = receipts, !.page = page, !.after = last,
                              !.more = more]
      PROVE  /\ rp'.pc = receipts /\ rp'.head = rp.head
             /\ rp'.after \in TxIds /\ rp'.after > rp.after
             /\ \A y \in rp'.page : \E t \in TxIds \cap wanted :
                  /\ status[t] = st /\ y = Snapshot(t)
                  /\ t > rp.after /\ t <= rp'.after
  <2>1. /\ rp'.pc = receipts /\ rp'.head = rp.head /\ rp'.after = last
        /\ rp'.page = page
    BY <1>0, <1>4 DEF PollerState
  <2>2. \A y \in page : \E t \in ids \cap wanted : y = Snapshot(t)
    OBVIOUS
  <2> HIDE DEF ids, page
  <2> QED
    BY <1>1, <1>4, <2>1, <2>2
<1>5. ASSUME NEW last \in ids, rp' = [rp EXCEPT !.after = last]
      PROVE  /\ rp'.pc = pass /\ rp'.page = rp.page /\ rp'.head = rp.head
             /\ rp'.after \in TxIds /\ rp'.after > rp.after
  BY <1>0, <1>1, <1>5 DEF PollerState
<1> HIDE DEF ids, page, more
<1> QED
  BY <1>2, <1>3, <1>4, <1>5

(* BatchTransactionReceipts. *)
LEMMA AnswersOfPage ==
  ASSUME IndInv, NEW page, page \subseteq rp.page, NEW f \in Answers(rp.page),
         NEW y \in Answered(page, f)
  PROVE  \E x \in page : AnswerTo(y, x)
<1>1. PICK x \in page : y = [x EXCEPT !.got = f[x.tx]]
  BY DEF Answered
<1>2. x \in Seen
  BY DEF IndInv, TypeOK, PollerTypeOK, PollerState
<1>3. y.got = f[x.tx]
  BY <1>1, <1>2 DEF Seen
<1>4. ReceiptAnswer(x.hash, f[x.tx])
  BY DEF Answers
<1> QED
  BY <1>1, <1>3, <1>4 DEF AnswerTo

(* Every row of the next page was on this one, was read just now, or has   *)
(* got its answer.                                                         *)
LEMMA PageStep ==
  ASSUME IndInv, PollerStep, NEW y \in rp'.page
  PROVE  \/ y \in rp.page
         \/ Fetched(y, "SUBMITTED") \/ Fetched(y, "INCLUDED")
         \/ \E x \in rp.page : AnswerTo(y, x)
<1>0. rp \in PollerState
  BY DEF IndInv, TypeOK, PollerTypeOK
<1>1. CASE FetchSubmitted \/ FetchIncluded
  BY <1>1, FetchFields DEF FetchSubmitted, FetchIncluded, Fetched
<1>2. ASSUME NEW pass \in {"submitted", "included"}, NEW apply, NEW rest,
             rp' = Continue(pass, apply, rest)
      PROVE  y \in rest
  BY <1>0, <1>2, ContinueFields
<1>3. CASE FetchSubmittedReceipts
  <2>1. CASE rp' = Return("submitted")
    BY <2>1, ReturnFields
  <2>2. ASSUME NEW f \in Answers(rp.page),
               rp' = Continue("submitted", "applySubmitted",
                              {x \in Answered(OfHash(rp.page), f) : x.got # NULL})
        PROVE  \E x \in rp.page : AnswerTo(y, x)
    <3>1. y \in {x \in Answered(OfHash(rp.page), f) : x.got # NULL}
      BY <1>2, <2>2
    <3>2. OfHash(rp.page) \subseteq rp.page
      BY DEF OfHash
    <3> QED
      BY <3>1, <3>2, AnswersOfPage
  <2> QED
    BY <1>3, <2>1, <2>2 DEF FetchSubmittedReceipts
<1>4. CASE FetchIncludedReceipts
  <2>1. CASE rp' = Return("included")
    BY <2>1, ReturnFields
  <2>2. ASSUME NEW f \in Answers(rp.page),
               rp' = Continue("included", "applyIncluded", Answered(rp.page, f))
        PROVE  \E x \in rp.page : AnswerTo(y, x)
    <3>1. y \in Answered(rp.page, f)
      BY <1>2, <2>2
    <3> QED
      BY <3>1, AnswersOfPage
  <2> QED
    BY <1>4, <2>1, <2>2 DEF FetchIncludedReceipts
<1>5. CASE ReadBlockNumber
  <2>1. rp'.page = {} \/ rp'.page = rp.page
    BY <1>0, <1>5, ReturnFields DEF ReadBlockNumber, PollerState
  <2> QED
    BY <2>1
<1>6. ASSUME NEW x \in rp.page, ApplySubmitted(x) PROVE y \in rp.page
  BY <1>2, <1>6 DEF ApplySubmitted
<1>7. ASSUME NEW x \in rp.page, ApplyIncluded(x) PROVE y \in rp.page
  <2>1. \/ rp' = Continue("included", "applyIncluded", rp.page \ {x})
        \/ rp' = [rp EXCEPT !.pc = "rebroadcast", !.cur = x.tx,
                            !.page = rp.page \ {x}]
    BY <1>7 DEF ApplyIncluded
  <2>2. CASE rp' = [rp EXCEPT !.pc = "rebroadcast", !.cur = x.tx,
                              !.page = rp.page \ {x}]
    BY <1>0, <2>2 DEF PollerState
  <2> QED
    BY <1>2, <2>1, <2>2
<1>8. CASE RebroadcastAfterReorg
  BY <1>2, <1>8 DEF RebroadcastAfterReorg
<1>9. CASE ReadLatestAttempt
  <2>1. \/ rp' = Continue("included", "applyIncluded", rp.page)
        \/ rp' = [rp EXCEPT !.pc = "resend", !.hash = LatestAttempt(rp.cur)]
    BY <1>9 DEF ReadLatestAttempt
  <2>2. CASE rp' = [rp EXCEPT !.pc = "resend", !.hash = LatestAttempt(rp.cur)]
    BY <1>0, <2>2 DEF PollerState
  <2> QED
    BY <1>2, <2>1, <2>2
<1> QED
  BY <1>1, <1>3, <1>4, <1>5, <1>6, <1>7, <1>8, <1>9 DEF PollerStep

-----------------------------------------------------------------------------
(* Hashes *)

(* final_tx_hash changes to an attempt of its row, and to nothing else. *)
LEMMA FinalHashStep ==
  ASSUME IndInv, OwnHashes, [Next]_vars, NEW t \in TxIds
  PROVE  finalHash'[t] = finalHash[t] \/ finalHash'[t] \in Hashes(t)
<1>0. finalHash \in [TxIds -> SignedTx \cup {NULL}]
  BY DEF IndInv, TypeOK, RepoTypeOK
<1>1. ASSUME NEW u \in TxIds, NEW h \in Hashes(u),
             finalHash' = [finalHash EXCEPT ![u] = h]
      PROVE  finalHash'[t] = finalHash[t] \/ finalHash'[t] \in Hashes(t)
  BY <1>0, <1>1
<1>2. ASSUME NEW s \in Senders, PipelineStep(s)
      PROVE  finalHash'[t] = finalHash[t] \/ finalHash'[t] \in Hashes(t)
  <2>1. CASE Submit(s)
    <3>1. pl[s].tx \in TxIds /\ pl[s].hash \in Hashes(pl[s].tx)
      BY <2>1 DEF Submit, IndInv, RowsConsistent, PipelineRows, PipelineRow
    <3>2. \/ finalHash' = [finalHash EXCEPT ![pl[s].tx] = pl[s].hash]
          \/ finalHash' = finalHash
      BY <2>1 DEF Submit, MarkSubmitted, repoVars
    <3> QED
      BY <1>1, <3>1, <3>2
  <2>2. CASE \/ Claim(s) \/ AssignNonce(s) \/ Send(s) \/ FailBroadcast(s)
             \/ BuildAndStore(s)
    BY <2>2 DEF Claim, AssignNonce, Send, FailBroadcast, BuildAndStore,
                ClaimNextQueued, FailTx, AssignNonceAndMarkPending, MarkFailed,
                CreateAttempt, repoVars, rows
  <2> QED
    BY <1>2, <2>1, <2>2 DEF PipelineStep
<1>3. ASSUME DetectorStep
      PROVE  finalHash'[t] = finalHash[t] \/ finalHash'[t] \in Hashes(t)
  <2>1. ASSUME NEW x \in sd.list, SubmitReplacement(x)
        PROVE  finalHash'[t] = finalHash[t] \/ finalHash'[t] \in Hashes(t)
    <3>1. x.tx \in TxIds /\ sd.hash \in Hashes(x.tx)
      BY <2>1 DEF SubmitReplacement, IndInv, RowsConsistent, DetectorRows, TypeOK,
                  DetectorTypeOK, DetectorState, Stuck
    <3>2. \/ finalHash' = [finalHash EXCEPT ![x.tx] = sd.hash]
          \/ finalHash' = finalHash
      BY <2>1 DEF SubmitReplacement, MarkSubmitted, rows
    <3> QED
      BY <1>1, <3>1, <3>2
  <2>2. ASSUME \/ FetchStuck
               \/ \E x \in sd.list : \/ Skip(x) \/ GiveUp(x) \/ BumpGas(x)
                                     \/ SendReplacement(x)
        PROVE  finalHash' = finalHash
    BY <2>2 DEF FetchStuck, Skip, GiveUp, BumpGas, SendReplacement, MarkFailed,
                CreateAttempt, repoVars, rows
  <2> QED
    BY <1>3, <2>1, <2>2 DEF DetectorStep
<1>4. ASSUME PollerStep
      PROVE  finalHash'[t] = finalHash[t] \/ finalHash'[t] \in Hashes(t)
  <2>1. \A x \in rp.page : x.tx \in TxIds /\ x.hash \in Hashes(x.tx)
    BY DEF OwnHashes, IndInv, TypeOK, PollerTypeOK, PollerState, Seen
  <2>2. ASSUME NEW x \in rp.page, ApplySubmitted(x) \/ ApplyIncluded(x)
        PROVE  \/ finalHash' = finalHash
               \/ finalHash' = [finalHash EXCEPT ![x.tx] = x.hash]
    BY <2>2 DEF ApplySubmitted, ApplyIncluded, Record, MarkReverted, MarkIncluded,
                MarkConfirmed, MarkWithReceipt, RevertToSubmitted, repoVars
  <2>3. ASSUME \/ FetchSubmitted \/ FetchSubmittedReceipts \/ ReadBlockNumber
               \/ FetchIncluded \/ FetchIncludedReceipts \/ ReadLatestAttempt
             \/ RebroadcastAfterReorg
        PROVE  finalHash' = finalHash
    BY <2>3 DEF FetchSubmitted, FetchSubmittedReceipts, ReadBlockNumber,
                FetchIncluded, FetchIncludedReceipts, ReadLatestAttempt,
              RebroadcastAfterReorg,
                FetchPage, repoVars
  <2> QED
    BY <1>1, <1>4, <2>1, <2>2, <2>3 DEF PollerStep
<1>5. ASSUME \/ RunChain \/ Start \/ Crash \/ UNCHANGED vars \/ StartRecovery
             \/ \E s \in Senders : AskPendingNonce(s) \/ InitNonceForSender(s)
             \/ \E u \in TxIds : CreateTransfer(u)
      PROVE  finalHash' = finalHash
  BY <1>5 DEF RunChain, Start, Crash, StartRecovery, ResetPendingToQueued,
              AskPendingNonce, InitNonceForSender, CreateTransfer, CreateTransaction, vars, repoVars,
              rows
<1> QED
  BY <1>2, <1>3, <1>4, <1>5 DEF Next, ManagerStep, RunPipeline, RunDetector, RunPoller

LEMMA OwnHashesStep ==
  ASSUME IndInv, IndInv', OwnHashes, [Next]_vars
  PROVE  OwnHashes'
<1>1. \A t \in TxIds : Hashes(t) \subseteq Hashes(t)'
  BY AttemptsStep, AttemptsGrow DEF Hashes, HashesOf
<1>2. ASSUME NEW t \in TxIds, finalHash'[t] # NULL PROVE finalHash'[t] \in Hashes(t)'
  BY <1>1, <1>2, FinalHashStep DEF OwnHashes
<1>3. \A x \in rp.page : x \in Seen /\ x.tx \in TxIds /\ x.hash \in Hashes(x.tx)
  BY DEF OwnHashes, IndInv, TypeOK, PollerTypeOK, PollerState, Seen
<1>4. ASSUME NEW y \in rp'.page PROVE y.hash \in Hashes(y.tx)'
  <2>1. CASE y \in rp.page
    BY <1>1, <1>3, <2>1
  <2>2. ASSUME NEW t \in TxIds, status[t] \in {"SUBMITTED", "INCLUDED"},
               y = Snapshot(t)
        PROVE  y.hash \in Hashes(y.tx)'
    <3>1. y.tx = t /\ y.hash = finalHash[t]
      BY <2>2 DEF Snapshot
    <3>2. finalHash[t] \in Hashes(t)
      BY <2>2, SnapshotSeen DEF WasSubmitted, OwnHashes
    <3> QED
      BY <1>1, <3>1, <3>2
  <2>3. ASSUME NEW x \in rp.page, AnswerTo(y, x) PROVE y.hash \in Hashes(y.tx)'
    <3>1. y.hash = x.hash /\ y.tx = x.tx
      BY <1>3, <2>3 DEF AnswerTo, Seen
    <3> QED
      BY <1>1, <1>3, <3>1
  <2>4. CASE PollerStep
    BY <2>1, <2>2, <2>3, <2>4, PageStep DEF Fetched
  <2>5. rp'.page = {} \/ rp' = rp \/ PollerStep
    BY DEF Next, ManagerStep, CreateTransfer, RunPipeline, RunDetector, RunPoller,
           RunChain, StartRecovery, AskPendingNonce, InitNonceForSender, Start, Crash, NewPoll, vars,
           memory
  <2> QED
    BY <2>1, <2>4, <2>5
<1> QED
  BY <1>2, <1>4 DEF OwnHashes

-----------------------------------------------------------------------------
LEMMA InitOwned == Init => AttemptsOwned
<1> SUFFICES ASSUME Init PROVE AttemptsOwned
  OBVIOUS
<1>1. \A t \in TxIds : attempts[t] = <<>> /\ finalHash[t] = NULL
  BY DEF Init, RepoInit
<1>2. rp.page = {}
  BY DEF Init, PollerInit, NewPoll
<1>3. \A t \in TxIds : DOMAIN attempts[t] = {}
  <2> SUFFICES ASSUME NEW t \in TxIds PROVE DOMAIN attempts[t] = {}
    OBVIOUS
  <2>1. attempts[t] \in Seq(Attempt) /\ Len(attempts[t]) = 0
    BY <1>1, EmptySeq
  <2>2. DOMAIN attempts[t] = 1..Len(attempts[t])
    BY <2>1, LenProperties
  <2> QED
    BY <2>1, <2>2
<1> QED
  BY <1>1, <1>2, <1>3 DEF AttemptsOwned, OwnHashes, OwnPayload, FeesRise, Rising, Hashes

(* Every attempt of a row asks for what the row asks for, each pays more   *)
(* than the one before it, and the hashes that rows and poller go by are   *)
(* attempts of the rows they stand for, in every state.                    *)
THEOREM Ownership == Spec => []AttemptsOwned
<1>1. IndInv /\ IndInv' /\ AttemptsOwned /\ [Next]_vars => AttemptsOwned'
  BY OwnHashesStep, PayloadStep DEF AttemptsOwned
<1> QED
  BY <1>1, InitOwned, Invariance, PTL DEF Spec

-----------------------------------------------------------------------------
(* The invariant of a first life *)

(* Nothing exists before the service is up. *)
Fresh == phase # "up" => orphaned = {} /\ \A t \in TxIds : status[t] = NULL

Untouched ==
    \A t \in TxIds : ~ Tended(t) => nonce[t] = NULL /\ attempts[t] = <<>>

(* A pipeline holds the row that got the newest of its sender's nonces, or *)
(* one that is about to get the next.                                      *)
RowInWork(s) ==
    /\ pl[s].pc = "assign" => nonce[pl[s].tx] = NULL
    /\ pl[s].pc = "build"  => cursor[s] = nonce[pl[s].tx] + 1

RowsInWork == \A s \in Senders : RowInWork(s)

(* Every nonce that a row has is below the cursor, and no other row of the *)
(* sender has it.                                                          *)
NoncesApart ==
    \A t \in TxIds : nonce[t] # NULL =>
        /\ cursor[SenderOf[t]] \in Nat /\ nonce[t] < cursor[SenderOf[t]]
        /\ \A u \in TxIds :
              SenderOf[u] = SenderOf[t] /\ nonce[u] = nonce[t] => u = t

(* The row has been signed for, or has failed before it was. *)
Resolved(t) == attempts[t] # <<>> \/ status[t] = "FAILED"

(* Every nonce below the cursor went to a row, and unless the database     *)
(* fails, that row is resolved or in its pipeline's hands.                 *)
Accounted(s, n) ==
    \E u \in TxIds :
        /\ SenderOf[u] = s /\ nonce[u] = n
        /\ DbFault \/ Resolved(u) \/ (pl[s].pc = "build" /\ pl[s].tx = u)

AllAccounted ==
    \A s \in Senders : cursor[s] # NULL =>
        \A n \in 0..(cursor[s] - 1) : Accounted(s, n)

Orderly ==
    /\ Fresh
    /\ Untouched
    /\ RowsInWork
    /\ NoncesApart
    /\ AllAccounted

(* InitNonces sets all the cursors before the goroutines start, and the    *)
(* nodes answer that the sender has used no nonce.                         *)
CursorsSet ==
    /\ phase = "up" => \A s \in Senders : cursor[s] # NULL
    /\ phase = "init" => \A s \in Senders \ uninit : cursor[s] # NULL
    /\ \A s \in Senders : pending[s] # NULL => pending[s] = 0

FirstLife == crashes = 0 => Orderly /\ CursorsSet

-----------------------------------------------------------------------------
(* Steps that assign no nonce and claim no row *)

(* A row keeps status and attempts, or it was claimed before and what it   *)
(* gets does not take it back.                                             *)
RowTended(t) ==
    \/ status'[t] = status[t] /\ attempts'[t] = attempts[t]
    \/ /\ Tended(t) /\ Tended(t)'
       /\ attempts[t] # <<>> => attempts'[t] # <<>>
       /\ status[t] = "FAILED" => status'[t] = "FAILED" \/ attempts'[t] # <<>>

(* A pipeline does not begin to work on a row, and when it stops working   *)
(* on one it has resolved it.                                              *)
HandsKept(s) ==
    /\ pl'[s].pc \in {"assign", "build"} => pl'[s] = pl[s]
    /\ ~ DbFault /\ pl[s].pc = "build" =>
          pl'[s] = pl[s] \/ \A t \in TxIds : t = pl[s].tx => Resolved(t)'

Tends ==
    /\ UNCHANGED <<nonce, cursor>>
    /\ \A t \in TxIds : RowTended(t)
    /\ \A s \in Senders : HandsKept(s)
    /\ phase' # "up" => phase # "up" /\ orphaned' = orphaned

LEMMA TendsKeeps ==
  ASSUME IndInv, Orderly, Tends
  PROVE  Orderly'
<1>1. /\ nonce' = nonce /\ cursor' = cursor
      /\ phase' # "up" => phase # "up" /\ orphaned' = orphaned
      /\ \A t \in TxIds : RowTended(t)
      /\ \A s \in Senders : HandsKept(s)
  BY DEF Tends
<1>2. \A t \in TxIds : Tended(t)' <=> Tended(t)
  BY <1>1 DEF RowTended, Tended
<1>3. \A t \in TxIds : status'[t] = NULL <=> status[t] = NULL
  BY <1>1 DEF RowTended, Tended
<1>4. \A t \in TxIds : Resolved(t) => Resolved(t)'
  BY <1>1 DEF RowTended, Resolved
<1>5. Fresh'
  BY <1>1, <1>3 DEF Orderly, Fresh
<1>6. Untouched'
  BY <1>1, <1>2 DEF Orderly, Untouched, RowTended
<1>7. RowsInWork'
  <2> SUFFICES ASSUME NEW s \in Senders, pl'[s].pc \in {"assign", "build"}
               PROVE  RowInWork(s)'
    BY DEF RowsInWork, RowInWork
  <2>1. pl'[s] = pl[s]
    BY <1>1 DEF HandsKept
  <2> QED
    BY <1>1, <2>1 DEF Orderly, RowsInWork, RowInWork
<1>8. NoncesApart'
  BY <1>1 DEF Orderly, NoncesApart
<1>9. AllAccounted'
  <2> SUFFICES ASSUME NEW s \in Senders, cursor[s] # NULL,
                      NEW n \in 0..(cursor[s] - 1)
               PROVE  Accounted(s, n)'
    BY <1>1 DEF AllAccounted
  <2>1. PICK u \in TxIds :
          /\ SenderOf[u] = s /\ nonce[u] = n
          /\ DbFault \/ Resolved(u) \/ (pl[s].pc = "build" /\ pl[s].tx = u)
    BY DEF Orderly, AllAccounted, Accounted
  <2>2. DbFault \/ Resolved(u)' \/ (pl'[s].pc = "build" /\ pl'[s].tx = u)
    BY <1>1, <1>4, <2>1 DEF HandsKept
  <2> QED
    BY <1>1, <2>1, <2>2 DEF Accounted, DbFault
<1> QED
  BY <1>5, <1>6, <1>7, <1>8, <1>9 DEF Orderly

(* An UPDATE or an INSERT for one row that was claimed before. *)
LEMMA RowWrite ==
  ASSUME IndInv, NEW t \in TxIds, Tended(t),
         \/ status' = status
         \/ \E st \in Statuses \ {"QUEUED"} : status' = [status EXCEPT ![t] = st],
         \A u \in TxIds \ {t} : attempts'[u] = attempts[u],
         attempts[t] # <<>> => attempts'[t] # <<>>,
         status[t] = "FAILED" => status'[t] = "FAILED" \/ attempts'[t] # <<>>
  PROVE  \A u \in TxIds : RowTended(u)
<1>1. status \in [TxIds -> Statuses \cup {NULL}] /\ NULL \notin Statuses
  BY DomainAssumption DEF IndInv, TypeOK, RepoTypeOK
<1>2. Tended(t)'
  BY <1>1 DEF Tended
<1>3. \A u \in TxIds \ {t} : status'[u] = status[u]
  BY <1>1
<1> QED
  BY <1>2, <1>3 DEF RowTended

(* The poller. *)
LEMMA PollerTends ==
  ASSUME IndInv, RunPoller
  PROVE  Tends
<1>1. /\ PollerStep /\ UNCHANGED <<pl, sd, procVars>>
      /\ phase = "up" /\ phase' = phase
  BY DEF RunPoller, procVars
<1>2. UNCHANGED <<nonce, cursor>>
  BY <1>1 DEF PollerStep, FetchSubmitted, FetchSubmittedReceipts, ReadBlockNumber,
              FetchIncluded, FetchIncludedReceipts, ReadLatestAttempt,
              RebroadcastAfterReorg, FetchPage,
              ApplySubmitted, ApplyIncluded, Record, MarkReverted, MarkIncluded,
              MarkConfirmed, MarkWithReceipt, RevertToSubmitted, repoVars
<1>3. \A s \in Senders : HandsKept(s)
  BY <1>1 DEF HandsKept
<1>4. \A t \in TxIds : attempts[t] # <<>> => attempts'[t] # <<>>
  BY AttemptsStep, AttemptsGrow DEF Next
<1>5. ASSUME NEW x \in rp.page, ApplySubmitted(x) \/ ApplyIncluded(x)
      PROVE  \A t \in TxIds : RowTended(t)
  <2>1. x.tx \in TxIds /\ WasSubmitted(x.tx)
    BY DEF IndInv, TypeOK, PollerTypeOK, PollerState, Seen, RowsConsistent, PollerRows
  <2>2. Tended(x.tx) /\ attempts[x.tx] # <<>>
    BY <2>1, DomainAssumption DEF WasSubmitted, HandedOver, Signed, Tended
  <2>3. \/ status' = status
        \/ \E st \in Statuses \ {"QUEUED"} : status' = [status EXCEPT ![x.tx] = st]
    BY <1>5 DEF ApplySubmitted, ApplyIncluded, Record, MarkReverted, MarkIncluded,
                MarkConfirmed, MarkWithReceipt, RevertToSubmitted, repoVars, Statuses
  <2>4. \A u \in TxIds \ {x.tx} : attempts'[u] = attempts[u]
    <3>1. \/ attempts' = attempts
          \/ \E done : attempts' = [attempts EXCEPT ![x.tx] = Settled(@, x.hash, done)]
      BY <1>5 DEF ApplySubmitted, ApplyIncluded, Record, MarkReverted, MarkIncluded,
                  MarkConfirmed, RevertToSubmitted, repoVars
    <3>2. attempts \in [TxIds -> Seq(Attempt)]
      BY DEF IndInv, TypeOK, RepoTypeOK
    <3> QED
      BY <3>1, <3>2
  <2> QED
    BY <1>4, <2>1, <2>2, <2>3, <2>4, RowWrite
<1>6. ASSUME \/ FetchSubmitted \/ FetchSubmittedReceipts \/ ReadBlockNumber
             \/ FetchIncluded \/ FetchIncludedReceipts \/ ReadLatestAttempt
             \/ RebroadcastAfterReorg
      PROVE  \A t \in TxIds : RowTended(t)
  BY <1>6 DEF FetchSubmitted, FetchSubmittedReceipts, ReadBlockNumber,
              FetchIncluded, FetchIncludedReceipts, ReadLatestAttempt,
              RebroadcastAfterReorg,
              FetchPage, repoVars, RowTended
<1> QED
  BY <1>1, <1>2, <1>3, <1>5, <1>6 DEF Tends, PollerStep

(* The detector. *)
LEMMA DetectorTends ==
  ASSUME IndInv, RunDetector
  PROVE  Tends
<1>1. /\ DetectorStep /\ UNCHANGED <<pl, rp, procVars>>
      /\ phase = "up" /\ phase' = phase
  BY DEF RunDetector, procVars
<1>2. UNCHANGED <<nonce, cursor>>
  BY <1>1 DEF DetectorStep, FetchStuck, Skip, GiveUp, BumpGas, SendReplacement,
              SubmitReplacement, MarkFailed, MarkSubmitted, CreateAttempt, rows, repoVars
<1>3. \A s \in Senders : HandsKept(s)
  BY <1>1 DEF HandsKept
<1>4. \A t \in TxIds : attempts[t] # <<>> => attempts'[t] # <<>>
  BY AttemptsStep, AttemptsGrow DEF Next
<1>5. ASSUME NEW x \in sd.list, \/ Skip(x) \/ GiveUp(x) \/ BumpGas(x)
                                \/ SendReplacement(x) \/ SubmitReplacement(x)
      PROVE  \A t \in TxIds : RowTended(t)
  <2>1. x.tx \in TxIds /\ WasSubmitted(x.tx)
    BY DEF IndInv, TypeOK, DetectorTypeOK, DetectorState, Stuck, RowsConsistent,
           DetectorRows
  <2>2. Tended(x.tx) /\ attempts[x.tx] # <<>>
    BY <2>1, DomainAssumption DEF WasSubmitted, HandedOver, Signed, Tended
  <2>3. \/ status' = status
        \/ \E st \in Statuses \ {"QUEUED"} : status' = [status EXCEPT ![x.tx] = st]
    BY <1>5 DEF Skip, GiveUp, BumpGas, SendReplacement, SubmitReplacement, MarkFailed,
                MarkSubmitted, CreateAttempt, rows, repoVars, Statuses
  <2>4. \A u \in TxIds \ {x.tx} : attempts'[u] = attempts[u]
    <3>1. \/ attempts' = attempts
          \/ \E a : attempts' = [attempts EXCEPT ![x.tx] = Append(@, a)]
      BY <1>5 DEF Skip, GiveUp, BumpGas, SendReplacement, SubmitReplacement, MarkFailed,
                  MarkSubmitted, CreateAttempt, repoVars
    <3>2. attempts \in [TxIds -> Seq(Attempt)]
      BY DEF IndInv, TypeOK, RepoTypeOK
    <3> QED
      BY <3>1, <3>2
  <2> QED
    BY <1>4, <2>1, <2>2, <2>3, <2>4, RowWrite
<1>6. ASSUME FetchStuck PROVE \A t \in TxIds : RowTended(t)
  BY <1>6 DEF FetchStuck, repoVars, RowTended
<1> QED
  BY <1>1, <1>2, <1>3, <1>5, <1>6 DEF Tends, DetectorStep

(* A pipeline goes on without a row to sign for. *)
LEMMA HandsOff ==
  ASSUME IndInv, NEW s \in Senders, NEW p, pl' = [pl EXCEPT ![s] = p],
         p.pc \notin {"assign", "build"},
         NEW t \in TxIds, t = pl[s].tx,
         ~ DbFault /\ pl[s].pc = "build" => Resolved(t)'
  PROVE  \A r \in Senders : HandsKept(r)
<1>1. pl \in [Senders -> PipelineState]
  BY DEF IndInv, TypeOK, PipelineTypeOK
<1>2. pl'[s] = p /\ \A r \in Senders \ {s} : pl'[r] = pl[r]
  BY <1>1
<1> QED
  BY <1>2 DEF HandsKept

(* failTx, called while the pipeline holds a row. *)
LEMMA FailTxTends ==
  ASSUME IndInv, NEW s \in Senders, pl[s].pc # "idle", FailTx(s, pl[s].tx),
         phase = "up", UNCHANGED procVars
  PROVE  Tends
<1>1. PICK t \in TxIds : t = pl[s].tx /\ status[t] = "PENDING"
  BY RowInHand
<1>2. /\ UNCHANGED <<nonce, attempts, cursor>>
      /\ pl' = [pl EXCEPT ![s] = Idle]
      /\ \/ status' = [status EXCEPT ![t] = "FAILED"]
         \/ DbFault /\ status' = status
  BY <1>1 DEF FailTx, MarkFailed, rows, Goto
<1>3. status \in [TxIds -> Statuses \cup {NULL}] /\ Tended(t)
  BY <1>1, DomainAssumption DEF IndInv, TypeOK, RepoTypeOK, Tended, Statuses
<1>4. \A u \in TxIds : RowTended(u)
  <2>1. \/ status' = status
        \/ \E st \in Statuses \ {"QUEUED"} : status' = [status EXCEPT ![t] = st]
    BY <1>2 DEF Statuses
  <2> QED
    BY <1>1, <1>2, <1>3, <2>1, RowWrite
<1>5. ~ DbFault => Resolved(t)'
  BY <1>2, <1>3 DEF Resolved
<1>6. \A r \in Senders : HandsKept(r)
  BY <1>1, <1>2, <1>5, IdleState, HandsOff
<1> QED
  BY <1>2, <1>4, <1>6 DEF Tends, procVars

(* What a pipeline does once its row has a nonce. *)
LEMMA PipelineTends ==
  ASSUME IndInv, NEW s \in Senders, phase = "up", UNCHANGED procVars,
         BuildAndStore(s) \/ Send(s) \/ FailBroadcast(s) \/ Submit(s)
  PROVE  Tends
<1>0. pl[s].pc \in {"build", "send", "fail", "submit"}
  BY DEF BuildAndStore, Send, FailBroadcast, Submit
<1>1. PICK t \in TxIds :
        /\ t = pl[s].tx /\ status[t] = "PENDING" /\ pl[s] \in PipelineState
        /\ pl[s].pc \in {"send", "submit"} => Signed(t)
  <2>1. pl[s].pc # "idle"
    BY <1>0
  <2> QED
    BY <2>1, RowInHand
<1>2. /\ attempts \in [TxIds -> Seq(Attempt)]
      /\ status \in [TxIds -> Statuses \cup {NULL}] /\ Tended(t)
  BY <1>1, DomainAssumption DEF IndInv, TypeOK, RepoTypeOK, Tended, Statuses
<1>3. CASE FailTx(s, pl[s].tx)
  <2>1. pl[s].pc # "idle"
    BY <1>0
  <2> QED
    BY <1>3, <2>1, FailTxTends
<1>4. ASSUME NEW h, CreateAttempt(t, 1, h),
             Goto(s, [pl[s] EXCEPT !.pc = "send", !.hash = h])
      PROVE  Tends
  <2> DEFINE a == [hash |-> h, status |-> "BROADCAST"]
  <2>1. /\ attempts' = [attempts EXCEPT ![t] = Append(attempts[t], a)]
        /\ UNCHANGED <<status, nonce, cursor>>
    BY <1>4 DEF CreateAttempt
  <2>2. PICK p : p = [pl[s] EXCEPT !.pc = "send", !.hash = h]
    OBVIOUS
  <2>3. p.pc = "send" /\ pl' = [pl EXCEPT ![s] = p]
    BY <1>1, <1>4, <2>2 DEF PipelineState, Goto
  <2> HIDE DEF a
  <2>4. /\ \A u \in TxIds \ {t} : attempts'[u] = attempts[u]
        /\ attempts'[t] = Append(attempts[t], a)
    BY <1>2, <2>1
  <2>5. attempts'[t] # <<>>
    BY <1>2, <2>4, AppendKeeps
  <2>6. \A u \in TxIds : RowTended(u)
    BY <1>1, <1>2, <2>1, <2>4, <2>5, RowWrite
  <2>7. \A r \in Senders : HandsKept(r)
    <3>1. Resolved(t)'
      BY <2>5 DEF Resolved
    <3>2. p.pc \notin {"assign", "build"}
      BY <2>3
    <3> QED
      BY <1>1, <2>3, <3>1, <3>2, HandsOff
  <2> QED
    BY <2>1, <2>6, <2>7 DEF Tends, procVars
<1>5. ASSUME NEW p, p.pc \notin {"assign", "build"}, pl' = [pl EXCEPT ![s] = p],
             UNCHANGED <<nonce, cursor, attempts>>,
             \/ status' = status
             \/ status' = [status EXCEPT ![t] = "SUBMITTED"],
             DbFault \/ attempts[t] # <<>>
      PROVE  Tends
  <2>1. \/ status' = status
        \/ \E st \in Statuses \ {"QUEUED"} : status' = [status EXCEPT ![t] = st]
    BY <1>5 DEF Statuses
  <2>2. \A u \in TxIds : RowTended(u)
    BY <1>1, <1>2, <1>5, <2>1, RowWrite
  <2>3. \A r \in Senders : HandsKept(r)
    <3>1. ~ DbFault => Resolved(t)'
      BY <1>5 DEF Resolved
    <3> QED
      BY <1>1, <1>5, <3>1, HandsOff
  <2> QED
    BY <1>5, <2>2, <2>3 DEF Tends, procVars
<1>6. CASE BuildAndStore(s)
  <2>1. ASSUME DbFault \/ ~ AttemptNumberFree(t, 1), Goto(s, Idle), UNCHANGED repoVars
        PROVE  Tends
    <3>1. DbFault \/ attempts[t] # <<>>
      <4>1. attempts[t] = <<>> => DOMAIN attempts[t] = {}
        OBVIOUS
      <4> QED
        BY <2>1, <4>1 DEF AttemptNumberFree
    <3> QED
      BY <1>5, <2>1, <3>1, IdleState DEF Goto, repoVars
  <2> QED
    BY <1>1, <1>3, <1>4, <1>6, <2>1 DEF BuildAndStore
<1>7. CASE Send(s)
  <2>1. attempts[t] # <<>>
    BY <1>1, <1>7 DEF Send, Signed
  <2>2. ASSUME Goto(s, [pl[s] EXCEPT !.pc = "submit"]), UNCHANGED repoVars
        PROVE  Tends
    <3>1. PICK p : p = [pl[s] EXCEPT !.pc = "submit"]
      OBVIOUS
    <3>2. p.pc \notin {"assign", "build"} /\ pl' = [pl EXCEPT ![s] = p]
      BY <1>1, <2>2, <3>1 DEF PipelineState, Goto
    <3> QED
      BY <1>5, <2>1, <2>2, <3>2 DEF repoVars
  <2>3. ASSUME NEW pc \in {"send", "fail"}, UNCHANGED repoVars,
               Goto(s, [pl[s] EXCEPT !.tries = pl[s].tries + 1, !.pc = pc])
        PROVE  Tends
    <3>1. PICK p : p = [pl[s] EXCEPT !.tries = pl[s].tries + 1, !.pc = pc]
      OBVIOUS
    <3>2. p.pc \notin {"assign", "build"} /\ pl' = [pl EXCEPT ![s] = p]
      BY <1>1, <2>3, <3>1 DEF PipelineState, Goto
    <3> QED
      BY <1>5, <2>1, <2>3, <3>2 DEF repoVars
  <2> QED
    BY <1>7, <2>2, <2>3 DEF Send
<1>8. CASE Submit(s)
  <2>1. attempts[t] # <<>>
    BY <1>1, <1>8 DEF Submit, Signed
  <2>2. /\ pl' = [pl EXCEPT ![s] = Idle]
        /\ UNCHANGED <<nonce, cursor, attempts>>
        /\ \/ status' = status
           \/ status' = [status EXCEPT ![t] = "SUBMITTED"]
    BY <1>1, <1>8 DEF Submit, MarkSubmitted, Goto, repoVars
  <2> QED
    BY <1>5, <2>1, <2>2, IdleState
<1>9. CASE FailBroadcast(s)
  BY <1>3, <1>9 DEF FailBroadcast
<1> QED
  BY <1>6, <1>7, <1>8, <1>9

-----------------------------------------------------------------------------
(* Claiming, numbering, creating *)

(* The claimed row has no nonce yet. *)
LEMMA ClaimOrderly ==
  ASSUME IndInv, Orderly, NEW s \in Senders, phase = "up", Claim(s),
         UNCHANGED procVars
  PROVE  Orderly'
<1>1. PICK t \in TxIds : /\ ClaimNextQueued(s, t)
                         /\ Goto(s, [Idle EXCEPT !.pc = "assign", !.tx = t])
  BY DEF Claim
<1>2. /\ SenderOf[t] = s /\ status[t] = "QUEUED"
      /\ status' = [status EXCEPT ![t] = "PENDING"]
      /\ UNCHANGED <<nonce, attempts, cursor>> /\ phase' = "up"
  BY <1>1 DEF ClaimNextQueued, NextQueued, WithStatus, procVars
<1>3. status'[t] = "PENDING" /\ \A u \in TxIds \ {t} : status'[u] = status[u]
  BY <1>2 DEF IndInv, TypeOK, RepoTypeOK
<1>4. /\ pl[s].pc = "idle" /\ pl'[s].pc = "assign" /\ pl'[s].tx = t
      /\ \A r \in Senders \ {s} : pl'[r] = pl[r]
  <2>1. PICK p : p = [Idle EXCEPT !.pc = "assign", !.tx = t]
    OBVIOUS
  <2>2. p.pc = "assign" /\ p.tx = t
    BY <2>1 DEF Idle
  <2>3. pl \in [Senders -> PipelineState] /\ pl' = [pl EXCEPT ![s] = p]
    BY <1>1, <2>1 DEF Goto, IndInv, TypeOK, PipelineTypeOK
  <2> QED
    BY <2>2, <2>3 DEF Claim
<1>5. \A u \in TxIds \ {t} : Tended(u)' <=> Tended(u)
  BY <1>3 DEF Tended
<1>6. ~ Tended(t) /\ Tended(t)'
  BY <1>2, <1>3, DomainAssumption DEF Tended, Statuses
<1>7. Fresh'
  BY <1>2 DEF Fresh
<1>8. nonce[t] = NULL
  BY <1>6 DEF Orderly, Untouched
<1>9. Untouched'
  BY <1>2, <1>5, <1>6 DEF Orderly, Untouched
<1>10. RowsInWork'
  <2> SUFFICES ASSUME NEW r \in Senders PROVE RowInWork(r)'
    BY DEF RowsInWork
  <2>1. CASE r = s
    BY <1>2, <1>4, <1>8, <2>1 DEF RowInWork
  <2>2. CASE r # s
    BY <1>2, <1>4, <2>2 DEF Orderly, RowsInWork, RowInWork
  <2> QED
    BY <2>1, <2>2
<1>11. NoncesApart'
  BY <1>2 DEF Orderly, NoncesApart
<1>12. AllAccounted'
  <2> SUFFICES ASSUME NEW r \in Senders, cursor[r] # NULL,
                      NEW n \in 0..(cursor[r] - 1)
               PROVE  Accounted(r, n)'
    BY <1>2 DEF AllAccounted
  <2>1. PICK u \in TxIds :
          /\ SenderOf[u] = r /\ nonce[u] = n
          /\ DbFault \/ Resolved(u) \/ (pl[r].pc = "build" /\ pl[r].tx = u)
    BY DEF Orderly, AllAccounted, Accounted
  <2>2. Resolved(u) => Resolved(u)'
    BY <1>2, <1>3 DEF Resolved
  <2>3. DbFault \/ Resolved(u)' \/ (pl'[r].pc = "build" /\ pl'[r].tx = u)
    BY <1>4, <2>1, <2>2
  <2> QED
    BY <1>2, <2>1, <2>3 DEF Accounted, DbFault
<1> QED
  BY <1>7, <1>9, <1>10, <1>11, <1>12 DEF Orderly

LEMMA BelowNext ==
  ASSUME NEW c \in Nat
  PROVE  /\ c + 1 \in Nat /\ c < c + 1
         /\ \A n \in 0..((c + 1) - 1) : n = c \/ n \in 0..(c - 1)
         /\ \A n \in Nat : n < c => n < c + 1 /\ n # c
  OBVIOUS

(* The row in hand, which has none, gets the next nonce. *)
LEMMA AssignOrderly ==
  ASSUME IndInv, Orderly, NEW s \in Senders, pl[s].pc = "assign",
         AssignNonceAndMarkPending(s, pl[s].tx),
         Goto(s, [pl[s] EXCEPT !.pc = "build"]), UNCHANGED procVars,
         UNCHANGED chainVars
  PROVE  Orderly'
<1>1. PICK t \in TxIds : /\ t = pl[s].tx /\ SenderOf[t] = s
                         /\ status[t] = "PENDING" /\ pl[s] \in PipelineState
  BY RowInHand
<1>2. /\ cursor[s] # NULL
      /\ cursor' = [cursor EXCEPT ![s] = cursor[s] + 1]
      /\ nonce'  = [nonce EXCEPT ![t] = cursor[s]]
      /\ UNCHANGED <<status, attempts, orphaned>> /\ phase' = phase
  BY <1>1 DEF AssignNonceAndMarkPending, procVars, chainVars
<1> DEFINE c == cursor[s]
<1>3. c \in Nat
  BY <1>2 DEF IndInv, TypeOK, RepoTypeOK
<1>4. /\ cursor'[s] = c + 1 /\ nonce'[t] = c
      /\ \A r \in Senders \ {s} : cursor'[r] = cursor[r]
      /\ \A u \in TxIds \ {t} : nonce'[u] = nonce[u]
  BY <1>2 DEF IndInv, TypeOK, RepoTypeOK
<1> HIDE DEF c
<1>5. /\ pl'[s].pc = "build" /\ pl'[s].tx = t
      /\ \A r \in Senders \ {s} : pl'[r] = pl[r]
  <2>1. PICK p : p = [pl[s] EXCEPT !.pc = "build"]
    OBVIOUS
  <2>2. p.pc = "build" /\ p.tx = t
    BY <1>1, <2>1 DEF PipelineState
  <2>3. pl \in [Senders -> PipelineState] /\ pl' = [pl EXCEPT ![s] = p]
    BY <2>1 DEF Goto, IndInv, TypeOK, PipelineTypeOK
  <2> QED
    BY <2>2, <2>3
<1>6. nonce[t] = NULL
  BY <1>1 DEF Orderly, RowsInWork, RowInWork
<1>7. \A u \in TxIds : /\ Tended(u)' <=> Tended(u)
                       /\ Resolved(u)' <=> Resolved(u)
  BY <1>2 DEF Tended, Resolved
<1>8. Fresh'
  BY <1>2 DEF Orderly, Fresh
<1>9. Tended(t)
  BY <1>1, DomainAssumption DEF Tended, Statuses
<1>10. Untouched'
  BY <1>2, <1>4, <1>7, <1>9 DEF Orderly, Untouched
<1>11. RowsInWork'
  <2> SUFFICES ASSUME NEW r \in Senders, pl'[r].pc \in {"assign", "build"}
               PROVE  RowInWork(r)'
    BY DEF RowsInWork, RowInWork
  <2>1. CASE r = s
    BY <1>4, <1>5, <2>1 DEF RowInWork
  <2>2. CASE r # s
    <3>1. pl'[r] = pl[r] /\ pl[r].tx \in TxIds /\ SenderOf[pl[r].tx] = r
      BY <1>5, <2>2 DEF IndInv, RowsConsistent, PipelineRows, PipelineRow
    <3>2. RowInWork(r)
      BY DEF Orderly, RowsInWork
    <3>3. PICK v \in TxIds : v = pl[r].tx
      BY <3>1
    <3>4. v # t
      BY <1>1, <2>2, <3>1, <3>3
    <3> QED
      BY <1>4, <2>2, <3>1, <3>2, <3>3, <3>4 DEF RowInWork
  <2> QED
    BY <2>1, <2>2
<1>12. \A v \in TxIds : /\ SenderOf[v] \in Senders /\ nonce[v] \in Nat \cup {NULL}
                        /\ nonce[v] # NULL => cursor[SenderOf[v]] \in Nat
                                              /\ nonce[v] < cursor[SenderOf[v]]
  BY DomainAssumption DEF IndInv, TypeOK, RepoTypeOK, Orderly, NoncesApart
<1>13. NoncesApart'
  <2> SUFFICES ASSUME NEW v \in TxIds, nonce'[v] # NULL
               PROVE  /\ cursor'[SenderOf[v]] \in Nat
                      /\ nonce'[v] < cursor'[SenderOf[v]]
                      /\ \A u \in TxIds :
                           SenderOf[u] = SenderOf[v] /\ nonce'[u] = nonce'[v] => u = v
    BY DEF NoncesApart
  <2>1. cursor'[SenderOf[v]] \in Nat /\ nonce'[v] < cursor'[SenderOf[v]]
    <3>1. CASE v = t
      BY <1>1, <1>3, <1>4, <3>1, BelowNext
    <3>2. CASE v # t /\ SenderOf[v] = s
      <4>1. nonce[v] \in Nat /\ nonce[v] < c
        BY <1>4, <1>12, <3>2 DEF c
      <4> QED
        BY <1>3, <1>4, <3>2, <4>1, BelowNext
    <3>3. CASE v # t /\ SenderOf[v] # s
      BY <1>4, <1>12, <3>3
    <3> QED
      BY <3>1, <3>2, <3>3
  <2>2. ASSUME NEW u \in TxIds, u # t, SenderOf[u] = s PROVE nonce'[u] # c
    <3>1. CASE nonce[u] = NULL
      BY <1>3, <1>4, <2>2, <3>1, DomainAssumption
    <3>2. CASE nonce[u] # NULL
      <4>1. nonce[u] \in Nat /\ nonce[u] < c
        BY <1>12, <2>2, <3>2 DEF c
      <4> QED
        BY <1>3, <1>4, <2>2, <4>1, BelowNext
    <3> QED
      BY <3>1, <3>2
  <2>3. ASSUME NEW u \in TxIds, SenderOf[u] = SenderOf[v], nonce'[u] = nonce'[v]
        PROVE  u = v
    <3>1. CASE v = t
      BY <1>1, <1>4, <2>2, <2>3, <3>1
    <3>2. CASE u = t
      BY <1>1, <1>4, <2>2, <2>3, <3>2
    <3>3. CASE v # t /\ u # t
      BY <1>4, <2>3, <3>3 DEF Orderly, NoncesApart
    <3> QED
      BY <3>1, <3>2, <3>3
  <2> QED
    BY <2>1, <2>3
<1>14. AllAccounted'
  <2> SUFFICES ASSUME NEW r \in Senders, cursor'[r] # NULL,
                      NEW n \in 0..(cursor'[r] - 1)
               PROVE  Accounted(r, n)'
    BY DEF AllAccounted
  <2>1. CASE r = s /\ n = c
    BY <1>1, <1>4, <1>5, <2>1 DEF Accounted
  <2>2. CASE ~ (r = s /\ n = c)
    <3>1. cursor[r] # NULL /\ n \in 0..(cursor[r] - 1)
      <4>1. CASE r = s
        BY <1>2, <1>3, <1>4, <2>2, <4>1, BelowNext DEF c
      <4>2. CASE r # s
        BY <1>4, <4>2
      <4> QED
        BY <4>1, <4>2
    <3>2. PICK u \in TxIds :
            /\ SenderOf[u] = r /\ nonce[u] = n
            /\ DbFault \/ Resolved(u) \/ (pl[r].pc = "build" /\ pl[r].tx = u)
      BY <3>1 DEF Orderly, AllAccounted, Accounted
    <3>3. u # t
      <4>1. n # NULL
        BY DomainAssumption
      <4> QED
        BY <1>6, <3>2, <4>1
    <3>4. DbFault \/ Resolved(u)' \/ (pl'[r].pc = "build" /\ pl'[r].tx = u)
      BY <1>5, <1>7, <3>2
    <3> QED
      BY <1>4, <3>2, <3>3, <3>4 DEF Accounted, DbFault
  <2> QED
    BY <2>1, <2>2
<1> QED
  BY <1>8, <1>10, <1>11, <1>13, <1>14 DEF Orderly

(* A new row has no nonce and no attempt, whatever its id. *)
LEMMA CreateOrderly ==
  ASSUME IndInv, Orderly, NEW t \in TxIds, CreateTransfer(t)
  PROVE  Orderly'
<1>1. /\ status[t] = NULL /\ status' = [status EXCEPT ![t] = "QUEUED"]
      /\ UNCHANGED <<nonce, attempts, cursor, pl>> /\ phase' = "up"
  BY DEF CreateTransfer, CreateTransaction, memory, procVars
<1>2. status'[t] = "QUEUED" /\ \A u \in TxIds \ {t} : status'[u] = status[u]
  BY <1>1 DEF IndInv, TypeOK, RepoTypeOK
<1>3. \A u \in TxIds : Tended(u)' <=> Tended(u)
  BY <1>1, <1>2 DEF Tended
<1>4. \A u \in TxIds : Resolved(u) => Resolved(u)'
  BY <1>1, <1>2, DomainAssumption DEF Resolved, Statuses
<1>5. Fresh' /\ Untouched' /\ NoncesApart' /\ RowsInWork'
  BY <1>1, <1>3 DEF Orderly, Fresh, Untouched, NoncesApart, RowsInWork, RowInWork
<1>6. AllAccounted'
  <2> SUFFICES ASSUME NEW r \in Senders, cursor[r] # NULL,
                      NEW n \in 0..(cursor[r] - 1)
               PROVE  Accounted(r, n)'
    BY <1>1 DEF AllAccounted
  <2>1. PICK u \in TxIds :
          /\ SenderOf[u] = r /\ nonce[u] = n
          /\ DbFault \/ Resolved(u) \/ (pl[r].pc = "build" /\ pl[r].tx = u)
    BY DEF Orderly, AllAccounted, Accounted
  <2> QED
    BY <1>1, <1>4, <2>1 DEF Accounted, DbFault
<1> QED
  BY <1>5, <1>6 DEF Orderly

-----------------------------------------------------------------------------
(* The first start *)

(* Nothing was ever signed, so no endpoint has seen anything of the        *)
(* sender.                                                                 *)
LEMMA NothingSigned ==
  ASSUME IndInv, Orderly, phase # "up"
  PROVE  pool = {} /\ mined = {} /\ orphaned = {}
<1>1. \A t \in TxIds : ~ Tended(t)
  BY DEF Orderly, Fresh, Tended
<1>2. \A t \in TxIds : Hashes(t) = {}
  BY <1>1, NoAttempts DEF Orderly, Untouched, IndInv, TypeOK
<1> QED
  BY <1>2 DEF IndInv, BroadcastIsRecorded, Orderly, Fresh

LEMMA FirstNonce ==
  ASSUME IndInv, Orderly, phase # "up", NEW s \in Senders,
         NEW n \in PendingNonceAnswer(s)
  PROVE  n = 0
<1>1. UsedNonces(s) = {}
  BY NothingSigned DEF UsedNonces
<1> QED
  BY <1>1 DEF PendingNonceAnswer

LEMMA InitNonceOrderly ==
  ASSUME IndInv, Orderly, CursorsSet, NEW s \in Senders, InitNonceForSender(s)
  PROVE  Orderly' /\ cursor' = [cursor EXCEPT ![s] = 0]
<1>1. /\ phase = "init" /\ phase' = phase
      /\ UNCHANGED <<status, nonce, attempts, pl, orphaned>>
  BY DEF InitNonceForSender, rows, memory, chainVars
<1>2. pending[s] = 0
  BY DEF InitNonceForSender, CursorsSet
<1>3. IF cursor[s] = NULL THEN InitNonceCursor(s, 0) ELSE SetNonceCursor(s, 0)
  BY <1>2 DEF InitNonceForSender, StartNonce
<1>4. cursor' = [cursor EXCEPT ![s] = 0]
  BY <1>3 DEF InitNonceCursor, SetNonceCursor
<1>5. cursor'[s] = 0 /\ \A r \in Senders \ {s} : cursor'[r] = cursor[r]
  BY <1>4 DEF IndInv, TypeOK, RepoTypeOK
<1>6. \A t \in TxIds : nonce[t] = NULL
  BY <1>1 DEF Orderly, Fresh, Untouched, Tended
<1>7. Fresh' /\ Untouched' /\ NoncesApart'
  BY <1>1, <1>6 DEF Orderly, Fresh, Untouched, NoncesApart, Tended
<1>8. RowsInWork'
  <2>1. \A r \in Senders : pl[r].pc = "idle"
    BY <1>1 DEF IndInv, RowsConsistent, PipelineRows, PipelineRow
  <2> QED
    BY <1>1, <2>1 DEF RowsInWork, RowInWork
<1>9. AllAccounted'
  <2> SUFFICES ASSUME NEW r \in Senders, cursor'[r] # NULL,
                      NEW k \in 0..(cursor'[r] - 1)
               PROVE  Accounted(r, k)'
    BY DEF AllAccounted
  <2>1. r # s
    BY <1>5
  <2>2. Accounted(r, k)
    BY <1>5, <2>1 DEF Orderly, AllAccounted
  <2> QED
    BY <1>1, <2>2 DEF Accounted, Resolved, DbFault
<1> QED
  BY <1>4, <1>7, <1>8, <1>9 DEF Orderly

(* Before the first start there is nothing to recover. *)
LEMMA StartTends ==
  ASSUME IndInv, Orderly,
         StartRecovery \/ Start \/ \E s \in Senders : AskPendingNonce(s)
  PROVE  Tends
<1>1. phase # "up" /\ \A t \in TxIds : status[t] = NULL
  BY DEF StartRecovery, Start, AskPendingNonce, Orderly, Fresh
<1>2. \A s \in Senders : pl[s].pc = "idle"
  BY <1>1 DEF IndInv, RowsConsistent, PipelineRows, PipelineRow
<1>3. "PENDING" # NULL
  BY DomainAssumption DEF Statuses
<1>4. CASE StartRecovery
  <2>1. /\ status' = [t \in TxIds |-> IF status[t] = "PENDING" THEN "QUEUED"
                                                              ELSE status[t]]
        /\ nonce' = [t \in TxIds |-> IF status[t] = "PENDING" THEN NULL
                                                             ELSE nonce[t]]
        /\ UNCHANGED <<attempts, cursor, pl, orphaned>>
    BY <1>4 DEF StartRecovery, ResetPendingToQueued, memory, chainVars
  <2>2. nonce' = nonce /\ \A t \in TxIds : status'[t] = status[t]
    BY <1>1, <1>3, <2>1 DEF IndInv, TypeOK, RepoTypeOK
  <2> QED
    BY <1>1, <2>1, <2>2 DEF Tends, RowTended, HandsKept
<1>5. CASE Start
  <2>1. /\ UNCHANGED <<status, nonce, attempts, cursor>> /\ phase' = "up"
        /\ \A s \in Senders : pl'[s].pc = "idle"
    BY <1>5, IdleState DEF Start, repoVars
  <2> QED
    BY <1>2, <2>1 DEF Tends, RowTended, HandsKept
<1>6. ASSUME NEW s \in Senders, AskPendingNonce(s) PROVE Tends
  BY <1>6 DEF AskPendingNonce, repoVars, chainVars, memory, Tends, RowTended,
              HandsKept
<1> QED
  BY <1>4, <1>5, <1>6

(* Blocks and reorgs before the first start find nothing to move. *)
LEMMA ChainTends ==
  ASSUME IndInv, Orderly, RunChain
  PROVE  Tends
<1>1. /\ UNCHANGED <<status, nonce, attempts, cursor, pl>> /\ phase' = phase
  BY DEF RunChain, repoVars, memory, procVars
<1>2. ASSUME phase # "up" PROVE orphaned' = orphaned
  <2>1. mined = {}
    BY <1>2, NothingSigned
  <2>2. \A d : Dropped(d) = {}
    BY <2>1 DEF Dropped
  <2> QED
    BY <2>2 DEF RunChain, MineTx, MineEmpty, ReorgStep, Reorg, Evict
<1> QED
  BY <1>1, <1>2 DEF Tends, RowTended, HandsKept

(* A cursor that is set stays set, and the goroutines start when all are.  *)
LEMMA CursorsSetStep ==
  ASSUME IndInv, Orderly, CursorsSet, [Next]_vars, ~ Crash
  PROVE  CursorsSet'
<1>0. cursor \in [Senders -> Nat \cup {NULL}]
  BY DEF IndInv, TypeOK, RepoTypeOK
<1>1. ASSUME UNCHANGED procVars,
             \A s \in Senders : cursor[s] # NULL => cursor'[s] # NULL
      PROVE  CursorsSet'
  BY <1>1 DEF CursorsSet, procVars
<1>2. ASSUME NEW s \in Senders, RunPipeline(s) PROVE CursorsSet'
  <2>1. UNCHANGED procVars
    BY <1>2 DEF RunPipeline
  <2>2. \/ cursor' = cursor
        \/ cursor[s] # NULL /\ cursor' = [cursor EXCEPT ![s] = cursor[s] + 1]
    BY <1>2 DEF RunPipeline, PipelineStep, Claim, ClaimNextQueued, AssignNonce,
                AssignNonceAndMarkPending, BuildAndStore, CreateAttempt, Send,
                FailBroadcast, Submit, MarkSubmitted, FailTx, MarkFailed, repoVars
  <2>3. cursor[s] # NULL => cursor[s] + 1 # NULL
    BY <1>0, DomainAssumption
  <2> QED
    BY <1>0, <1>1, <2>1, <2>2, <2>3
<1>3. CASE RunPoller \/ RunDetector
  BY <1>1, <1>3, PollerTends, DetectorTends DEF Tends, RunPoller, RunDetector
<1>4. CASE RunChain \/ UNCHANGED vars \/ \E t \in TxIds : CreateTransfer(t)
  BY <1>1, <1>4 DEF RunChain, vars, repoVars, CreateTransfer, CreateTransaction
<1>5. CASE StartRecovery
  BY <1>5 DEF StartRecovery, CursorsSet
<1>6. CASE Start
  BY <1>6 DEF Start, repoVars, CursorsSet
<1>7. ASSUME NEW s \in Senders, AskPendingNonce(s) PROVE CursorsSet'
  <2>1. PICK n \in PendingNonceAnswer(s) : pending' = [pending EXCEPT ![s] = n]
    BY <1>7 DEF AskPendingNonce
  <2>2. n = 0
    BY <1>7, FirstNonce DEF AskPendingNonce
  <2>3. pending \in [Senders -> Nat \cup {NULL}]
    BY DEF IndInv, TypeOK, ManagerTypeOK
  <2>4. \A r \in Senders : pending'[r] # NULL => pending'[r] = 0
    BY <2>1, <2>2, <2>3 DEF CursorsSet
  <2> QED
    BY <1>7, <2>4 DEF AskPendingNonce, repoVars, CursorsSet
<1>8. ASSUME NEW s \in Senders, InitNonceForSender(s) PROVE CursorsSet'
  <2>1. cursor' = [cursor EXCEPT ![s] = 0]
    BY <1>8, InitNonceOrderly
  <2>2. cursor'[s] # NULL /\ \A r \in Senders \ {s} : cursor'[r] = cursor[r]
    BY <1>0, <2>1, DomainAssumption
  <2>3. /\ phase = "init" /\ phase' = phase /\ uninit' = uninit \ {s}
        /\ pending' = NothingAsked
    BY <1>8 DEF InitNonceForSender
  <2>4. \A r \in Senders \ uninit' : cursor'[r] # NULL
    BY <2>2, <2>3 DEF CursorsSet
  <2>5. \A r \in Senders : pending'[r] = NULL
    BY <2>3 DEF NothingAsked
  <2> QED
    BY <2>3, <2>4, <2>5 DEF CursorsSet
<1> QED
  BY <1>2, <1>3, <1>4, <1>5, <1>6, <1>7, <1>8 DEF Next, ManagerStep

LEMMA InitFirstLife == Init => FirstLife
<1> SUFFICES ASSUME Init PROVE Orderly /\ CursorsSet
  BY DEF FirstLife
<1>1. /\ \A t \in TxIds : /\ status[t] = NULL /\ nonce[t] = NULL
                          /\ attempts[t] = <<>>
      /\ \A s \in Senders : cursor[s] = NULL /\ pl[s].pc = "idle"
      /\ orphaned = {}
  BY DEF Init, RepoInit, PipelineInit, Idle, ChainInit
<1>2. CursorsSet
  BY DEF Init, ManagerInit, NothingAsked, CursorsSet
<1> QED
  BY <1>1, <1>2 DEF Orderly, Fresh, Untouched, RowsInWork, RowInWork,
                    NoncesApart, AllAccounted

LEMMA NextOrderly ==
  ASSUME IndInv, Orderly, CursorsSet, [Next]_vars, ~ Crash
  PROVE  Orderly'
<1>1. ASSUME NEW t \in TxIds, CreateTransfer(t) PROVE Orderly'
  BY <1>1, CreateOrderly
<1>2. ASSUME NEW s \in Senders, RunPipeline(s) PROVE Orderly'
  <2>1. phase = "up" /\ PipelineStep(s) /\ UNCHANGED procVars
    BY <1>2 DEF RunPipeline
  <2>2. CASE Claim(s)
    BY <2>1, <2>2, ClaimOrderly
  <2>3. CASE AssignNonce(s)
    <3>1. pl[s].pc = "assign" /\ UNCHANGED chainVars
      BY <2>3 DEF AssignNonce
    <3>2. CASE FailTx(s, pl[s].tx)
      <4>1. pl[s].pc # "idle"
        BY <3>1
      <4> QED
        BY <2>1, <3>2, <4>1, FailTxTends, TendsKeeps
    <3>3. CASE /\ AssignNonceAndMarkPending(s, pl[s].tx)
               /\ Goto(s, [pl[s] EXCEPT !.pc = "build"])
      BY <2>1, <3>1, <3>3, AssignOrderly
    <3> QED
      BY <2>3, <3>2, <3>3 DEF AssignNonce
  <2>4. CASE BuildAndStore(s) \/ Send(s) \/ FailBroadcast(s) \/ Submit(s)
    BY <2>1, <2>4, PipelineTends, TendsKeeps
  <2> QED
    BY <2>1, <2>2, <2>3, <2>4 DEF PipelineStep
<1>3. CASE RunPoller \/ RunDetector \/ RunChain
  BY <1>3, PollerTends, DetectorTends, ChainTends, TendsKeeps
<1>4. CASE UNCHANGED vars
  <2>1. Tends
    BY <1>4 DEF vars, repoVars, chainVars, memory, procVars, Tends, RowTended,
                HandsKept
  <2> QED
    BY <2>1, TendsKeeps
<1>5. CASE ManagerStep
  BY <1>5, StartTends, TendsKeeps, InitNonceOrderly DEF ManagerStep
<1> QED
  BY <1>1, <1>2, <1>3, <1>4, <1>5 DEF Next

LEMMA NextFirstLife ==
  ASSUME IndInv, FirstLife, [Next]_vars
  PROVE  FirstLife'
<1>1. CASE Crash
  <2>1. crashes \in Nat /\ crashes' = crashes + 1
    BY <1>1 DEF Crash, IndInv, TypeOK, ManagerTypeOK
  <2> QED
    BY <2>1 DEF FirstLife
<1>2. CASE ~ Crash
  <2>1. crashes' = crashes
    BY <1>2 DEF Next, CreateTransfer, RunPipeline, RunPoller, RunDetector, RunChain,
                ManagerStep, StartRecovery, AskPendingNonce, InitNonceForSender,
                Start, procVars, vars
  <2> QED
    BY <1>2, <2>1, NextOrderly, CursorsSetStep DEF FirstLife
<1> QED
  BY <1>1, <1>2

LEMMA FirstLifeHolds == Spec => []FirstLife
<1>1. IndInv /\ FirstLife /\ [Next]_vars => FirstLife'
  BY NextFirstLife
<1> QED
  BY <1>1, InitFirstLife, Invariance, PTL DEF Spec

-----------------------------------------------------------------------------
(* "The goroutine IS the lock": until the process ends, the nonces of a    *)
(* sender's rows are those below its cursor, each at one row, whatever the *)
(* order in which the rows appeared (AssignNonceAndMarkPending).           *)
THEOREM NoncesOnce == Spec => []EachNonceOnce
<1>1. ASSUME IndInv, Orderly, CursorsSet, phase = "up", NEW s \in Senders
      PROVE  /\ {nonce[t] : t \in RowsOf(s)} \ {NULL} = 0..(cursor[s] - 1)
             /\ \A t, u \in RowsOf(s) :
                  nonce[t] # NULL /\ nonce[t] = nonce[u] => t = u
  <2>1. cursor[s] \in Nat /\ nonce \in [TxIds -> Nat \cup {NULL}]
    BY <1>1 DEF IndInv, TypeOK, RepoTypeOK, CursorsSet
  <2>2. \A t \in RowsOf(s) : nonce[t] # NULL => nonce[t] \in 0..(cursor[s] - 1)
    <3> SUFFICES ASSUME NEW t \in RowsOf(s), nonce[t] # NULL
                 PROVE  nonce[t] \in 0..(cursor[s] - 1)
      OBVIOUS
    <3>1. nonce[t] \in Nat /\ nonce[t] < cursor[s]
      BY <1>1, <2>1 DEF RowsOf, Orderly, NoncesApart
    <3> QED
      BY <2>1, <3>1
  <2>3. \A n \in 0..(cursor[s] - 1) : n # NULL /\ \E t \in RowsOf(s) : nonce[t] = n
    <3> SUFFICES ASSUME NEW n \in 0..(cursor[s] - 1)
                 PROVE  n # NULL /\ \E t \in RowsOf(s) : nonce[t] = n
      OBVIOUS
    <3>1. cursor[s] # NULL /\ n # NULL
      BY <2>1, DomainAssumption
    <3> QED
      BY <1>1, <3>1 DEF Orderly, AllAccounted, Accounted, RowsOf
  <2>4. \A t, u \in RowsOf(s) : nonce[t] # NULL /\ nonce[t] = nonce[u] => t = u
    BY <1>1 DEF RowsOf, Orderly, NoncesApart
  <2> QED
    BY <2>2, <2>3, <2>4
<1>2. IndInv /\ FirstLife => EachNonceOnce
  BY <1>1 DEF FirstLife, EachNonceOnce
<1> QED
  BY <1>2, Invariance, FirstLifeHolds, PTL

(* "Nonce gaps stall everything": what a SUBMITTED row waits behind has    *)
(* been signed or has failed, as long as the process has not crashed and   *)
(* the database does not fail: the pipeline takes the next row only when   *)
(* it has stored an attempt for this one or failed it (BuildAndStore), and *)
(* the row in its hands has the greatest nonce of all.                     *)
THEOREM GapsAreFailures == Spec => [](crashes = 0 /\ ~ DbFault => GapsOnlyOfFailed)
<1>1. ASSUME IndInv, Orderly, ~ DbFault, NEW t \in TxIds, status[t] = "SUBMITTED",
             NEW n \in 0..(nonce[t] - 1)
      PROVE  \E u \in TxIds : /\ SenderOf[u] = SenderOf[t] /\ nonce[u] = n
                              /\ attempts[u] # <<>> \/ status[u] = "FAILED"
  <2>1. nonce[t] \in Nat
    BY <1>1, DomainAssumption DEF IndInv, RowsConsistent, SubmittedRows, WasSubmitted,
                                  Signed
  <2> DEFINE s == SenderOf[t]
  <2>2. s \in Senders /\ cursor[s] \in Nat /\ nonce[t] < cursor[s]
    BY <1>1, <2>1, DomainAssumption DEF Orderly, NoncesApart
  <2> HIDE DEF s
  <2>3. n \in Nat /\ n < nonce[t] /\ n \in 0..(cursor[s] - 1) /\ n + 1 # cursor[s]
    BY <2>1, <2>2
  <2>4. PICK u \in TxIds :
          /\ SenderOf[u] = s /\ nonce[u] = n
          /\ Resolved(u) \/ (pl[s].pc = "build" /\ pl[s].tx = u)
    <3>1. cursor[s] # NULL
      BY <2>2, DomainAssumption
    <3> QED
      BY <1>1, <2>2, <2>3, <3>1 DEF Orderly, AllAccounted, Accounted
  <2>5. ~ (pl[s].pc = "build" /\ pl[s].tx = u)
    BY <1>1, <2>2, <2>3, <2>4 DEF Orderly, RowsInWork, RowInWork
  <2> QED
    BY <2>4, <2>5 DEF Resolved, s
<1>2. IndInv /\ FirstLife => (crashes = 0 /\ ~ DbFault => GapsOnlyOfFailed)
  BY <1>1 DEF FirstLife, GapsOnlyOfFailed
<1> QED
  BY <1>2, Invariance, FirstLifeHolds, PTL
=============================================================================

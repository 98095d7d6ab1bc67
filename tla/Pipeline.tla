------------------------------ MODULE Pipeline ------------------------------
(***************************************************************************)
(* internal/pipeline/pipeline.go: the goroutine of each sender.  It claims *)
(* the sender's QUEUED rows one at a time and takes each through nonce     *)
(* assignment, estimation, signing, the first attempt and the broadcast.   *)
(* Steps between which no other goroutine can see or change anything of    *)
(* the row (estimate, sign and store) are one action.                      *)
(***************************************************************************)
EXTENDS Repository, EvmChain

CONSTANTS
    MaxBroadcastRetries,   \* maxBroadcastRetries, 5 in the code
    InitialGas             \* fee levels an estimate may give

ASSUME PipelineAssumption ==
    /\ MaxBroadcastRetries \in Nat \ {0}
    /\ InitialGas \subseteq Nat

VARIABLE pl  \* per sender: where processTx is, and its local variables

PipelinePcs == {"idle", "assign", "build", "send", "fail", "submit"}

PipelineState ==
    [pc    : PipelinePcs,
     tx    : TxIds \cup {NULL},        \* row being processed
     hash  : SignedTx \cup {NULL},     \* signedTx
     tries : Nat]                      \* failed broadcasts

PipelineTypeOK == pl \in [Senders -> PipelineState]

Idle == [pc |-> "idle", tx |-> NULL, hash |-> NULL, tries |-> 0]

PipelineInit == pl = [s \in Senders |-> Idle]

Goto(s, st) == pl' = [pl EXCEPT ![s] = st]

(* failTx ignores the error of MarkFailed and logs all the same. *)
FailTx(s, t) ==
    /\ \/ MarkFailed(t)
       \/ DbFault /\ UNCHANGED <<rows, attempts, cursor>>
    /\ LogStateTransition(t, "PENDING", "FAILED")
    /\ Goto(s, Idle)

(* Run: claim, then processTx's first log entry. *)
Claim(s) ==
    /\ pl[s].pc = "idle"
    /\ \E t \in TxIds :
          /\ ClaimNextQueued(s, t)
          /\ LogStateTransition(t, "QUEUED", "PENDING")
          /\ Goto(s, [Idle EXCEPT !.pc = "assign", !.tx = t])
    /\ UNCHANGED chainVars

AssignNonce(s) ==
    /\ pl[s].pc = "assign"
    /\ \/ /\ AssignNonceAndMarkPending(s, pl[s].tx)
          /\ Goto(s, [pl[s] EXCEPT !.pc = "build"])
          /\ UNCHANGED audit
       \/ DbFault /\ FailTx(s, pl[s].tx)
    /\ UNCHANGED chainVars

(* buildAndSign with an estimated fee; the nonce is the one just assigned. *)
Build(s, t, g) == [from |-> s, pay |-> PayloadOf[t], nonce |-> nonce[t],
                   gas |-> g]

(* Mutant of BuildAndStore: the error of CreateAttempt is ignored. *)
BuildAndStoreOrNot(s) ==
    /\ pl[s].pc = "build"
    /\ \/ "estimate" \in Faults /\ FailTx(s, pl[s].tx)
       \/ \E g \in InitialGas :
            LET h == Build(s, pl[s].tx, g) IN
              /\ \/ CreateAttempt(pl[s].tx, 1, h)
                 \/ DbFault /\ UNCHANGED <<rows, attempts, cursor>>
              /\ Goto(s, [pl[s] EXCEPT !.pc = "send", !.hash = h])
              /\ UNCHANGED audit
    /\ UNCHANGED chainVars

BuildAndStore(s) ==
    /\ pl[s].pc = "build"
    /\ \/ "estimate" \in Faults /\ FailTx(s, pl[s].tx)
       \/ \E g \in InitialGas :
            LET h == Build(s, pl[s].tx, g) IN
              /\ CreateAttempt(pl[s].tx, 1, h)
              /\ Goto(s, [pl[s] EXCEPT !.pc = "send", !.hash = h])
              /\ UNCHANGED audit
       \/ /\ DbFault \/ ~ AttemptNumberFree(pl[s].tx, 1)
          /\ Goto(s, Idle)
          /\ UNCHANGED repoVars
    /\ UNCHANGED chainVars

(* One turn of the retry loop.  The loop sleeps after every error, also    *)
(* the last, before it is looked at again.                                 *)
Send(s) ==
    /\ pl[s].pc = "send"
    /\ \/ /\ SendOk(pl[s].hash)
          /\ Goto(s, [pl[s] EXCEPT !.pc = "submit"])
          /\ UNCHANGED repoVars
       \/ /\ SendErr(pl[s].hash)
          /\ Goto(s, [pl[s] EXCEPT
                !.tries = pl[s].tries + 1,
                !.pc = IF pl[s].tries + 1 < MaxBroadcastRetries THEN "send"
                                                                ELSE "fail"])
          /\ UNCHANGED repoVars

(* "broadcast permanently failed" *)
FailBroadcast(s) ==
    /\ pl[s].pc = "fail"
    /\ FailTx(s, pl[s].tx)
    /\ UNCHANGED chainVars

Submit(s) ==
    /\ pl[s].pc = "submit"
    /\ \/ /\ MarkSubmitted(pl[s].tx, pl[s].hash)
          /\ LogStateTransition(pl[s].tx, "PENDING", "SUBMITTED")
       \/ DbFault /\ UNCHANGED repoVars
    /\ Goto(s, Idle)
    /\ UNCHANGED chainVars

PipelineStep(s) ==
    \/ Claim(s) \/ AssignNonce(s) \/ BuildAndStore(s)
    \/ Send(s) \/ FailBroadcast(s) \/ Submit(s)
=============================================================================

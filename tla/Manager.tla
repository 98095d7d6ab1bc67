------------------------------ MODULE Manager -------------------------------
(***************************************************************************)
(* internal/pipeline/manager.go and the start-up of cmd/tx-sender/main.go: *)
(* crash recovery, the nonce cursors, and the start of the goroutines.     *)
(* Everything the goroutines keep is in memory and is lost with the        *)
(* process; the repository and the chain are not.                          *)
(***************************************************************************)
EXTENDS Pipeline, ReceiptPoller, StuckDetector

CONSTANT MaxCrashes  \* bound: number of crashes

ASSUME ManagerAssumption == MaxCrashes \in Nat

VARIABLES
    phase,    \* "down", "init" (InitNonces runs) or "up"
    uninit,   \* senders whose nonce InitNonces has still to set
    pending,  \* of the sender at hand: the answer of PendingNonceAt
    crashes   \* number of crashes so far

procVars == <<phase, uninit, pending, crashes>>
memory   == <<pl, rp, sd>>

ManagerTypeOK ==
    /\ phase \in {"down", "init", "up"}
    /\ uninit \subseteq Senders
    /\ pending \in [Senders -> Nat \cup {NULL}]
    /\ crashes \in Nat

NothingAsked == [s \in Senders |-> NULL]

ManagerInit ==
    phase = "down" /\ uninit = {} /\ pending = NothingAsked /\ crashes = 0

(* Mutant of StartRecovery: recovery while the goroutines run. *)
StartRecoveryAnytime ==
    /\ phase # "init"
    /\ ResetPendingToQueued
    /\ phase' = "init" /\ uninit' = Senders
    /\ UNCHANGED <<chainVars, memory, pending, crashes>>

(* InitNonces begins by resetting what a crash left PENDING. *)
StartRecovery ==
    /\ phase = "down"
    /\ ResetPendingToQueued
    /\ phase' = "init" /\ uninit' = Senders
    /\ UNCHANGED <<chainVars, memory, pending, crashes>>

(* initNonceForSender, one sender after the other: the chain is asked ...  *)
AskPendingNonce(s) ==
    /\ phase = "init" /\ s \in uninit /\ pending = NothingAsked
    /\ \E n \in PendingNonceAnswer(s) : pending' = [pending EXCEPT ![s] = n]
    /\ UNCHANGED <<repoVars, chainVars, memory, phase, uninit, crashes>>

(* The nonce to start from is the chain's, also when the cursor is ahead. *)
StartNonce(s, pendingNonce) == pendingNonce

(* ... and then the cursor is read and written. *)
InitNonceForSender(s) ==
    /\ phase = "init" /\ pending[s] # NULL
    /\ IF cursor[s] = NULL THEN InitNonceCursor(s, StartNonce(s, pending[s]))
                           ELSE SetNonceCursor(s, StartNonce(s, pending[s]))
    /\ uninit' = uninit \ {s}
    /\ pending' = NothingAsked
    /\ UNCHANGED <<rows, attempts, audit, chainVars, memory, phase, crashes>>

Start ==
    /\ phase = "init" /\ uninit = {}
    /\ phase' = "up"
    /\ pl' = [s \in Senders |-> Idle] /\ rp' = NewPoll /\ sd' = NoCheck
    /\ UNCHANGED <<repoVars, chainVars, uninit, pending, crashes>>

(* The process ends at any point, or run returns the error of InitNonces. *)
Crash ==
    /\ phase # "down" /\ crashes < MaxCrashes
    /\ phase' = "down" /\ uninit' = {} /\ pending' = NothingAsked
    /\ crashes' = crashes + 1
    /\ pl' = [s \in Senders |-> Idle] /\ rp' = NewPoll /\ sd' = NoCheck
    /\ UNCHANGED <<repoVars, chainVars>>

ManagerStep ==
    \/ StartRecovery
    \/ \E s \in Senders : AskPendingNonce(s) \/ InitNonceForSender(s)
    \/ Start
=============================================================================

--------------------------- MODULE StuckDetector ----------------------------
(***************************************************************************)
(* internal/pipeline/stuck.go: the goroutine that raises the fee of        *)
(* transactions that stay SUBMITTED too long.  check reads the rows that   *)
(* are past the threshold and goes through that list; what it writes later *)
(* is decided by the list, not by what the rows have become.               *)
(***************************************************************************)
EXTENDS Repository, EvmChain

CONSTANT MaxGasBumps  \* maxGasBumps, 5 in the code

ASSUME DetectorAssumption == MaxGasBumps \in Nat

VARIABLE sd  \* where check is, and its local variables

DetectorPcs == {"scan", "send", "submit"}

Stuck == [tx : TxIds, nonce : Nat \cup {NULL}]

DetectorState ==
    [pc   : DetectorPcs,
     list : SUBSET Stuck,              \* txs of check still to handle
     hash : SignedTx \cup {NULL}]      \* replacement being sent

DetectorTypeOK == sd \in DetectorState

NoCheck == [pc |-> "scan", list |-> {}, hash |-> NULL]

DetectorInit == sd = NoCheck

(* txs is in the order of the ids. *)
Current(x) == x \in sd.list /\ \A y \in sd.list : x.tx <= y.tx

Done(x) == sd' = [NoCheck EXCEPT !.list = sd.list \ {x}]

(* GetStuckTransactions: any of the SUBMITTED rows may be past the cutoff. *)
FetchStuck ==
    /\ sd = NoCheck
    /\ \E late \in SUBSET WithStatus("SUBMITTED") \ {{}} :
         sd' = [NoCheck EXCEPT !.list =
                  {[tx |-> t, nonce |-> nonce[t]] : t \in late}]
    /\ UNCHANGED <<repoVars, chainVars>>

(* No bump yet: the last attempt is too recent, the row has no nonce, or   *)
(* reading, signing or storing failed.                                     *)
Skip(x) ==
    /\ sd.pc = "scan" /\ Current(x)
    /\ Done(x)
    /\ UNCHANGED <<repoVars, chainVars>>

(* Mutant of BumpsExceeded: one bump more. *)
BumpsExceededByOne(t) == Len(attempts[t]) > MaxGasBumps + 1

BumpsExceeded(t) == Len(attempts[t]) > MaxGasBumps

GiveUp(x) ==
    /\ sd.pc = "scan" /\ Current(x)
    /\ BumpsExceeded(x.tx)
    /\ \/ MarkFailed(x.tx)
       \/ DbFault /\ UNCHANGED <<rows, attempts, cursor>>
    /\ LogStateTransition(x.tx, "SUBMITTED", "FAILED")
    /\ Done(x)
    /\ UNCHANGED chainVars

(* Mutant of Replacement: signed with the sender's next nonce. *)
ReplacementWithNextNonce(x) ==
    [from |-> SenderOf[x.tx], pay |-> PayloadOf[x.tx],
     nonce |-> cursor[SenderOf[x.tx]],
     gas |-> attempts[x.tx][Len(attempts[x.tx])].hash.gas + 1]

(* The replacement: same row, the nonce that was read, a higher fee than   *)
(* the last attempt's.                                                     *)
Replacement(x) ==
    [from |-> SenderOf[x.tx], pay |-> PayloadOf[x.tx], nonce |-> x.nonce,
     gas |-> attempts[x.tx][Len(attempts[x.tx])].hash.gas + 1]

BumpGas(x) ==
    /\ sd.pc = "scan" /\ Current(x)
    /\ ~ BumpsExceeded(x.tx)
    /\ x.nonce # NULL
    /\ CreateAttempt(x.tx, Len(attempts[x.tx]) + 1, Replacement(x))
    /\ sd' = [sd EXCEPT !.pc = "send", !.hash = Replacement(x)]
    /\ UNCHANGED <<audit, chainVars>>

SendReplacement(x) ==
    /\ sd.pc = "send" /\ Current(x)
    /\ \/ SendOk(sd.hash) /\ sd' = [sd EXCEPT !.pc = "submit"]
       \/ SendErr(sd.hash) /\ Done(x)
    /\ UNCHANGED repoVars

(* The update is not conditional on the row being SUBMITTED still. *)
SubmitReplacement(x) ==
    /\ sd.pc = "submit" /\ Current(x)
    /\ \/ MarkSubmitted(x.tx, sd.hash)
       \/ DbFault /\ UNCHANGED <<rows, attempts, cursor>>
    /\ LogStateTransition(x.tx, "SUBMITTED", "SUBMITTED")
    /\ Done(x)
    /\ UNCHANGED chainVars

DetectorStep ==
    \/ FetchStuck
    \/ \E x \in sd.list : \/ Skip(x)
                          \/ GiveUp(x)
                          \/ BumpGas(x)
                          \/ SendReplacement(x)
                          \/ SubmitReplacement(x)
=============================================================================

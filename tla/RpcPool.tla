------------------------------ MODULE RpcPool -------------------------------
(***************************************************************************)
(* internal/infrastructure/ethereum/client.go: the pool of RPC endpoints   *)
(* of a chain.  The goroutines of the service call through it while a      *)
(* health check goes round the endpoints and recovery goroutines, one for  *)
(* every markUnhealthy, wait for theirs to come back.  They share the      *)
(* atomic flags healthy and nothing else; a probe and the store of its     *)
(* result are separate steps, and so is each load in a loop over the       *)
(* endpoints.                                                              *)
(*                                                                         *)
(* An endpoint that is up answers, one that is down refuses, and one that  *)
(* hangs gives no answer: probes have a timeout of five seconds, the calls *)
(* of the service have none of their own, so they wait until it answers.   *)
(***************************************************************************)
EXTENDS Integers, FiniteSets

CONSTANTS
    NumEndpoints,   \* endpoints that could be dialled
    Callers,        \* goroutines of the service that call the chain
    MaxChanges,     \* bound: how often endpoints come and go
    MaxErrors,      \* bound: errors of endpoints that are up
    NULL

(* PendingNonceAt, NonceAt, SuggestGasPrice, LatestBaseFee, CodeAt and     *)
(* BatchTransactionReceipts mark the endpoint when they fail; EstimateGas, *)
(* SuggestGasTipCap and TransactionReceipt do not; BlockNumber marks it    *)
(* and tries once more; SendTransaction goes to all healthy endpoints.     *)
Kinds == {"marking", "quiet", "blockNumber", "send"}

ASSUME PoolAssumption ==
    /\ NumEndpoints \in Nat \ {0}
    /\ MaxChanges \in Nat /\ MaxErrors \in Nat
    /\ NULL \notin BOOLEAN /\ NULL \notin Kinds

Endpoints == 1..NumEndpoints

VARIABLES
    state,     \* of an endpoint: "up", "down" or "hung"; external
    changes,   \* number of changes of state so far
    errors,    \* number of errors of endpoints that are up so far
    healthy,   \* endpoint.healthy
    recovery,  \* recovery goroutines of an endpoint: before and after a good probe
    check,     \* the health check: its endpoint, and the result of the probe
    caller,    \* per goroutine: where its call is
    steady     \* history: endpoints healthy ever since the call's loop began

envVars  == <<state, changes, errors>>
poolVars == <<state, changes, errors, healthy, recovery, check, caller>>
vars     == <<state, changes, errors, healthy, recovery, check, caller, steady>>

(* look: the loop over the endpoints is at `at`; wait: for the answer of   *)
(* `at`, or of all in `asked`; idle: returned, ok or not.                  *)
Call == [pc      : {"idle", "look", "wait"},
         kind    : Kinds \cup {NULL},
         at      : 1..(NumEndpoints + 1),
         second  : BOOLEAN,              \* BlockNumber's second try
         asked   : SUBSET Endpoints,     \* goroutines SendTransaction waits for
         skipped : SUBSET Endpoints,     \* endpoints SendTransaction left out
         nils    : SUBSET Endpoints,     \* sends that returned nil
         ok      : BOOLEAN \cup {NULL}]  \* whether the last broadcast gave nil

TypeOK ==
    /\ state \in [Endpoints -> {"up", "down", "hung"}]
    /\ changes \in Nat /\ errors \in Nat
    /\ healthy \in [Endpoints -> BOOLEAN]
    /\ recovery \in [Endpoints -> [probing : Nat, done : Nat]]
    /\ check \in [at : Endpoints, good : BOOLEAN \cup {NULL}]
    /\ caller \in [Callers -> Call]
    /\ steady \in [Callers -> SUBSET Endpoints]

NewCall(kind) ==
    [pc |-> "look", kind |-> kind, at |-> 1, second |-> FALSE, asked |-> {},
     skipped |-> {}, nils |-> {}, ok |-> NULL]

Idle == [NewCall(NULL) EXCEPT !.pc = "idle"]

Init ==
    /\ state = [e \in Endpoints |-> "up"] /\ changes = 0 /\ errors = 0
    /\ healthy  = [e \in Endpoints |-> TRUE]
    /\ recovery = [e \in Endpoints |-> [probing |-> 0, done |-> 0]]
    /\ check    = [at |-> 1, good |-> NULL]
    /\ caller   = [c \in Callers |-> Idle]
    /\ steady   = [c \in Callers |-> {}]

-----------------------------------------------------------------------------
(* The endpoints *)

Change(e, s) ==
    /\ changes < MaxChanges /\ s # state[e]
    /\ state' = [state EXCEPT ![e] = s]
    /\ changes' = changes + 1
    /\ UNCHANGED <<errors, healthy, recovery, check, caller>>

(* A call of e succeeds, or fails: e is down, or up and says no. *)
Succeeds(e) == state[e] = "up" /\ UNCHANGED envVars
Fails(e) ==
    \/ state[e] = "down" /\ UNCHANGED envVars
    \/ /\ state[e] = "up" /\ errors < MaxErrors
       /\ errors' = errors + 1
       /\ UNCHANGED <<state, changes>>

-----------------------------------------------------------------------------
(* Health check and recovery *)

(* Store(false), and a recovery goroutine, whether or not there is one. *)
markUnhealthy(e) ==
    /\ healthy'  = [healthy EXCEPT ![e] = FALSE]
    /\ recovery' = [recovery EXCEPT ![e].probing = @ + 1]

(* recoverEndpoint: a failed probe waits for the next tick. *)
RecoveryProbe(e) ==
    /\ recovery[e].probing > 0 /\ state[e] = "up"
    /\ recovery' = [recovery EXCEPT ![e].probing = @ - 1, ![e].done = @ + 1]
    /\ UNCHANGED <<envVars, healthy, check, caller>>

RecoveryStore(e) ==
    /\ recovery[e].done > 0
    /\ recovery' = [recovery EXCEPT ![e].done = @ - 1]
    /\ healthy'  = [healthy EXCEPT ![e] = TRUE]
    /\ UNCHANGED <<envVars, check, caller>>

(* StartHealthCheck: every endpoint in turn. *)
CheckProbe ==
    /\ check.good = NULL
    /\ \/ Succeeds(check.at) /\ check' = [check EXCEPT !.good = TRUE]
       \/ Fails(check.at) /\ check' = [check EXCEPT !.good = FALSE]
       \/ /\ state[check.at] = "hung" /\ UNCHANGED envVars
          /\ check' = [check EXCEPT !.good = FALSE]
    /\ UNCHANGED <<healthy, recovery, caller>>

(* Mutants of CheckStore: the round does not start over; only a failure is *)
(* stored.                                                                 *)
CheckStoreOnce ==
    /\ check.good # NULL
    /\ healthy' = [healthy EXCEPT ![check.at] = check.good]
    /\ check' = [at |-> check.at + 1, good |-> NULL]
    /\ UNCHANGED <<envVars, recovery, caller>>
CheckStoreFailure ==
    /\ check.good # NULL
    /\ healthy' = [healthy EXCEPT ![check.at] = @ /\ check.good]
    /\ check' = [at |-> (check.at % NumEndpoints) + 1, good |-> NULL]
    /\ UNCHANGED <<envVars, recovery, caller>>

CheckStore ==
    /\ check.good # NULL
    /\ healthy' = [healthy EXCEPT ![check.at] = check.good]
    /\ check' = [at |-> (check.at % NumEndpoints) + 1, good |-> NULL]
    /\ UNCHANGED <<envVars, recovery, caller>>

-----------------------------------------------------------------------------
(* Calls *)

Step(c, call) == caller' = [caller EXCEPT ![c] = call]

(* A result or an error; of a broadcast it is kept which. *)
Returned(c) == Step(c, Idle)

Begin(c, kind) ==
    /\ caller[c].pc = "idle"
    /\ Step(c, NewCall(kind))
    /\ UNCHANGED <<envVars, healthy, recovery, check>>

(* getClient: the first endpoint found healthy, or an error. *)
GetClient(c) ==
    LET call == caller[c] IN
    /\ call.pc = "look" /\ call.kind # "send"
    /\ \/ /\ call.at \in Endpoints /\ healthy[call.at]
          /\ Step(c, [call EXCEPT !.pc = "wait"])
       \/ /\ call.at \in Endpoints /\ ~ healthy[call.at]
          /\ Step(c, [call EXCEPT !.at = @ + 1])
       \/ call.at \notin Endpoints /\ Returned(c)
    /\ UNCHANGED <<envVars, healthy, recovery, check>>

(* Mutant of SecondTry: the loop goes on behind the endpoint that failed. *)
TryFurther(call) == [call EXCEPT !.pc = "look", !.at = @ + 1, !.second = TRUE]

(* BlockNumber tries once more: getClient starts from the first endpoint. *)
SecondTry(call) == [call EXCEPT !.pc = "look", !.at = 1, !.second = TRUE]

(* The endpoint's answer.  BlockNumber's second try returns what it gets. *)
Answer(c) ==
    LET call == caller[c] IN
    /\ call.pc = "wait" /\ call.kind # "send"
    /\ \/ /\ Succeeds(call.at)
          /\ Returned(c)
          /\ UNCHANGED <<healthy, recovery>>
       \/ /\ Fails(call.at) /\ (call.kind = "quiet" \/ call.second)
          /\ Returned(c)
          /\ UNCHANGED <<healthy, recovery>>
       \/ /\ Fails(call.at) /\ call.kind = "marking"
          /\ Returned(c)
          /\ markUnhealthy(call.at)
       \/ /\ Fails(call.at) /\ call.kind = "blockNumber" /\ ~ call.second
          /\ Step(c, SecondTry(call))
          /\ markUnhealthy(call.at)
    /\ UNCHANGED check

(* SendTransaction starts a goroutine for every endpoint found healthy. *)
SendLook(c) ==
    LET call == caller[c] IN
    /\ call.pc = "look" /\ call.kind = "send"
    /\ \/ /\ call.at \in Endpoints /\ healthy[call.at]
          /\ Step(c, [call EXCEPT !.at = @ + 1, !.asked = @ \cup {call.at}])
       \/ /\ call.at \in Endpoints /\ ~ healthy[call.at]
          /\ Step(c, [call EXCEPT !.at = @ + 1, !.skipped = @ \cup {call.at}])
       \/ call.at \notin Endpoints /\ Step(c, [call EXCEPT !.pc = "wait"])
    /\ UNCHANGED <<envVars, healthy, recovery, check>>

(* A nil, or an error, with which the endpoint may have the transaction    *)
(* all the same.                                                           *)
SendAnswer(c, e) ==
    LET call == caller[c] IN
    /\ e \in call.asked
    /\ \/ /\ Succeeds(e)
          /\ Step(c, [call EXCEPT !.asked = @ \ {e}, !.nils = @ \cup {e}])
       \/ /\ Fails(e)
          /\ Step(c, [call EXCEPT !.asked = @ \ {e}])
    /\ UNCHANGED <<healthy, recovery, check>>

(* errs has an entry for every endpoint, and that of one which was left    *)
(* out is nil like a success: "Return success if ANY succeeded" returns    *)
(* success also when nobody was asked or everybody who was asked refused.  *)
SendResult(call) == call.nils # {} \/ call.skipped # {}

(* Mutant of SendReturn: wg.Add(1) comes before the test of the flag. *)
SendReturnAll(c) ==
    /\ caller[c].pc = "wait" /\ caller[c].kind = "send"
    /\ caller[c].asked = {} /\ caller[c].skipped = {}
    /\ Step(c, [caller[c] EXCEPT !.pc = "idle", !.ok = SendResult(caller[c])])
    /\ UNCHANGED <<envVars, healthy, recovery, check>>

(* wg.Wait *)
SendReturn(c) ==
    /\ caller[c].pc = "wait" /\ caller[c].kind = "send" /\ caller[c].asked = {}
    /\ Step(c, [caller[c] EXCEPT !.pc = "idle", !.ok = SendResult(caller[c])])
    /\ UNCHANGED <<envVars, healthy, recovery, check>>

CallStep(c) ==
    \/ GetClient(c) \/ Answer(c) \/ SendLook(c) \/ SendReturn(c)
    \/ \E e \in Endpoints : SendAnswer(c, e)

-----------------------------------------------------------------------------
PoolStep ==
    \/ \E e \in Endpoints, s \in {"up", "down", "hung"} : Change(e, s)
    \/ \E e \in Endpoints : RecoveryProbe(e) \/ RecoveryStore(e)
    \/ CheckProbe \/ CheckStore
    \/ \E c \in Callers : (\E k \in Kinds : Begin(c, k)) \/ CallStep(c)

(* The history of the flags, which no step reads. *)
LoopBegins(c) == caller'[c].pc = "look" /\ caller[c].pc # "look"
Watch ==
    steady' = [c \in Callers |->
                 {e \in Endpoints : healthy'[e] /\ (LoopBegins(c) \/ e \in steady[c])}]

Next == PoolStep /\ Watch

Spec == Init /\ [][Next]_vars

(* Goroutines run, tickers tick, and an endpoint that is up or down gives  *)
(* an answer.  Nothing is assumed of one that hangs.                       *)
Fairness ==
    /\ \A e \in Endpoints : /\ WF_poolVars(RecoveryProbe(e))
                            /\ WF_poolVars(RecoveryStore(e))
    /\ WF_poolVars(CheckProbe) /\ WF_poolVars(CheckStore)
    /\ \A c \in Callers : WF_poolVars(CallStep(c))

FairSpec == Spec /\ Fairness

-----------------------------------------------------------------------------
(* "Broadcast to ALL healthy endpoints", "the first healthy endpoint       *)
(* client" (client.go:215, 73): the flags change while the loops of        *)
(* SendTransaction and getClient run, and each is read once.  An endpoint  *)
(* that has been healthy ever since the loop began is not missed: a        *)
(* broadcast goes to it, and getClient fails or takes a later one only if  *)
(* there is none such, in BlockNumber's second try too.                    *)
NotMissed(call, S) ==
    /\ call.kind = "send" => S \cap call.skipped = {}
    /\ call.pc # "idle" /\ call.kind # "send" => \A e \in S : call.at <= e
SteadyNotMissed == \A c \in Callers : NotMissed(caller[c], steady[c])

(* An endpoint that is back for good comes to be used again, and for good: *)
(* no late store of an old probe leaves it marked, and the recovery        *)
(* goroutines, however many, all end.                                      *)
EndpointsRecover ==
    \A e \in Endpoints :
        <>[](state[e] = "up")
            => <>[](healthy[e] /\ recovery[e] = [probing |-> 0, done |-> 0])

(* Every call returns: failover ends, and wg.Wait waits for no goroutine   *)
(* that was not started.  No call has a timeout of its own, so one that    *)
(* never returns waits for an endpoint that hangs from some time on; a     *)
(* healthy endpoint does not help a broadcast then.                        *)
WaitsFor(c, e) ==
    LET call == caller[c] IN
    IF call.kind = "send" THEN e \in call.asked
                          ELSE call.pc = "wait" /\ call.at = e
EveryCallReturns ==
    \A c \in Callers :
        <>[](caller[c].pc # "idle")
            => \E e \in Endpoints : <>[](state[e] = "hung" /\ WaitsFor(c, e))
=============================================================================

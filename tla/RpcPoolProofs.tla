--------------------------- MODULE RpcPoolProofs ----------------------------
(***************************************************************************)
(* Proofs about RpcPool, for any number of endpoints and of goroutines.    *)
(***************************************************************************)
EXTENDS RpcPool, TLAPS

(* A call that is not a broadcast waits for one endpoint and has none in   *)
(* the background.                                                         *)
Quiet(call) ==
    call.kind # "send" =>
        /\ call.asked = {}
        /\ call.pc = "wait" => call.at \in Endpoints

Quiets == \A c \in Callers : Quiet(caller[c])

Inv == TypeOK /\ Quiets /\ SteadyNotMissed

(* What the invariant says of the callers. *)
CallersOK ==
    /\ caller \in [Callers -> Call]
    /\ steady \in [Callers -> SUBSET Endpoints]
    /\ Quiets /\ SteadyNotMissed

-----------------------------------------------------------------------------
(* The records of the callers *)

LEMMA FirstAt == 1 \in 1..(NumEndpoints + 1)
BY PoolAssumption

LEMMA NewCallType ==
    ASSUME NEW k \in Kinds \cup {NULL}
    PROVE  /\ NewCall(k) \in Call
           /\ Idle \in Call /\ Idle.kind = NULL /\ Idle.asked = {}
           /\ Idle.pc = "idle"
           /\ NewCall(k).kind = k /\ NewCall(k).asked = {}
           /\ NewCall(k).skipped = {} /\ NewCall(k).at = 1
           /\ NewCall(k).pc = "look"
<1>1. ASSUME NEW j \in Kinds \cup {NULL}  PROVE NewCall(j) \in Call
  BY FirstAt DEF NewCall, Call
<1>2. Idle \in Call
  BY <1>1 DEF Idle, Call
<1> QED  BY <1>1, <1>2 DEF NewCall, Idle

(* The history of a caller: only endpoints that are healthy, and fewer and *)
(* fewer of them until its next loop begins.                               *)
LEMMA WatchKeeps ==
    ASSUME Inv, Watch
    PROVE  /\ steady' \in [Callers -> SUBSET Endpoints]
           /\ \A c \in Callers : \A e \in steady'[c] : e \in Endpoints /\ healthy'[e]
           /\ \A c \in Callers :
                 caller[c].pc = "look" \/ caller'[c].pc # "look"
                     => steady'[c] \subseteq steady[c]
BY DEF Watch, LoopBegins

(* A step of a caller keeps the invariant if its new record is one that    *)
(* the invariant allows.                                                   *)
LEMMA StepKeeps ==
    ASSUME Inv, Watch, NEW c \in Callers, NEW call \in Call, Step(c, call),
           Quiet(call), NotMissed(call, steady'[c])
    PROVE  CallersOK'
<1>1. caller \in [Callers -> Call]
  BY DEF Inv, TypeOK
<1>2. caller' = [caller EXCEPT ![c] = call]
  BY DEF Step
<1>3. caller' \in [Callers -> Call]
  BY <1>1, <1>2
<1>4. ASSUME NEW d \in Callers
      PROVE  Quiet(caller'[d]) /\ NotMissed(caller'[d], steady'[d])
  <2>1. CASE d = c
    BY <1>1, <1>2, <2>1
  <2>2. CASE d # c
    <3>1. caller'[d] = caller[d]
      BY <1>1, <1>2, <2>2
    <3>2. steady'[d] \subseteq steady[d]
      BY <3>1, WatchKeeps
    <3> QED  BY <3>1, <3>2 DEF Inv, Quiets, SteadyNotMissed, NotMissed
  <2> QED  BY <2>1, <2>2
<1> QED
  BY <1>3, <1>4, WatchKeeps DEF CallersOK, Quiets, SteadyNotMissed, Quiet, NotMissed

LEMMA ReturnedKeeps ==
    ASSUME Inv, Watch, NEW c \in Callers, Returned(c)
    PROVE  CallersOK'
<1>1. Idle \in Call /\ Quiet(Idle) /\ NotMissed(Idle, steady'[c])
  BY NewCallType, PoolAssumption DEF Quiet, NotMissed, Kinds
<1> QED  BY <1>1, StepKeeps DEF Returned

(* Steps that leave the callers alone. *)
LEMMA CallerFrame ==
    ASSUME Inv, UNCHANGED caller, Watch \/ UNCHANGED steady
    PROVE  CallersOK'
<1>1. ASSUME NEW c \in Callers  PROVE steady'[c] \subseteq steady[c]
  BY WatchKeeps
<1>2. steady' \in [Callers -> SUBSET Endpoints]
  BY WatchKeeps DEF Inv, TypeOK
<1> QED
  BY <1>1, <1>2 DEF CallersOK, Inv, TypeOK, Quiets, Quiet, SteadyNotMissed, NotMissed

(* What is not of the callers. *)
PoolType ==
    /\ state \in [Endpoints -> {"up", "down", "hung"}]
    /\ changes \in Nat /\ errors \in Nat
    /\ healthy \in [Endpoints -> BOOLEAN]
    /\ recovery \in [Endpoints -> [probing : Nat, done : Nat]]
    /\ check \in [at : Endpoints, good : BOOLEAN \cup {NULL}]

LEMMA AnswerType ==
    ASSUME TypeOK, NEW e \in Endpoints, Succeeds(e) \/ Fails(e)
    PROVE  /\ state' \in [Endpoints -> {"up", "down", "hung"}]
           /\ changes' \in Nat /\ errors' \in Nat
BY DEF TypeOK, Succeeds, Fails, envVars

LEMMA MarkType ==
    ASSUME TypeOK, NEW e \in Endpoints, markUnhealthy(e)
    PROVE  /\ healthy' \in [Endpoints -> BOOLEAN]
           /\ recovery' \in [Endpoints -> [probing : Nat, done : Nat]]
<1>1. healthy' \in [Endpoints -> BOOLEAN]
  BY DEF TypeOK, markUnhealthy
<1>2. [recovery[e] EXCEPT !.probing = @ + 1] \in [probing : Nat, done : Nat]
  BY DEF TypeOK
<1>3. recovery' = [recovery EXCEPT ![e] = [recovery[e] EXCEPT !.probing = @ + 1]]
  BY DEF TypeOK, markUnhealthy
<1> QED  BY <1>1, <1>2, <1>3 DEF TypeOK

-----------------------------------------------------------------------------
(* The steps *)

LEMMA EnvironmentInv ==
    ASSUME Inv, NEW e \in Endpoints,
           \/ \E s \in {"up", "down", "hung"} : Change(e, s)
           \/ RecoveryProbe(e)
           \/ RecoveryStore(e)
    PROVE  PoolType' /\ UNCHANGED caller
<1> USE DEF PoolType, Inv, TypeOK
<1>1. CASE \E s \in {"up", "down", "hung"} : Change(e, s)
  BY <1>1 DEF Change
<1>3. CASE RecoveryProbe(e)
  <2>1. [recovery[e] EXCEPT !.probing = @ - 1, !.done = @ + 1]
           \in [probing : Nat, done : Nat]
    BY <1>3 DEF RecoveryProbe
  <2>2. recovery' = [recovery EXCEPT ![e] =
                       [recovery[e] EXCEPT !.probing = @ - 1, !.done = @ + 1]]
    BY <1>3 DEF RecoveryProbe
  <2> QED  BY <1>3, <2>1, <2>2 DEF RecoveryProbe, envVars
<1>4. CASE RecoveryStore(e)
  <2>1. [recovery[e] EXCEPT !.done = @ - 1] \in [probing : Nat, done : Nat]
    BY <1>4 DEF RecoveryStore
  <2>2. recovery' = [recovery EXCEPT ![e] = [recovery[e] EXCEPT !.done = @ - 1]]
    BY <1>4 DEF RecoveryStore
  <2> QED  BY <1>4, <2>1, <2>2 DEF RecoveryStore, envVars
<1> QED  BY <1>1, <1>3, <1>4

(* The round of the health check stays within the endpoints. *)
LEMMA NextEndpoint ==
    ASSUME NEW e \in Endpoints
    PROVE  (e % NumEndpoints) + 1 \in Endpoints
BY PoolAssumption DEF Endpoints

LEMMA CheckInv ==
    ASSUME Inv, CheckProbe \/ CheckStore
    PROVE  PoolType' /\ UNCHANGED caller
<1>0. check.at \in Endpoints /\ check.good \in BOOLEAN \cup {NULL}
  BY DEF Inv, TypeOK
<1>1. CASE CheckProbe
  <2>1. check' \in [at : Endpoints, good : BOOLEAN \cup {NULL}]
    BY <1>0, <1>1 DEF CheckProbe, Inv, TypeOK
  <2>2. /\ state' \in [Endpoints -> {"up", "down", "hung"}]
        /\ changes' \in Nat /\ errors' \in Nat
    BY <1>0, <1>1, AnswerType DEF CheckProbe, Inv, TypeOK, envVars
  <2> QED  BY <1>1, <2>1, <2>2 DEF CheckProbe, Inv, TypeOK, PoolType
<1>2. CASE CheckStore
  <2>1. (check.at % NumEndpoints) + 1 \in Endpoints
    BY <1>0, NextEndpoint
  <2>2. check' \in [at : Endpoints, good : BOOLEAN \cup {NULL}]
    BY <1>2, <2>1 DEF CheckStore
  <2>3. healthy' \in [Endpoints -> BOOLEAN]
    BY <1>0, <1>2 DEF CheckStore, Inv, TypeOK
  <2> QED  BY <1>2, <2>2, <2>3 DEF CheckStore, Inv, TypeOK, PoolType, envVars
<1> QED  BY <1>1, <1>2

LEMMA NextAt ==
    ASSUME NEW e \in Endpoints
    PROVE  e + 1 \in 1..(NumEndpoints + 1)
BY PoolAssumption DEF Endpoints

LEMMA CallInv ==
    ASSUME Inv, Watch, NEW c \in Callers,
           (\E k \in Kinds : Begin(c, k)) \/ CallStep(c)
    PROVE  PoolType' /\ CallersOK'
<1> DEFINE call == caller[c]
           S == steady'[c]
<1>0. /\ call \in Call /\ Quiet(call) /\ NotMissed(call, steady[c])
      /\ PoolType /\ TypeOK
  BY DEF Inv, TypeOK, PoolType, Quiets, SteadyNotMissed
<1>s. /\ \A e \in S : e \in Endpoints /\ healthy'[e]
      /\ call.pc = "look" \/ caller'[c].pc # "look" => S \subseteq steady[c]
  BY WatchKeeps
<1>n. ASSUME NEW new, Step(c, new)  PROVE caller'[c] = new
  BY <1>n DEF Step, Inv, TypeOK
<1> HIDE DEF call, S
<1>1. CASE \E k \in Kinds : Begin(c, k)
  <2>1. PICK k \in Kinds : Begin(c, k)
    BY <1>1
  <2>2. NewCall(k) \in Call /\ Quiet(NewCall(k))
    BY NewCallType DEF Quiet
  <2>3. NotMissed(NewCall(k), S)
    BY NewCallType, <1>s DEF NotMissed, Endpoints
  <2>4. PoolType'
    BY <1>0, <2>1 DEF Begin, envVars, PoolType
  <2> QED  BY <2>1, <2>2, <2>3, <2>4, StepKeeps DEF Begin, S
<1>2. CASE GetClient(c)
  <2>1. call.pc = "look" /\ call.kind # "send" /\ healthy' = healthy
    BY <1>2 DEF GetClient, call
  <2>2. PoolType'
    BY <1>0, <1>2 DEF GetClient, envVars, PoolType
  <2>3. \A e \in S : call.at <= e
    BY <1>0, <1>s, <2>1 DEF NotMissed
  <2>4. CASE call.at \in Endpoints /\ Step(c, [call EXCEPT !.pc = "wait"])
    <3> DEFINE new == [call EXCEPT !.pc = "wait"]
    <3>1. new \in Call
      BY <1>0 DEF Call
    <3>2. Quiet(new) /\ NotMissed(new, S)
      BY <1>0, <2>1, <2>3, <2>4 DEF Quiet, NotMissed, Call
    <3> QED  BY <2>2, <2>4, <3>1, <3>2, StepKeeps DEF S
  <2>5. CASE /\ call.at \in Endpoints /\ ~ healthy[call.at]
             /\ Step(c, [call EXCEPT !.at = @ + 1])
    <3> DEFINE new == [call EXCEPT !.at = @ + 1]
    <3>1. new \in Call
      BY <1>0, <2>5, NextAt DEF Call
    <3>2. \A e \in S : call.at + 1 <= e
      BY <1>s, <2>1, <2>3, <2>5 DEF Endpoints
    <3>3. Quiet(new) /\ NotMissed(new, S)
      BY <1>0, <2>1, <3>2 DEF Quiet, NotMissed, Call
    <3> QED  BY <2>2, <2>5, <3>1, <3>3, StepKeeps DEF S
  <2>6. CASE Returned(c)
    BY <2>2, <2>6, ReturnedKeeps
  <2> QED  BY <1>2, <2>4, <2>5, <2>6 DEF GetClient, call
<1>3. CASE Answer(c)
  <2>1. call.pc = "wait" /\ call.kind # "send"
    BY <1>3 DEF Answer, call
  <2>2. CallersOK'
    <3>1. CASE Returned(c)
      BY <3>1, ReturnedKeeps
    <3>2. CASE Step(c, SecondTry(call))
      <4>1. SecondTry(call) \in Call
        BY <1>0, FirstAt DEF Call, SecondTry
      <4>2. Quiet(SecondTry(call)) /\ NotMissed(SecondTry(call), S)
        BY <1>0, <1>s, <2>1 DEF Quiet, NotMissed, SecondTry, Call, Endpoints
      <4> QED  BY <3>2, <4>1, <4>2, StepKeeps DEF S
    <3> QED  BY <1>3, <3>1, <3>2 DEF Answer, call
  <2>3. PICK e : e = call.at /\ (Succeeds(e) \/ Fails(e))
    BY <1>3 DEF Answer, call
  <2>4. e \in Endpoints
    BY <1>0, <2>1, <2>3 DEF Quiet
  <2>5. /\ state' \in [Endpoints -> {"up", "down", "hung"}]
        /\ changes' \in Nat /\ errors' \in Nat
    BY <1>0, <2>3, <2>4, AnswerType
  <2>6. /\ healthy' \in [Endpoints -> BOOLEAN]
        /\ recovery' \in [Endpoints -> [probing : Nat, done : Nat]]
    <3>1. CASE markUnhealthy(e)
      BY <1>0, <2>4, <3>1, MarkType
    <3>2. CASE UNCHANGED <<healthy, recovery>>
      BY <1>0, <3>2 DEF PoolType
    <3> QED  BY <1>3, <2>3, <3>1, <3>2 DEF Answer, call
  <2>7. PoolType'
    BY <1>0, <1>3, <2>5, <2>6 DEF Answer, PoolType
  <2> QED  BY <2>2, <2>7
<1>4. CASE SendLook(c)
  <2>1. call.pc = "look" /\ call.kind = "send" /\ healthy' = healthy
    BY <1>4 DEF SendLook, call
  <2>2. PoolType'
    BY <1>0, <1>4 DEF SendLook, envVars, PoolType
  <2>3. S \cap call.skipped = {}
    BY <1>0, <1>s, <2>1 DEF NotMissed
  <2>4. ASSUME NEW new, Step(c, new), new \in Call, new.kind = "send",
               S \cap new.skipped = {}
        PROVE  CallersOK'
    BY <2>4, StepKeeps DEF Quiet, NotMissed, S
  <2>5. CASE /\ call.at \in Endpoints
             /\ Step(c, [call EXCEPT !.at = @ + 1, !.asked = @ \cup {call.at}])
    <3>1. [call EXCEPT !.at = @ + 1, !.asked = @ \cup {call.at}] \in Call
      BY <1>0, <2>5, NextAt DEF Call
    <3> QED  BY <1>0, <2>1, <2>2, <2>3, <2>4, <2>5, <3>1 DEF Call
  <2>6. CASE /\ call.at \in Endpoints /\ ~ healthy[call.at]
             /\ Step(c, [call EXCEPT !.at = @ + 1, !.skipped = @ \cup {call.at}])
    <3> DEFINE new == [call EXCEPT !.at = @ + 1, !.skipped = @ \cup {call.at}]
    <3>1. new \in Call
      BY <1>0, <2>6, NextAt DEF Call
    <3>2. new.kind = "send" /\ new.skipped = call.skipped \cup {call.at}
      BY <1>0, <2>1 DEF Call
    <3>3. call.at \notin S
      BY <1>s, <2>1, <2>6
    <3>4. S \cap new.skipped = {}
      BY <2>3, <3>2, <3>3
    <3> QED  BY <2>2, <2>4, <2>6, <3>1, <3>2, <3>4
  <2>7. CASE Step(c, [call EXCEPT !.pc = "wait"])
    <3>1. [call EXCEPT !.pc = "wait"] \in Call
      BY <1>0 DEF Call
    <3> QED  BY <1>0, <2>1, <2>2, <2>3, <2>4, <2>7, <3>1 DEF Call
  <2> QED  BY <1>4, <2>5, <2>6, <2>7 DEF SendLook, call
<1>5. CASE SendReturn(c)
  <2> DEFINE new == [call EXCEPT !.pc = "idle", !.ok = SendResult(call)]
  <2>1. call.kind = "send" /\ call.pc = "wait" /\ Step(c, new)
    BY <1>5 DEF SendReturn, call
  <2>2. PoolType'
    BY <1>0, <1>5 DEF SendReturn, envVars, PoolType
  <2>3. SendResult(call) \in BOOLEAN
    BY DEF SendResult
  <2>4. new \in Call /\ new.pc = "idle"
    BY <1>0, <2>3 DEF Call
  <2>5. S \subseteq steady[c]
    BY <1>n, <1>s, <2>1, <2>4
  <2>6. Quiet(new) /\ NotMissed(new, S)
    BY <1>0, <2>1, <2>5 DEF Quiet, NotMissed, Call
  <2> QED  BY <2>1, <2>2, <2>4, <2>6, StepKeeps DEF S
<1>6. ASSUME NEW e \in Endpoints, SendAnswer(c, e)
      PROVE  PoolType' /\ CallersOK'
  <2>1. e \in call.asked
    BY <1>6 DEF SendAnswer, call
  <2>2. call.kind = "send"
    BY <1>0, <2>1 DEF Quiet
  <2>3. PoolType'
    BY <1>0, <1>6, AnswerType DEF SendAnswer, PoolType
  <2>4. ASSUME NEW new, Step(c, new), new \in Call, new.kind = "send",
               new.pc = call.pc, new.skipped = call.skipped
        PROVE  CallersOK'
    <3>1. S \subseteq steady[c]
      BY <1>n, <1>s, <2>4
    <3>2. Quiet(new) /\ NotMissed(new, S)
      BY <1>0, <2>2, <2>4, <3>1 DEF Quiet, NotMissed
    <3> QED  BY <2>4, <3>2, StepKeeps DEF S
  <2>5. CASE Step(c, [call EXCEPT !.asked = @ \ {e}, !.nils = @ \cup {e}])
    <3>1. [call EXCEPT !.asked = @ \ {e}, !.nils = @ \cup {e}] \in Call
      BY <1>0 DEF Call
    <3> QED  BY <1>0, <2>2, <2>3, <2>4, <2>5, <3>1 DEF Call
  <2>6. CASE Step(c, [call EXCEPT !.asked = @ \ {e}])
    <3>1. [call EXCEPT !.asked = @ \ {e}] \in Call
      BY <1>0 DEF Call
    <3> QED  BY <1>0, <2>2, <2>3, <2>4, <2>6, <3>1 DEF Call
  <2> QED  BY <1>6, <2>5, <2>6 DEF SendAnswer, call
<1> QED  BY <1>1, <1>2, <1>3, <1>4, <1>5, <1>6 DEF CallStep

-----------------------------------------------------------------------------
LEMMA InitInv == Init => Inv
<1> SUFFICES ASSUME Init PROVE Inv
  OBVIOUS
<1>1. 1 \in Endpoints
  BY PoolAssumption DEF Endpoints
<1>2. Idle \in Call /\ Quiet(Idle) /\ NotMissed(Idle, {})
  BY NewCallType, PoolAssumption DEF Quiet, NotMissed, Kinds
<1>3. TypeOK
  BY <1>1, <1>2 DEF Init, TypeOK
<1>4. Quiets /\ SteadyNotMissed
  BY <1>2 DEF Init, Quiets, SteadyNotMissed
<1> QED  BY <1>3, <1>4 DEF Inv

LEMMA NextInv == Inv /\ [Next]_vars => Inv'
<1> SUFFICES ASSUME Inv, [Next]_vars PROVE Inv'
  OBVIOUS
<1>0. PoolType' /\ CallersOK' => Inv'
  BY DEF Inv, TypeOK, PoolType, CallersOK
<1>1. ASSUME Watch,
             \E e \in Endpoints :
              \/ \E s \in {"up", "down", "hung"} : Change(e, s)
              \/ RecoveryProbe(e) \/ RecoveryStore(e)
      PROVE  Inv'
  BY <1>0, <1>1, EnvironmentInv, CallerFrame
<1>2. CASE Watch /\ (CheckProbe \/ CheckStore)
  BY <1>0, <1>2, CheckInv, CallerFrame
<1>3. CASE /\ Watch
           /\ \E c \in Callers : (\E k \in Kinds : Begin(c, k)) \/ CallStep(c)
  BY <1>0, <1>3, CallInv
<1>4. CASE UNCHANGED vars
  BY <1>0, <1>4, CallerFrame DEF vars, Inv, TypeOK, PoolType
<1> QED  BY <1>1, <1>2, <1>3, <1>4 DEF Next, PoolStep

(* What TypeOK says of the pool, its flags and its callers always holds. *)
THEOREM TypeCorrect == Spec => []TypeOK
<1>1. Inv => TypeOK
  BY DEF Inv
<1> QED  BY <1>1, InitInv, NextInv, PTL DEF Spec

(* Client.SendTransaction and getClient: whatever the flags do while the   *)
(* loops run, an endpoint that has been healthy since a loop began is not  *)
(* missed by it, BlockNumber's second try included (SteadyNotMissed).      *)
THEOREM HealthyNotMissed == Spec => []SteadyNotMissed
<1>1. Inv => SteadyNotMissed
  BY DEF Inv
<1> QED  BY <1>1, InitInv, NextInv, PTL DEF Spec
=============================================================================

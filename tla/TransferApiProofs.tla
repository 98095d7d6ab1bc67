------------------------- MODULE TransferApiProofs --------------------------
(***************************************************************************)
(* The transfer API, for every configuration of chains and tokens and any  *)
(* set of requests and concurrent calls.                                   *)
(*                                                                         *)
(* Inv says what a call has at each point of Create: an id of its own that *)
(* no row has before its INSERT, a request that passed every check once a  *)
(* row is put together, and a stored row of its key once it is past the    *)
(* INSERT or was refused by UNIQUE.  Rows come from such requests and have *)
(* keys of their own.  With it each handler's step is one of the abstract  *)
(* store of keys, or none.                                                 *)
(***************************************************************************)
EXTENDS TransferApi, AmountsProofs

(* FirstError answers 0 when every check is passed, and only then. *)
LEMMA FirstErrorMeans ==
  ASSUME NEW n \in Nat, NEW checks, DOMAIN checks = 1..n,
         NEW codes, 0 \notin codes, \A i \in 1..n : checks[i][2] \in codes
  PROVE  /\ FirstError(checks) \in codes \cup {0}
         /\ FirstError(checks) = 0 => \A i \in 1..n : ~ checks[i][1]
<1> DEFINE failed == {i \in DOMAIN checks : checks[i][1]}
<1>1. failed \in SUBSET (1..n) /\ failed \in SUBSET Nat
  OBVIOUS
<1>2. CASE failed = {}
  BY <1>2 DEF FirstError
<1>3. CASE failed # {}
  <2>1. Min(failed) \in failed
    BY <1>1, <1>3, MinOfNat
  <2>2. FirstError(checks) = checks[Min(failed)][2]
    BY <1>3 DEF FirstError
  <2> HIDE DEF failed
  <2> QED
    BY <1>1, <2>1, <2>2
<1> QED
  BY <1>2, <1>3

LEMMA ValidateMeans ==
  ASSUME NEW r
  PROVE  /\ Validate(r) \in {0, 400, 404}
         /\ Validate(r) = 0 =>
              /\ r.chain \in DOMAIN Chains /\ r.sender.addr \in SignerAddrs
              /\ r.recipient.addr \in Addresses
              /\ r.recipient.addr # ZeroAddr /\ r.recipient.addr # ""
<1> DEFINE checks == << <<r.key = "", 400>>,
                  <<r.key \in LongKeys, 400>>,
                  <<r.chain = 0, 400>>,
                  <<r.chain \notin DOMAIN Chains, 400>>,
                  <<r.sender.addr = "", 400>>,
                  <<r.sender.addr \notin Addresses, 400>>,
                  <<r.sender.addr \notin SignerAddrs, 404>>,
                  <<r.recipient.addr = "", 400>>,
                  <<r.recipient.addr \notin Addresses, 400>>,
                  <<r.recipient.addr = ZeroAddr, 400>>,
                  <<r.sender = r.recipient, 400>>,
                  <<r.token = "", 400>>,
                  <<r.amount = <<>>, 400>>,
                  <<r.priority # "" /\ r.priority \notin Priorities, 400>> >>
<1>1. Validate(r) = FirstError(checks)
  BY DEF Validate
<1>2. DOMAIN checks = 1..14 /\ \A i \in 1..14 : checks[i][2] \in {400, 404}
  OBVIOUS
<1>3. /\ checks[4][1] <=> r.chain \notin DOMAIN Chains
      /\ checks[7][1] <=> r.sender.addr \notin SignerAddrs
      /\ checks[8][1] <=> r.recipient.addr = ""
      /\ checks[9][1] <=> r.recipient.addr \notin Addresses
      /\ checks[10][1] <=> r.recipient.addr = ZeroAddr
  OBVIOUS
<1> HIDE DEF checks
<1>4. /\ FirstError(checks) \in {400, 404} \cup {0}
      /\ FirstError(checks) = 0 => \A i \in 1..14 : ~ checks[i][1]
  <2> DEFINE n == 14
             codes == {400, 404}
  <2>1. n \in Nat /\ 0 \notin codes
    OBVIOUS
  <2>2. DOMAIN checks = 1..n /\ \A i \in 1..n : checks[i][2] \in codes
    BY <1>2
  <2> HIDE DEF n, codes
  <2>3. /\ FirstError(checks) \in codes \cup {0}
        /\ FirstError(checks) = 0 => \A i \in 1..n : ~ checks[i][1]
    BY <2>1, <2>2, FirstErrorMeans
  <2> QED
    BY <2>3 DEF n, codes
<1>5. 4 \in 1..14 /\ 7 \in 1..14 /\ 8 \in 1..14 /\ 9 \in 1..14 /\ 10 \in 1..14
  OBVIOUS
<1>6. Validate(r) \in {0, 400, 404}
  BY <1>1, <1>4
<1>7. ASSUME Validate(r) = 0
      PROVE  ~ checks[4][1] /\ ~ checks[7][1] /\ ~ checks[8][1] /\ ~ checks[9][1]
             /\ ~ checks[10][1]
  BY <1>1, <1>4, <1>5, <1>7
<1> QED
  BY <1>3, <1>6, <1>7

Fits(r) == /\ IsNative(r) \/ IsListed(r)
           /\ Asset(r).enabled
           /\ Units(r).ok
           /\ ~ (Units(r).value <= 0)
           /\ ~ OverLimit(Units(r).value, Asset(r).max)
           /\ r.recipient.addr # Asset(r).contract

LEMMA ResolveMeans ==
  ASSUME NEW r
  PROVE  /\ ResolveError(r) \in {0, 400, 403, 422}
         /\ ResolveError(r) = 0 => Fits(r)
<1> DEFINE checks == << <<~ IsNative(r) /\ ~ IsListed(r), 403>>,
                  <<~ Asset(r).enabled, 403>>,
                  <<~ Units(r).ok, 400>>,
                  <<Units(r).value <= 0, 422>>,
                  <<Units(r).value > MaxUint256, 422>>,
                  <<OverLimit(Units(r).value, Asset(r).max), 422>>,
                  <<r.recipient.addr = Asset(r).contract, 400>> >>
<1>1. ResolveError(r) = FirstError(checks)
  BY DEF ResolveError
<1>2. DOMAIN checks = 1..7 /\ \A i \in 1..7 : checks[i][2] \in {400, 403, 422}
  OBVIOUS
<1>3. /\ checks[1][1] <=> ~ IsNative(r) /\ ~ IsListed(r)
      /\ checks[2][1] <=> ~ Asset(r).enabled
      /\ checks[3][1] <=> ~ Units(r).ok
      /\ checks[4][1] <=> Units(r).value <= 0
      /\ checks[6][1] <=> OverLimit(Units(r).value, Asset(r).max)
      /\ checks[7][1] <=> r.recipient.addr = Asset(r).contract
  OBVIOUS
<1> HIDE DEF checks
<1>4. /\ FirstError(checks) \in {400, 403, 422} \cup {0}
      /\ FirstError(checks) = 0 => \A i \in 1..7 : ~ checks[i][1]
  <2> DEFINE n == 7
             codes == {400, 403, 422}
  <2>1. n \in Nat /\ 0 \notin codes
    OBVIOUS
  <2>2. DOMAIN checks = 1..n /\ \A i \in 1..n : checks[i][2] \in codes
    BY <1>2
  <2> HIDE DEF n, codes
  <2>3. /\ FirstError(checks) \in codes \cup {0}
        /\ FirstError(checks) = 0 => \A i \in 1..n : ~ checks[i][1]
    BY <2>1, <2>2, FirstErrorMeans
  <2> QED
    BY <2>3 DEF n, codes
<1>5. 1 \in 1..7 /\ 2 \in 1..7 /\ 3 \in 1..7 /\ 4 \in 1..7 /\ 6 \in 1..7 /\ 7 \in 1..7
  OBVIOUS
<1> QED
  BY <1>1, <1>3, <1>4, <1>5 DEF Fits

(* What a request that passed all the checks has. *)
LEMMA FitMeans ==
  ASSUME NEW r \in FitRequests
  PROVE  /\ r \in Requests /\ Validate(r) = 0 /\ ResolveError(r) = 0
         /\ Resolution[r].tx = TxParams(r)
<1>1. r \in ValidRequests /\ Resolution[r].error = 0
  BY DEF FitRequests
<1>2. Resolution[r] = [error |-> ResolveError(r), tx |-> TxParams(r)]
  BY <1>1 DEF Resolution
<1> QED
  BY <1>1, <1>2 DEF ValidRequests

(* An amount is an integer, and so is a limit if there is one. *)
LEMMA UnitsType ==
  ASSUME NEW r \in Requests, r.chain \in DOMAIN Chains
  PROVE  /\ Units(r).value \in Int /\ Asset(r).max \in Int \cup {NULL}
         /\ Units(r).ok /\ Units(r).value > 0 =>
               Denotes(r.amount, Asset(r).decimals, Units(r).value)
<1>1. Asset(r).decimals \in Nat /\ Asset(r).max \in Int \cup {NULL}
  <2>1. CASE IsNative(r)
    BY <2>1, ChainsAssumption DEF Asset
  <2>2. CASE ~ IsNative(r) /\ IsListed(r)
    <3>1. Asset(r) = Chains[r.chain].tokens[r.token]
      BY <2>2 DEF Asset
    <3> QED
      BY <2>2, <3>1, ChainsAssumption DEF IsListed
  <2>3. CASE ~ IsNative(r) /\ ~ IsListed(r)
    <3>1. Asset(r) = Unlisted
      BY <2>3 DEF Asset
    <3> QED
      BY <3>1 DEF Unlisted
  <2> QED
    BY <2>1, <2>2, <2>3
<1>2. r.amount \in Seq(STRING)
  BY ApiAssumption
<1>3. Units(r) \in [ok : BOOLEAN, value : Int]
  BY <1>1, <1>2, ParseTotal DEF Units
<1>4. Units(r).ok /\ Units(r).value > 0 =>
         Denotes(r.amount, Asset(r).decimals, Units(r).value)
  BY <1>1, <1>2, ParsedDenotes DEF Units
<1> QED
  BY <1>1, <1>3, <1>4

(* What such a request has resolveTransfer put into a row is within the    *)
(* policy.                                                                 *)
LEMMA FitWithinPolicy ==
  ASSUME NEW r \in FitRequests, NEW row, row.params = ParamsOf(r), row.tx = TxParams(r)
  PROVE  LET chain  == Chains[row.params.chain]
             moved  == IF row.tx.data = NULL THEN row.tx.value ELSE row.tx.data[2]
             target == IF row.tx.data = NULL THEN row.tx.to ELSE row.tx.data[1]
             asset  == IF row.tx.data = NULL THEN chain.native
                                             ELSE chain.tokens[row.params.token]
         IN  /\ moved > 0 /\ (asset.max # NULL => moved <= asset.max)
             /\ Denotes(row.params.amount, asset.decimals, moved)
             /\ target = row.params.recipient /\ target \notin {ZeroAddr, ""}
             /\ row.tx.data # NULL => /\ asset.enabled /\ row.tx.value = 0
                                      /\ row.tx.to = asset.contract
                                      /\ target # asset.contract
<1> DEFINE chain  == Chains[row.params.chain]
           moved  == IF row.tx.data = NULL THEN row.tx.value ELSE row.tx.data[2]
           target == IF row.tx.data = NULL THEN row.tx.to ELSE row.tx.data[1]
           asset  == IF row.tx.data = NULL THEN chain.native
                                           ELSE chain.tokens[row.params.token]
<1> SUFFICES /\ moved > 0 /\ (asset.max # NULL => moved <= asset.max)
             /\ Denotes(row.params.amount, asset.decimals, moved)
             /\ target = row.params.recipient /\ target \notin {ZeroAddr, ""}
             /\ row.tx.data # NULL => /\ asset.enabled /\ row.tx.value = 0
                                      /\ row.tx.to = asset.contract
                                      /\ target # asset.contract
  OBVIOUS
<1>1. /\ r \in Requests /\ Validate(r) = 0 /\ ResolveError(r) = 0
      /\ r.chain \in DOMAIN Chains /\ r.recipient.addr \in Addresses
      /\ r.recipient.addr # ZeroAddr /\ r.recipient.addr # ""
  <2>1. r \in Requests /\ Validate(r) = 0 /\ ResolveError(r) = 0
    BY FitMeans
  <2>2. /\ r.chain \in DOMAIN Chains /\ r.recipient.addr \in Addresses
        /\ r.recipient.addr # ZeroAddr /\ r.recipient.addr # ""
    BY <2>1, ValidateMeans
  <2> QED
    BY <2>1, <2>2
<1>2. /\ IsNative(r) \/ IsListed(r)
      /\ Asset(r).enabled /\ Units(r).ok /\ ~ (Units(r).value <= 0)
      /\ ~ OverLimit(Units(r).value, Asset(r).max)
      /\ r.recipient.addr # Asset(r).contract
  <2>1. Fits(r)
    BY <1>1, ResolveMeans
  <2> QED
    BY <2>1 DEF Fits
<1>3. PICK v \in Int : v = Units(r).value
  BY <1>1, UnitsType
<1>4. PICK max \in Int \cup {NULL} : max = Asset(r).max
  BY <1>1, UnitsType
<1>5. v > 0 /\ (max # NULL => v <= max)
  BY <1>2, <1>3, <1>4 DEF OverLimit
<1>6. /\ row.params.chain = r.chain /\ row.params.recipient = r.recipient.addr
      /\ row.params.token = r.token /\ row.params.amount = r.amount
  BY DEF ParamsOf
<1>d. Denotes(r.amount, Asset(r).decimals, v)
  BY <1>1, <1>2, <1>3, <1>5, UnitsType
<1>7. CASE IsNative(r)
  <2>1. row.tx = [to |-> r.recipient.addr, value |-> v, data |-> NULL]
    BY <1>3, <1>7 DEF TxParams
  <2>2. /\ Asset(r).max = Chains[r.chain].native.max
        /\ Asset(r).decimals = Chains[r.chain].native.decimals
    BY <1>7 DEF Asset
  <2>3. /\ moved = v /\ target = r.recipient.addr /\ row.tx.data = NULL
        /\ asset.max = max /\ asset.decimals = Asset(r).decimals
    BY <1>4, <1>6, <2>1, <2>2
  <2> HIDE DEF moved, target, asset
  <2> QED
    BY <1>1, <1>5, <1>6, <1>d, <2>3
<1>8. CASE ~ IsNative(r)
  <2>1. PICK data : data = <<r.recipient.addr, v>>
    OBVIOUS
  <2>2. data # NULL /\ data[1] = r.recipient.addr /\ data[2] = v
    <3>1. data \in Addresses \X Int
      BY <1>1, <2>1
    <3> QED
      BY <2>1, <3>1, NullAssumption
  <2>3. row.tx = [to |-> Asset(r).contract, value |-> 0, data |-> data]
    BY <1>3, <1>8, <2>1 DEF TxParams
  <2>4. Asset(r) = Chains[r.chain].tokens[r.token]
    BY <1>2, <1>8 DEF Asset
  <2>5. /\ moved = v /\ target = r.recipient.addr /\ asset = Asset(r)
        /\ row.tx.value = 0 /\ row.tx.to = Asset(r).contract
    BY <1>6, <2>2, <2>3, <2>4
  <2> HIDE DEF moved, target, asset
  <2> QED
    BY <1>1, <1>2, <1>4, <1>5, <1>6, <1>d, <2>5
<1> QED
  BY <1>7, <1>8

-----------------------------------------------------------------------------
(* Calls at these points of Create have put their row together. *)
Storing == {"insert", "notify", "fail"}

CallRecord == [pc     : {"none", "check", "done"} \cup Storing,
               req    : Requests \cup {NULL},
               id     : Nat \cup {NULL},
               answer : Answers \cup {NULL}]

CallTypeOK ==
    /\ lastId \in Nat
    /\ call \in [Calls -> CallRecord]
    /\ notify \in [Pipelines -> BOOLEAN]
    /\ queued \subseteq 1..lastId /\ pending \subseteq 1..lastId
    /\ worker \in [Pipelines -> [pc  : {"wait", "claim", "process"},
                                 row : Nat \cup {NULL}]]

(* A row has an id of this table, a key of its own, and says what a        *)
(* request that passed all the checks asks for.                            *)
RowFrom(row, r) == /\ row.key = r.key /\ row.params = ParamsOf(r)
                   /\ row.tx = TxParams(r)
RowsSound ==
    \A row \in rows : row.id \in 1..lastId /\ \E r \in FitRequests : RowFrom(row, r)
KeysUnique == \A x, y \in rows : x.key = y.key => x = y

(* Where a call is says what it has. *)
CallSound(c) ==
    /\ call[c].pc = "none" <=> call[c].req = NULL
    /\ call[c].pc = "done" <=> call[c].answer # NULL
    /\ call[c].pc \in {"none", "check"} => call[c].id = NULL
    /\ call[c].pc \in Storing => call[c].id # NULL /\ call[c].req \in FitRequests
    /\ call[c].id # NULL => call[c].id \in 1..lastId
    /\ call[c].pc = "insert" => \A row \in rows : row.id # call[c].id
    /\ \A row \in rows : row.id = call[c].id => row.params = ParamsOf(call[c].req)
    /\ call[c].pc = "notify" =>
          \E row \in rows : row.id = call[c].id /\ row.key = call[c].req.key
    /\ call[c].pc = "fail" =>
          DbFault \/ \E row \in rows : row.key = call[c].req.key

IdsDistinct ==
    \A c, d \in Calls : call[c].id # NULL /\ call[c].id = call[d].id => c = d

(* Every id was made for a call. *)
Numbered == {c \in Calls : call[c].id # NULL}
IdsCounted == Cardinality(Numbered) = lastId

Inv == /\ CallTypeOK /\ RowsSound /\ KeysUnique /\ IdsDistinct
       /\ \A c \in Calls : CallSound(c)

-----------------------------------------------------------------------------
LEMMA InitInv == Init => Inv /\ IdsCounted /\ NoLostWakeup
<1> SUFFICES ASSUME Init PROVE Inv /\ IdsCounted /\ NoLostWakeup
  OBVIOUS
<1>1. CallTypeOK
  BY DEF Init, CallTypeOK, CallRecord, NewCall, Claiming, Storing
<1>2. RowsSound /\ KeysUnique
  BY DEF Init, RowsSound, KeysUnique
<1>3. IdsDistinct
  BY DEF Init, NewCall, IdsDistinct
<1>4. \A c \in Calls : CallSound(c)
  BY DEF Init, NewCall, CallSound, Storing
<1>5. Numbered = {}
  BY DEF Init, NewCall, Numbered
<1>6. IdsCounted
  BY <1>5, FS_EmptySet DEF Init, IdsCounted
<1>7. NoLostWakeup
  BY DEF Init, NewCall, NoLostWakeup
<1> QED
  BY <1>1, <1>2, <1>3, <1>4, <1>6, <1>7 DEF Inv

-----------------------------------------------------------------------------
(* A call is not disturbed by what others do. *)
LEMMA OtherCall ==
  ASSUME NEW d \in Calls, CallSound(d), call'[d] = call[d],
         lastId \in Nat, lastId' \in Nat, lastId <= lastId', rows \subseteq rows',
         \A row \in rows' : row \in rows \/ row.id # call[d].id
  PROVE  CallSound(d)'
<1>1. \A i \in 1..lastId : i \in 1..lastId'
  OBVIOUS
<1> QED
  BY <1>1 DEF CallSound

(* Steps that leave the table and its ids alone. *)
LEMMA RowsKept ==
  ASSUME RowsSound, KeysUnique, rows' = rows, lastId \in Nat, lastId' \in Nat,
         lastId <= lastId'
  PROVE  RowsSound' /\ KeysUnique'
<1>1. \A i \in 1..lastId : i \in 1..lastId'
  OBVIOUS
<1> QED
  BY <1>1 DEF RowsSound, KeysUnique

(* Steps of one handler that neither make an id nor store a row. *)
LEMMA OneCallMoves ==
  ASSUME Inv, NEW c \in Calls, NEW x, call' = [call EXCEPT ![c] = x],
         x \in CallRecord,
         x.id = call[c].id, UNCHANGED <<rows, queued, pending, lastId, worker>>,
         notify' \in [Pipelines -> BOOLEAN], CallSound(c)'
  PROVE  Inv'
<1>1. CallTypeOK'
  BY DEF Inv, CallTypeOK
<1>2. RowsSound' /\ KeysUnique'
  BY RowsKept DEF Inv, CallTypeOK
<1>3. \A d \in Calls : call'[d].id = call[d].id /\ (d # c => call'[d] = call[d])
  BY DEF Inv, CallTypeOK
<1>4. IdsDistinct'
  BY <1>3 DEF Inv, IdsDistinct
<1>5. ASSUME NEW d \in Calls, d # c PROVE CallSound(d)'
  BY <1>3, <1>5, OtherCall DEF Inv, CallTypeOK
<1> QED
  BY <1>1, <1>2, <1>4, <1>5 DEF Inv

LEMMA ReceiveInv ==
  ASSUME Inv, NEW c \in Calls, Receive(c)
  PROVE  Inv'
<1>1. PICK r \in Requests : call' = [call EXCEPT ![c].pc = "check", ![c].req = r]
  BY DEF Receive
<1>2. PICK x : x = [call[c] EXCEPT !.pc = "check", !.req = r]
  OBVIOUS
<1>3. /\ call' = [call EXCEPT ![c] = x] /\ call'[c] = x
      /\ x.pc = "check" /\ x.req = r /\ x.id = call[c].id /\ x.answer = call[c].answer
      /\ x \in CallRecord
  BY <1>1, <1>2 DEF Inv, CallTypeOK, CallRecord
<1>4. CallSound(c)'
  <2>1. /\ call[c].pc = "none" /\ call[c].id = NULL /\ call[c].answer = NULL
        /\ rows' = rows /\ \A row \in rows : row.id # NULL
    BY NullAssumption DEF Receive, dbVars, Inv, CallSound, RowsSound
  <2> QED
    BY <1>3, <2>1, ApiAssumption DEF CallSound, Storing
<1> QED
  BY <1>3, <1>4, OneCallMoves DEF Receive, dbVars, runVars, Inv, CallTypeOK

(* Steps that answer a call, and do no more than that. *)
LEMMA AnsweredInv ==
  ASSUME Inv, NEW c \in Calls, call[c].pc # "none", NEW code \in Nat,
         NEW id \in Nat \cup {NULL}, Answered(c, code, id),
         UNCHANGED <<rows, queued, pending, lastId, worker>>,
         notify' \in [Pipelines -> BOOLEAN]
  PROVE  Inv'
<1>1. PICK a : a = [code |-> code, id |-> id]
  OBVIOUS
<1>2. a \in Answers /\ a # NULL
  BY <1>1, NullAssumption DEF Answers
<1>3. PICK x : x = [call[c] EXCEPT !.pc = "done", !.answer = a]
  OBVIOUS
<1>4. /\ call' = [call EXCEPT ![c] = x] /\ call'[c] = x
      /\ x.pc = "done" /\ x.req = call[c].req /\ x.id = call[c].id /\ x.answer = a
      /\ x \in CallRecord
  <2>1. call[c] \in CallRecord /\ call \in [Calls -> CallRecord]
    BY DEF Inv, CallTypeOK
  <2>2. call' = [call EXCEPT ![c] = x]
    BY <1>1, <1>3, <2>1 DEF Answered
  <2>3. /\ x.pc = "done" /\ x.req = call[c].req /\ x.id = call[c].id
        /\ x.answer = a /\ x \in CallRecord
    BY <1>2, <1>3, <2>1 DEF CallRecord
  <2> QED
    BY <2>1, <2>2, <2>3
<1>5. CallSound(c)'
  BY <1>2, <1>4 DEF CallSound, Inv, Storing
<1> QED
  BY <1>4, <1>5, OneCallMoves

(* A call that is open has a request. *)
LEMMA HasRequest ==
  ASSUME Inv, NEW c \in Calls, call[c].pc # "none"
  PROVE  call[c].req \in Requests
  BY DEF Inv, CallSound, CallTypeOK, CallRecord

(* The answers of Check to what is not stored. *)
LEMMA ErrorCodes ==
  ASSUME NEW r \in Requests
  PROVE  /\ r \notin ValidRequests => Rejection[r] \in {400, 404} /\ r \notin FitRequests
         /\ r \in ValidRequests /\ Resolution[r].error # 0 =>
              Resolution[r].error \in {400, 403, 422} /\ r \notin FitRequests
<1>1. Validate(r) \in {0, 400, 404} /\ ResolveError(r) \in {0, 400, 403, 422}
  <2>1. Validate(r) \in {0, 400, 404}
    BY ValidateMeans
  <2>2. ResolveError(r) \in {0, 400, 403, 422}
    BY ResolveMeans
  <2> QED
    BY <2>1, <2>2
<1>2. ASSUME r \notin ValidRequests
      PROVE  Rejection[r] \in {400, 404} /\ r \notin FitRequests
  <2>1. Validate(r) # 0 /\ Rejection[r] = Validate(r)
    BY <1>2 DEF ValidRequests, Rejection
  <2> QED
    BY <1>1, <1>2, <2>1 DEF FitRequests
<1>3. ASSUME r \in ValidRequests, Resolution[r].error # 0
      PROVE  Resolution[r].error \in {400, 403, 422} /\ r \notin FitRequests
  <2>1. Resolution[r].error = ResolveError(r)
    BY <1>3 DEF Resolution
  <2> QED
    BY <1>1, <1>3, <2>1 DEF FitRequests
<1> QED
  BY <1>2, <1>3

(* What Check may do to a call, with every answer spelled out. *)
CheckAnswers(c) ==
    /\ UNCHANGED lastId
    /\ \/ /\ call[c].req \notin FitRequests
          /\ \E code \in {400, 403, 404, 422} : Answered(c, code, NULL)
       \/ DbFault /\ Answered(c, 500, NULL)
       \/ \E row \in rows : /\ row.key = call[c].req.key
                            /\ row.params = ParamsOf(call[c].req)
                            /\ Answered(c, 202, row.id)
       \/ \E row \in rows : /\ row.key = call[c].req.key
                            /\ row.params # ParamsOf(call[c].req)
                            /\ Answered(c, 409, NULL)

LEMMA CheckCases ==
  ASSUME Inv, NEW c \in Calls, Check(c)
  PROVE  CheckAnswers(c) \/ (call[c].req \in FitRequests /\ MakeRow(c))
<1> DEFINE r == call[c].req
<1>1. r \in Requests
  BY HasRequest DEF Check
<1> HIDE DEF r
<1>2. CASE r \notin ValidRequests /\ Answered(c, Rejection[r], NULL) /\ UNCHANGED lastId
  BY <1>1, <1>2, ErrorCodes DEF CheckAnswers, r
<1>3. CASE DbFault /\ Answered(c, 500, NULL) /\ UNCHANGED lastId
  BY <1>3 DEF CheckAnswers
<1>4. CASE /\ \E row \in WithKey(r.key) :
                IF idempotencyMatch(row, r) THEN Answered(c, 202, row.id)
                                            ELSE Answered(c, 409, NULL)
           /\ UNCHANGED lastId
  <2>1. PICK row \in WithKey(r.key) :
               IF idempotencyMatch(row, r) THEN Answered(c, 202, row.id)
                                           ELSE Answered(c, 409, NULL)
    BY <1>4
  <2>2. row \in rows /\ row.key = r.key
    BY <2>1 DEF WithKey
  <2>3. CASE row.params = ParamsOf(r)
    BY <1>4, <2>1, <2>2, <2>3 DEF idempotencyMatch, CheckAnswers, r
  <2>4. CASE row.params # ParamsOf(r)
    BY <1>4, <2>1, <2>2, <2>4 DEF idempotencyMatch, CheckAnswers, r
  <2> QED
    BY <2>3, <2>4
<1>5. CASE /\ r \in ValidRequests /\ Resolution[r].error # 0
           /\ Answered(c, Resolution[r].error, NULL) /\ UNCHANGED lastId
  BY <1>1, <1>5, ErrorCodes DEF CheckAnswers, r
<1>6. CASE r \in ValidRequests /\ Resolution[r].error = 0 /\ MakeRow(c)
  BY <1>6 DEF FitRequests, r
<1> QED
  BY <1>2, <1>3, <1>4, <1>5, <1>6 DEF Check, r

LEMMA MakeRowInv ==
  ASSUME Inv, NEW c \in Calls, call[c].pc = "check", call[c].req \in FitRequests,
         MakeRow(c), UNCHANGED <<dbVars, runVars>>
  PROVE  Inv'
<1>1. PICK n : n = lastId + 1
  OBVIOUS
<1>2. PICK x : x = [call[c] EXCEPT !.pc = "insert", !.id = n]
  OBVIOUS
<1>3. n \in Nat /\ lastId \in Nat /\ lastId' = n /\ n \notin 1..lastId /\ n # NULL
      /\ n \in 1..n /\ lastId <= n
  BY <1>1, NullAssumption DEF Inv, CallTypeOK, MakeRow
<1>4. call \in [Calls -> CallRecord] /\ call[c] \in CallRecord
  BY DEF Inv, CallTypeOK
<1>5. call' = [call EXCEPT ![c] = x]
  BY <1>1, <1>2, <1>4 DEF MakeRow
<1>6. /\ x.pc = "insert" /\ x.req = call[c].req /\ x.id = n
      /\ x.answer = call[c].answer /\ x \in CallRecord
  BY <1>2, <1>3, <1>4 DEF CallRecord, Storing
<1>7. call'[c] = x /\ \A d \in Calls : d # c => call'[d] = call[d]
  BY <1>4, <1>5
<1>8. CallTypeOK'
  <2>1. \A i \in 1..lastId : i \in 1..n
    BY <1>1, <1>3
  <2> QED
    BY <1>3, <1>4, <1>5, <1>6, <2>1 DEF Inv, CallTypeOK, dbVars, runVars
<1>9. RowsSound' /\ KeysUnique'
  BY <1>3, RowsKept DEF Inv, dbVars
<1>10. \A d \in Calls : call[d].id # n
  BY <1>3 DEF Inv, CallSound
<1>11. IdsDistinct'
  BY <1>6, <1>7, <1>10 DEF Inv, IdsDistinct
<1>12. CallSound(c)'
  <2>1. \A row \in rows : row.id # n
    BY <1>3 DEF Inv, RowsSound
  <2>2. call[c].answer = NULL /\ call[c].req # NULL
    BY DEF Inv, CallSound
  <2> QED
    BY <1>3, <1>6, <1>7, <2>1, <2>2 DEF CallSound, Storing, dbVars
<1>13. ASSUME NEW d \in Calls, d # c PROVE CallSound(d)'
  BY <1>3, <1>7, <1>13, OtherCall DEF Inv, dbVars
<1> QED
  BY <1>8, <1>9, <1>11, <1>12, <1>13 DEF Inv

LEMMA CheckInv ==
  ASSUME Inv, NEW c \in Calls, Check(c)
  PROVE  Inv'
<1>1. call[c].pc = "check" /\ UNCHANGED <<dbVars, runVars>>
  BY DEF Check
<1>2. CASE call[c].req \in FitRequests /\ MakeRow(c)
  BY <1>1, <1>2, MakeRowInv
<1>3. ASSUME NEW code \in Nat, NEW id \in Nat \cup {NULL}, Answered(c, code, id),
             UNCHANGED lastId
      PROVE  Inv'
  BY <1>1, <1>3, AnsweredInv DEF dbVars, runVars, Inv, CallTypeOK
<1>4. CASE CheckAnswers(c)
  <2>1. \A row \in rows : row.id \in Nat
    BY DEF Inv, RowsSound
  <2>2. UNCHANGED lastId
    BY <1>4 DEF CheckAnswers
  <2>3. ASSUME NEW code \in Nat, NEW id, id \in Nat \/ id = NULL, Answered(c, code, id)
        PROVE  Inv'
    BY <1>3, <2>2, <2>3
  <2>4. CASE \E code \in {400, 403, 404, 422} : Answered(c, code, NULL)
    <3>1. PICK code \in {400, 403, 404, 422} : Answered(c, code, NULL)
      BY <2>4
    <3> QED
      BY <2>3, <3>1
  <2>5. CASE Answered(c, 500, NULL)
    <3>1. PICK code : code = 500
      OBVIOUS
    <3> QED
      BY <2>3, <2>5, <3>1
  <2>6. CASE \E row \in rows : Answered(c, 202, row.id)
    <3>1. PICK row \in rows : Answered(c, 202, row.id)
      BY <2>6
    <3>2. PICK code, id : code = 202 /\ id = row.id
      OBVIOUS
    <3> QED
      BY <2>1, <2>3, <3>1, <3>2
  <2>7. CASE Answered(c, 409, NULL)
    <3>1. PICK code : code = 409
      OBVIOUS
    <3> QED
      BY <2>3, <2>7, <3>1
  <2> QED
    BY <1>4, <2>4, <2>5, <2>6, <2>7 DEF CheckAnswers
<1> QED
  BY <1>2, <1>4, CheckCases

(* The row of a call that stores it. *)
LEMMA RowOfSound ==
  ASSUME Inv, NEW c \in Calls, call[c].pc = "insert"
  PROVE  /\ RowOf(c).id = call[c].id /\ RowOf(c).id \in 1..lastId
         /\ call[c].req \in FitRequests /\ RowFrom(RowOf(c), call[c].req)
         /\ \A row \in rows : row.id # call[c].id
<1>1. /\ call[c].req \in FitRequests /\ call[c].id \in 1..lastId
      /\ \A row \in rows : row.id # call[c].id
  BY DEF Inv, CallSound, Storing
<1> QED
  BY <1>1, FitMeans DEF RowOf, RowFrom

(* CreateTransaction takes effect, whatever the handler is told. *)
LEMMA StoreInv ==
  ASSUME Inv, NEW c \in Calls, call[c].pc = "insert", CreateTransaction(c),
         NEW pc \in {"notify", "fail"}, call' = [call EXCEPT ![c].pc = pc],
         UNCHANGED <<pending, logged, lastId, runVars>>
  PROVE  Inv'
<1>1. PICK row : row = RowOf(c)
  OBVIOUS
<1>2. /\ row.id = call[c].id /\ row.id \in 1..lastId /\ row.id # NULL
      /\ call[c].req \in FitRequests /\ RowFrom(row, call[c].req)
      /\ \A y \in rows : y.id # row.id
  BY <1>1, RowOfSound, NullAssumption
<1>3. /\ rows' = rows \cup {row} /\ queued' = queued \cup {row.id}
      /\ \A y \in rows : y.key # row.key
  BY <1>1, <1>2 DEF CreateTransaction, KeyFree, WithKey, RowFrom
<1>4. PICK x : x = [call[c] EXCEPT !.pc = pc]
  OBVIOUS
<1>5. call \in [Calls -> CallRecord] /\ call[c] \in CallRecord
  BY DEF Inv, CallTypeOK
<1>6. call' = [call EXCEPT ![c] = x]
  BY <1>4, <1>5
<1>7. /\ x.pc = pc /\ x.req = call[c].req /\ x.id = row.id
      /\ x.answer = call[c].answer /\ x \in CallRecord
  BY <1>2, <1>4, <1>5 DEF CallRecord, Storing
<1>8. call'[c] = x /\ \A d \in Calls : d # c => call'[d] = call[d]
  BY <1>5, <1>6
<1>9. CallTypeOK'
  BY <1>2, <1>3, <1>5, <1>6, <1>7 DEF Inv, CallTypeOK, runVars
<1>10. RowsSound'
  BY <1>2, <1>3 DEF Inv, RowsSound
<1>11. KeysUnique'
  BY <1>3 DEF Inv, KeysUnique
<1>12. \A d \in Calls : d # c => call[d].id # row.id
  BY <1>2 DEF Inv, IdsDistinct
<1>13. IdsDistinct'
  BY <1>2, <1>7, <1>8 DEF Inv, IdsDistinct
<1>14. CallSound(c)'
  <2>1. call[c].answer = NULL /\ call[c].req # NULL
    BY DEF Inv, CallSound
  <2>2. row.params = ParamsOf(call[c].req) /\ row.key = call[c].req.key
    BY <1>2 DEF RowFrom
  <2> QED
    BY <1>2, <1>3, <1>7, <1>8, <2>1, <2>2 DEF CallSound, Storing
<1>15. ASSUME NEW d \in Calls, d # c PROVE CallSound(d)'
  BY <1>3, <1>8, <1>12, <1>15, OtherCall DEF Inv, CallTypeOK
<1> QED
  BY <1>9, <1>10, <1>11, <1>13, <1>14, <1>15 DEF Inv

LEMMA InsertInv ==
  ASSUME Inv, NEW c \in Calls, Insert(c)
  PROVE  Inv'
<1>1. call[c].pc = "insert" /\ UNCHANGED <<pending, logged, lastId, runVars>>
  BY DEF Insert
<1>2. ASSUME CreateTransaction(c), NEW pc \in {"notify", "fail"},
             call' = [call EXCEPT ![c].pc = pc]
      PROVE  Inv'
  BY <1>1, <1>2, StoreInv
<1>3. CASE /\ DbFault \/ ~ KeyFree(call[c].req.key)
           /\ call' = [call EXCEPT ![c].pc = "fail"]
           /\ UNCHANGED <<rows, queued>>
  <2>1. PICK x : x = [call[c] EXCEPT !.pc = "fail"]
    OBVIOUS
  <2>2. call \in [Calls -> CallRecord] /\ call[c] \in CallRecord
    BY DEF Inv, CallTypeOK
  <2>3. call' = [call EXCEPT ![c] = x] /\ call'[c] = x
    BY <1>3, <2>1, <2>2
  <2>4. /\ x.pc = "fail" /\ x.req = call[c].req /\ x.id = call[c].id
        /\ x.answer = call[c].answer /\ x \in CallRecord
    BY <2>1, <2>2 DEF CallRecord, Storing
  <2>5. DbFault \/ \E row \in rows : row.key = call[c].req.key
    BY <1>3 DEF KeyFree, WithKey
  <2>6. CallSound(c)'
    BY <1>1, <1>3, <2>3, <2>4, <2>5 DEF Inv, CallSound, Storing
  <2> QED
    BY <1>1, <1>3, <2>3, <2>4, <2>6, OneCallMoves DEF runVars, Inv, CallTypeOK
<1> QED
  BY <1>2, <1>3 DEF Insert

LEMMA InsertFailedInv ==
  ASSUME Inv, NEW c \in Calls, InsertFailed(c)
  PROVE  Inv'
<1>1. ASSUME NEW code \in Nat, NEW id \in Nat \cup {NULL}, Answered(c, code, id)
      PROVE  Inv'
  BY <1>1, AnsweredInv DEF InsertFailed, dbVars, runVars, Inv, CallTypeOK
<1>2. PICK code \in Nat, id \in Nat \cup {NULL} : Answered(c, code, id)
  <2>1. 500 \in Nat /\ NULL \in Nat \cup {NULL}
    OBVIOUS
  <2>2. Answered(c, 500, NULL)
    BY DEF InsertFailed
  <2> QED
    BY <2>1, <2>2
<1> QED
  BY <1>1, <1>2

LEMMA LogAndNotifyInv ==
  ASSUME Inv, NEW c \in Calls, LogAndNotify(c)
  PROVE  Inv'
<1>1. call[c].id \in Nat
  BY DEF LogAndNotify, Inv, CallSound, CallTypeOK, CallRecord, Storing
<1>2. notify' \in [Pipelines -> BOOLEAN]
  BY DEF LogAndNotify, Notify, Inv, CallTypeOK
<1>3. /\ Answered(c, 202, call[c].id) /\ call[c].pc # "none"
      /\ UNCHANGED <<rows, queued, pending, lastId, worker>>
  BY DEF LogAndNotify
<1>4. ASSUME NEW code \in Nat, NEW id \in Nat \cup {NULL}, Answered(c, code, id)
      PROVE  Inv'
  BY <1>2, <1>3, <1>4, AnsweredInv
<1> QED
  BY <1>1, <1>3, <1>4

-----------------------------------------------------------------------------
(* The pipelines and the process leave the table and the ids alone. *)
LEMMA CallsKept ==
  ASSUME Inv, CallTypeOK', UNCHANGED <<rows, lastId, call>>
  PROVE  Inv'
<1>1. \A c \in Calls : CallSound(c)'
  BY DEF Inv, CallSound
<1>2. IdsDistinct'
  BY DEF Inv, IdsDistinct
<1> QED
  BY <1>1, <1>2 DEF Inv, RowsSound, KeysUnique

LEMMA QueuedIds ==
  ASSUME Inv, NEW p, QueuedOf(p) # {}
  PROVE  Min(QueuedOf(p)) \in queued /\ Min(QueuedOf(p)) \in 1..lastId
<1>1. QueuedOf(p) \subseteq queued /\ queued \subseteq 1..lastId /\ lastId \in Nat
  BY DEF QueuedOf, Inv, CallTypeOK
<1>2. 1..lastId \subseteq Nat
  BY <1>1
<1> QED
  BY <1>1, <1>2, MinOfNat

LEMMA ClaimInv ==
  ASSUME Inv, NEW p \in Pipelines, Claim(p)
  PROVE  Inv'
<1>1. CASE QueuedOf(p) = {}
  <2>1. /\ UNCHANGED <<rows, queued, pending, lastId, call, notify>>
        /\ worker' = [worker EXCEPT ![p] = [pc |-> "wait", row |-> NULL]]
    BY <1>1 DEF Claim, Waiting
  <2>2. CallTypeOK'
    BY <2>1 DEF Inv, CallTypeOK
  <2> QED
    BY <2>1, <2>2, CallsKept
<1>2. CASE QueuedOf(p) # {}
  <2>1. PICK i \in 1..lastId : i = Min(QueuedOf(p))
    BY <1>2, QueuedIds
  <2>2. /\ queued' = queued \ {i} /\ pending' = pending \cup {i}
        /\ worker' = worker
           \/ worker' = [worker EXCEPT ![p] = [pc |-> "process", row |-> i]]
        /\ UNCHANGED <<rows, lastId, call, notify>>
    BY <1>2, <2>1 DEF Claim
  <2>3. CallTypeOK'
    BY <2>2 DEF Inv, CallTypeOK
  <2> QED
    BY <2>2, <2>3, CallsKept
<1> QED
  BY <1>1, <1>2

LEMMA WakeInv ==
  ASSUME Inv, NEW p \in Pipelines, Wake(p)
  PROVE  Inv'
  BY CallsKept DEF Wake, Claiming, dbVars, Inv, CallTypeOK

LEMMA ProcessInv ==
  ASSUME Inv, NEW p \in Pipelines, Process(p)
  PROVE  Inv'
  BY CallsKept DEF Process, Claiming, Inv, CallTypeOK

LEMMA StartInv ==
  ASSUME Inv, Start
  PROVE  Inv'
  BY CallsKept DEF Start, Claiming, Inv, CallTypeOK

LEMMA StopInv ==
  ASSUME Inv, Stop
  PROVE  Inv'
<1>1. PICK a : a = [code |-> 0, id |-> NULL]
  OBVIOUS
<1>2. a \in Answers /\ a # NULL
  BY <1>1, NullAssumption DEF Answers
<1>3. ASSUME NEW c \in Calls
      PROVE  /\ call'[c] \in CallRecord /\ call'[c].id = call[c].id
             /\ call'[c].req = call[c].req
             /\ \/ call'[c] = call[c] /\ call[c].pc \in {"none", "done"}
                \/ /\ call[c].pc \notin {"none", "done"}
                   /\ call'[c].pc = "done" /\ call'[c].answer = a
  <2>1. call[c] \in CallRecord
    BY DEF Inv, CallTypeOK
  <2>2. call'[c] = IF call[c].pc \in {"none", "done"} THEN call[c]
                   ELSE [call[c] EXCEPT !.pc = "done", !.answer = a]
    BY <1>1 DEF Stop
  <2>3. CASE call[c].pc \in {"none", "done"}
    BY <2>1, <2>2, <2>3
  <2>4. CASE call[c].pc \notin {"none", "done"}
    BY <1>2, <2>1, <2>2, <2>4 DEF CallRecord
  <2> QED
    BY <2>3, <2>4
<1>4. call' = [c \in Calls |-> call'[c]]
  BY DEF Stop
<1>5. CallTypeOK'
  BY <1>3, <1>4 DEF Stop, dbVars, Inv, CallTypeOK
<1>6. ASSUME NEW c \in Calls PROVE CallSound(c)'
  <2>1. CallSound(c) /\ rows' = rows /\ lastId' = lastId
    BY DEF Stop, dbVars, Inv
  <2>2. CASE call'[c] = call[c]
    BY <2>1, <2>2 DEF CallSound
  <2>3. CASE /\ call[c].pc \notin {"none", "done"}
             /\ call'[c].pc = "done" /\ call'[c].answer = a
    BY <1>2, <1>3, <2>1, <2>3 DEF CallSound, Storing
  <2> QED
    BY <1>3, <2>2, <2>3
<1>7. IdsDistinct'
  BY <1>3 DEF Inv, IdsDistinct
<1> QED
  BY <1>5, <1>6, <1>7 DEF Stop, dbVars, Inv, RowsSound, KeysUnique

LEMMA StepInv ==
  ASSUME Inv, [Next]_vars
  PROVE  Inv'
<1>1. CASE UNCHANGED vars
  BY <1>1, CallsKept DEF vars, dbVars, runVars, Inv, CallTypeOK
<1>2. CASE Shutdown
  BY <1>2, CallsKept DEF Shutdown, dbVars, Inv, CallTypeOK
<1> QED
  BY <1>1, <1>2, ReceiveInv, CheckInv, InsertInv, InsertFailedInv, LogAndNotifyInv,
     ClaimInv, WakeInv, ProcessInv, StartInv, StopInv
     DEF Next, Handle, RunPipeline

LEMMA Invariance == Spec => []Inv
  BY InitInv, StepInv, PTL DEF Spec

(* README.md:293-295: whatever the handlers stored moves a positive amount *)
(* of a listed token within its limit, the amount that the stored text     *)
(* denotes, to the recipient asked for, for every configuration of chains  *)
(* and tokens and every set of requests.                                   *)
THEOREM StoredWithinPolicy == Spec => []RowsWithinPolicy
<1>1. ASSUME Inv PROVE RowsWithinPolicy
  <2> SUFFICES ASSUME NEW row \in rows
               PROVE  LET chain  == Chains[row.params.chain]
                          moved  == IF row.tx.data = NULL THEN row.tx.value
                                                          ELSE row.tx.data[2]
                          target == IF row.tx.data = NULL THEN row.tx.to
                                                          ELSE row.tx.data[1]
                          asset  == IF row.tx.data = NULL THEN chain.native
                                    ELSE chain.tokens[row.params.token]
                      IN  /\ moved > 0 /\ (asset.max # NULL => moved <= asset.max)
                          /\ Denotes(row.params.amount, asset.decimals, moved)
                          /\ target = row.params.recipient
                          /\ target \notin {ZeroAddr, ""}
                          /\ row.tx.data # NULL =>
                                /\ asset.enabled /\ row.tx.value = 0
                                /\ row.tx.to = asset.contract
                                /\ target # asset.contract
    BY DEF RowsWithinPolicy
  <2>1. PICK r \in FitRequests : row.params = ParamsOf(r) /\ row.tx = TxParams(r)
    BY <1>1 DEF Inv, RowsSound, RowFrom
  <2> QED
    BY <2>1, FitWithinPolicy
<1> QED
  BY <1>1, Invariance, PTL

-----------------------------------------------------------------------------
(* Whoever is told of a row of his own has the signal in the channel.      *)
Told(c) == call[c].id # NULL /\ call[c].answer = [code |-> 202, id |-> call[c].id]
Waking(c, p) ==
    Told(c) /\ worker[p].pc = "wait" /\ call[c].id \in QueuedOf(p) => notify[p]

LEMMA WakeupMeans == NoLostWakeup <=> \A c \in Calls, p \in Pipelines : Waking(c, p)
  BY DEF NoLostWakeup, Waking, Told

LEMMA WakingKept ==
  ASSUME NEW c, NEW p, Waking(c, p), Told(c)' => Told(c) /\ call'[c].id = call[c].id,
         call[c].id \in QueuedOf(p)' => call[c].id \in QueuedOf(p),
         worker'[p].pc = "wait" => worker[p].pc = "wait", notify[p] => notify'[p]
  PROVE  Waking(c, p)'
  BY DEF Waking

(* No answer is 202 with an id before the handler says so. *)
LEMMA NullTellsNothing ==
  ASSUME NEW x \in CallRecord, x.answer = NULL
  PROVE  ~ (x.id # NULL /\ x.answer = [code |-> 202, id |-> x.id])
<1>1. ASSUME NEW i \in Nat PROVE NULL # [code |-> 202, id |-> i]
  <2>1. [code |-> 202, id |-> i] \in Answers
    BY DEF Answers
  <2> QED
    BY <2>1, NullAssumption
<1> QED
  BY <1>1 DEF CallRecord

LEMMA NotTold ==
  ASSUME Inv', NEW c \in Calls, call'[c].pc # "done"
  PROVE  ~ Told(c)'
<1>1. call'[c].answer = NULL /\ call'[c] \in CallRecord
  BY DEF Inv, CallSound, CallTypeOK
<1> QED
  BY <1>1, NullTellsNothing DEF Told

(* The handler of another call. *)
LEMMA OtherWaking ==
  ASSUME NEW d \in Calls, NEW p \in Pipelines, Waking(d, p), call'[d] = call[d],
         rows' = rows, queued' = queued, worker' = worker, notify[p] => notify'[p]
  PROVE  Waking(d, p)'
<1>1. QueuedOf(p)' = QueuedOf(p)
  BY DEF QueuedOf
<1> QED
  BY <1>1, WakingKept DEF Told

(* A handler wakes the pipeline of its row. *)
LEMMA NotifyWakes ==
  ASSUME Inv, NEW c \in Calls, NEW p \in Pipelines, LogAndNotify(c),
         call[c].id \in QueuedOf(p)
  PROVE  notify'[p]
<1>1. PICK row \in rows : row.id = call[c].id /\ p = <<row.params.sender, row.params.chain>>
  BY DEF QueuedOf
<1>2. row.params = ParamsOf(call[c].req)
  BY <1>1 DEF Inv, CallSound
<1>3. p = <<call[c].req.sender.addr, call[c].req.chain>>
  BY <1>1, <1>2 DEF ParamsOf
<1> QED
  BY <1>3 DEF LogAndNotify, Notify, Inv, CallTypeOK

LEMMA HandlerWaking ==
  ASSUME Inv, Inv', NoLostWakeup, NEW c \in Calls, Receive(c) \/ Handle(c)
  PROVE  NoLostWakeup'
<1> SUFFICES ASSUME NEW d \in Calls, NEW p \in Pipelines PROVE Waking(d, p)'
  BY DEF NoLostWakeup, Waking, Told
<1>1. Waking(d, p)
  BY WakeupMeans
<1>2. call \in [Calls -> CallRecord]
  BY DEF Inv, CallTypeOK
<1>3. d # c => call'[d] = call[d]
  BY <1>2 DEF Receive, Handle, Check, Insert, InsertFailed, LogAndNotify, Answered, MakeRow
<1>4. notify[p] => notify'[p]
  <2>1. UNCHANGED notify \/ \E q \in Pipelines : Notify(q)
    BY DEF Receive, Handle, Check, Insert, InsertFailed, LogAndNotify, runVars
  <2> QED
    BY <2>1 DEF Notify, Inv, CallTypeOK
<1>5. worker' = worker
  BY DEF Receive, Handle, Check, Insert, InsertFailed, LogAndNotify, runVars
<1>6. CASE Insert(c)
  <2>1. CASE d = c
    <3>1. call'[c].pc \in {"notify", "fail"}
      BY <1>2, <1>6 DEF Insert, CallRecord
    <3> QED
      BY <2>1, <3>1, NotTold DEF Waking
  <2>2. CASE d # c
    <3>1. call[d].id \in QueuedOf(p)' => call[d].id \in QueuedOf(p)
      <4>1. call[c].id # NULL /\ call[c].id # call[d].id
        BY <1>6, <2>2 DEF Insert, Inv, IdsDistinct, CallSound, Storing
      <4>2. \/ UNCHANGED <<rows, queued>>
            \/ rows' = rows \cup {RowOf(c)} /\ queued' = queued \cup {call[c].id}
        BY <1>6 DEF Insert, CreateTransaction
      <4>3. RowOf(c).id = call[c].id
        BY DEF RowOf
      <4> QED
        BY <4>1, <4>2, <4>3 DEF QueuedOf
    <3> QED
      BY <1>1, <1>3, <1>4, <1>5, <2>2, <3>1, WakingKept DEF Told
  <2> QED
    BY <2>1, <2>2
<1>7. ASSUME ~ Insert(c) PROVE rows' = rows /\ queued' = queued
  BY <1>7 DEF Receive, Handle, Check, InsertFailed, LogAndNotify, dbVars
<1>8. CASE ~ Insert(c) /\ d # c
  BY <1>1, <1>3, <1>4, <1>5, <1>7, <1>8, OtherWaking
<1>9. CASE LogAndNotify(c) /\ d = c
  <2>1. call'[c].id = call[c].id
    BY <1>2, <1>9 DEF LogAndNotify, Answered
  <2>2. QueuedOf(p)' = QueuedOf(p)
    BY <1>9 DEF LogAndNotify, QueuedOf
  <2> QED
    BY <1>9, <2>1, <2>2, NotifyWakes DEF Waking
<1>10. CASE InsertFailed(c) /\ d = c
  <2>1. call'[c].answer = [code |-> 500, id |-> NULL]
    BY <1>2, <1>10 DEF InsertFailed, Answered
  <2> QED
    BY <1>10, <2>1 DEF Waking, Told
<1>11. CASE (Receive(c) \/ Check(c)) /\ d = c
  <2>1. call[c].id = NULL
    BY <1>11 DEF Receive, Check, Inv, CallSound
  <2>2. call'[c].id = NULL \/ call'[c].pc # "done"
    <3>1. CASE Receive(c)
      BY <1>2, <2>1, <3>1 DEF Receive, CallRecord
    <3>2. CASE Check(c)
      <4>1. CASE MakeRow(c)
        BY <1>2, <4>1 DEF MakeRow, CallRecord
      <4>2. ASSUME NEW code, NEW id, Answered(c, code, id) PROVE call'[c].id = NULL
        BY <1>2, <2>1, <4>2 DEF Answered
      <4>3. MakeRow(c) \/ \E code, id : Answered(c, code, id)
        BY <3>2, CheckCases DEF CheckAnswers
      <4> QED
        BY <4>1, <4>2, <4>3
    <3> QED
      BY <1>11, <3>1, <3>2
  <2>3. ~ Told(c)'
    BY <2>2, NotTold DEF Told
  <2> QED
    BY <1>11, <2>3 DEF Waking
<1> QED
  BY <1>6, <1>8, <1>9, <1>10, <1>11 DEF Handle

LEMMA PipelineWaking ==
  ASSUME Inv, NoLostWakeup, NEW q \in Pipelines, RunPipeline(q)
  PROVE  NoLostWakeup'
<1> SUFFICES ASSUME NEW c \in Calls, NEW p \in Pipelines PROVE Waking(c, p)'
  BY DEF NoLostWakeup, Waking, Told
<1>1. Waking(c, p)
  BY WakeupMeans
<1>2. /\ call' = call /\ rows' = rows /\ queued' \subseteq queued
      /\ \A x \in Pipelines \ {q} : worker'[x] = worker[x] /\ notify'[x] = notify[x]
  <2>1. notify \in [Pipelines -> BOOLEAN] /\ DOMAIN worker = Pipelines
        /\ worker = [x \in Pipelines |-> worker[x]]
    BY DEF Inv, CallTypeOK
  <2>2. CASE Claim(q)
    <3>1. \/ UNCHANGED worker \/ \E w : worker' = [worker EXCEPT ![q] = w]
      BY <2>2 DEF Claim
    <3> QED
      BY <2>1, <2>2, <3>1 DEF Claim
  <2>3. CASE Wake(q)
    BY <2>1, <2>3 DEF Wake, dbVars
  <2>4. CASE Process(q)
    BY <2>1, <2>4 DEF Process
  <2> QED
    BY <2>2, <2>3, <2>4 DEF RunPipeline
<1>3. QueuedOf(p)' \subseteq QueuedOf(p)
  BY <1>2 DEF QueuedOf
<1>4. CASE p # q
  BY <1>1, <1>2, <1>3, <1>4, WakingKept DEF Told
<1>5. CASE p = q
  <2>1. CASE Claim(q)
    <3>1. CASE QueuedOf(q) = {}
      BY <1>3, <1>5, <3>1 DEF Waking
    <3>2. CASE QueuedOf(q) # {}
      <4>1. worker'[q].pc # "wait"
        BY <2>1, <3>2 DEF Claim, Inv, CallTypeOK
      <4> QED
        BY <1>5, <4>1 DEF Waking
    <3> QED
      BY <3>1, <3>2
  <2>2. CASE Wake(q) \/ Process(q)
    <3>1. worker'[q].pc # "wait"
      BY <2>2 DEF Wake, Process, Claiming, Inv, CallTypeOK
    <3> QED
      BY <1>5, <3>1 DEF Waking
  <2> QED
    BY <2>1, <2>2 DEF RunPipeline
<1> QED
  BY <1>4, <1>5

LEMMA ProcessWaking ==
  ASSUME Inv, NoLostWakeup, Shutdown \/ Stop \/ Start \/ UNCHANGED vars
  PROVE  NoLostWakeup'
<1> SUFFICES ASSUME NEW c \in Calls, NEW p \in Pipelines PROVE Waking(c, p)'
  BY DEF NoLostWakeup, Waking, Told
<1>1. Waking(c, p)
  BY WakeupMeans
<1>2. CASE Shutdown \/ UNCHANGED vars
  BY <1>1, <1>2, OtherWaking DEF Shutdown, vars, dbVars, runVars
<1>3. CASE Start
  BY <1>3 DEF Start, Claiming, Waking
<1>4. CASE Stop
  <2>1. \/ call'[c] = call[c]
        \/ call'[c] = [call[c] EXCEPT !.pc = "done", !.answer = [code |-> 0, id |-> NULL]]
    BY <1>4 DEF Stop
  <2>2. CASE call'[c] = call[c]
    BY <1>1, <1>4, <2>2, OtherWaking DEF Stop, dbVars
  <2>3. CASE call'[c] = [call[c] EXCEPT !.pc = "done",
                                        !.answer = [code |-> 0, id |-> NULL]]
    <3>1. call[c] \in CallRecord
      BY DEF Inv, CallTypeOK
    <3>2. call'[c].answer = [code |-> 0, id |-> NULL]
      BY <2>3, <3>1 DEF CallRecord
    <3> QED
      BY <3>2 DEF Waking, Told
  <2> QED
    BY <2>1, <2>2, <2>3
<1> QED
  BY <1>2, <1>3, <1>4

(* A pipeline never waits out its poll interval over a row whose client    *)
(* has been told 202, although Notify drops a signal when the channel is   *)
(* full: either the signal is still there, or the claim that took it found *)
(* the row, for any number of requests, pipelines, crashes and faults.     *)
THEOREM WakeupNotLost == Spec => []NoLostWakeup
<1>1. ASSUME Inv, Inv', NoLostWakeup, [Next]_vars PROVE NoLostWakeup'
  BY <1>1, HandlerWaking, PipelineWaking, ProcessWaking DEF Next
<1> QED
  BY <1>1, InitInv, Invariance, PTL DEF Spec

-----------------------------------------------------------------------------
(* Every id was made for a call that keeps it, so there are no more ids    *)
(* than calls.                                                             *)
LEMMA IdsCountedStep ==
  ASSUME Inv, IdsCounted, [Next]_vars
  PROVE  IdsCounted'
<1>1. call \in [Calls -> CallRecord] /\ lastId \in Nat
  BY DEF Inv, CallTypeOK
<1>2. ASSUME lastId' = lastId, \A d \in Calls : call'[d].id = call[d].id
      PROVE  IdsCounted'
  <2>1. Numbered' = Numbered
    BY <1>2 DEF Numbered
  <2> QED
    BY <1>2, <2>1 DEF IdsCounted
<1>3. ASSUME NEW c \in Calls, call[c].pc = "check", MakeRow(c)
      PROVE  IdsCounted'
  <2>1. call[c].id = NULL /\ lastId + 1 # NULL
    BY <1>1, <1>3, NullAssumption DEF Inv, CallSound
  <2>2. call'[c].id = lastId + 1 /\ \A d \in Calls : d # c => call'[d] = call[d]
    BY <1>1, <1>3 DEF MakeRow, CallRecord
  <2>3. Numbered' = Numbered \cup {c} /\ c \notin Numbered
    BY <2>1, <2>2 DEF Numbered
  <2>4. IsFiniteSet(Numbered)
    BY ApiAssumption, FS_Subset DEF Numbered
  <2>5. Cardinality(Numbered \cup {c}) = Cardinality(Numbered) + 1
    BY <2>3, <2>4, FS_AddElement
  <2> QED
    BY <1>3, <2>3, <2>5 DEF IdsCounted, MakeRow
<1>4. ASSUME NEW c \in Calls, NEW code, NEW id, Answered(c, code, id), lastId' = lastId
      PROVE  IdsCounted'
  <2>1. \A d \in Calls : call'[d].id = call[d].id
    BY <1>1, <1>4 DEF Answered, CallRecord
  <2> QED
    BY <1>2, <1>4, <2>1
<1>5. ASSUME NEW c \in Calls, Handle(c) PROVE IdsCounted'
  <2>1. CASE Check(c)
    <3>1. MakeRow(c) \/ (lastId' = lastId /\ \E code, id : Answered(c, code, id))
      BY <2>1, CheckCases DEF CheckAnswers
    <3> QED
      BY <1>3, <1>4, <2>1, <3>1 DEF Check
  <2>2. CASE Insert(c)
    <3>1. \A d \in Calls : call'[d].id = call[d].id
      BY <1>1, <2>2 DEF Insert, CallRecord
    <3> QED
      BY <1>2, <2>2, <3>1 DEF Insert
  <2>3. CASE InsertFailed(c) \/ LogAndNotify(c)
    <3>1. lastId' = lastId /\ \E code, id : Answered(c, code, id)
      BY <2>3 DEF InsertFailed, LogAndNotify
    <3> QED
      BY <1>4, <3>1
  <2> QED
    BY <1>5, <2>1, <2>2, <2>3 DEF Handle
<1>6. ASSUME NEW c \in Calls, Receive(c) PROVE IdsCounted'
  <2>1. \A d \in Calls : call'[d].id = call[d].id
    BY <1>1, <1>6 DEF Receive, CallRecord
  <2> QED
    BY <1>2, <1>6, <2>1 DEF Receive
<1>7. ASSUME NEW p \in Pipelines, RunPipeline(p) PROVE IdsCounted'
  BY <1>2, <1>7 DEF RunPipeline, Claim, Wake, Process
<1>8. CASE Shutdown \/ Start \/ UNCHANGED vars
  BY <1>2, <1>8 DEF Shutdown, Start, vars
<1>9. CASE Stop
  <2>1. \A d \in Calls : call'[d].id = call[d].id
    BY <1>1, <1>9 DEF Stop, CallRecord
  <2> QED
    BY <1>2, <1>9, <2>1 DEF Stop
<1> QED
  BY <1>5, <1>6, <1>7, <1>8, <1>9 DEF Next

LEMMA IdsBounded ==
  ASSUME Inv, IdsCounted
  PROVE  \A i \in 1..lastId : i \in 1..Cardinality(Calls)
<1>1. Numbered \subseteq Calls /\ IsFiniteSet(Calls)
  BY ApiAssumption DEF Numbered
<1>2. Cardinality(Numbered) <= Cardinality(Calls) /\ Cardinality(Calls) \in Nat
  BY <1>1, FS_Subset, FS_CardinalityType
<1> QED
  BY <1>2 DEF Inv, CallTypeOK, IdsCounted

-----------------------------------------------------------------------------
(* What the clients asked for and what a key stands for, as the store of   *)
(* keys sees it.                                                           *)
LEMMA AskedIs ==
  ASSUME NEW c \in Calls, call[c].req \in Requests
  PROVE  /\ Asked(c) \in Questions /\ Asked(c) # NULL
         /\ Asked(c).key = call[c].req.key /\ Asked(c).key \in Keys
         /\ Asked(c).params = ParamsOf(call[c].req)
         /\ Asked(c).fit <=> call[c].req \in FitRequests
<1>1. Asked(c) = [key |-> call[c].req.key, params |-> ParamsOf(call[c].req),
                  fit |-> call[c].req \in FitRequests]
  BY ApiAssumption DEF Asked
<1>2. call[c].req.key \in Keys /\ ParamsOf(call[c].req) \in Params
  BY DEF Keys, Params
<1>3. Asked(c) \in Questions
  BY <1>1, <1>2 DEF Questions
<1>4. Asked(c).fit = (call[c].req \in FitRequests)
  <2>1. PICK b : b = (call[c].req \in FitRequests)
    OBVIOUS
  <2>2. Asked(c) = [key |-> call[c].req.key, params |-> ParamsOf(call[c].req), fit |-> b]
    BY <1>1, <2>1, Zenon
  <2>3. Asked(c).fit = b
    BY <2>2
  <2> QED
    BY <2>1, <2>3, Zenon
<1>5. Asked(c).key = call[c].req.key /\ Asked(c).params = ParamsOf(call[c].req)
  BY <1>1
<1> QED
  BY <1>2, <1>3, <1>4, <1>5, NullAssumption

LEMMA StoredIs ==
  ASSUME Inv, NEW row \in rows
  PROVE  /\ Stored(row.key) = [id |-> row.id, params |-> row.params]
         /\ Stored(row.key) # NULL /\ row.key \in Keys
<1>1. WithKey(row.key) = {row}
  BY DEF WithKey, Inv, KeysUnique
<1>2. Stored(row.key) = [id |-> row.id, params |-> row.params]
  BY <1>1 DEF Stored
<1>3. row.id \in Nat /\ row.params \in Params /\ row.key \in Keys
  BY FitMeans DEF Inv, RowsSound, RowFrom, Params, Keys
<1>4. Stored(row.key) \in Transfers
  BY <1>2, <1>3 DEF Transfers
<1> QED
  BY <1>2, <1>3, <1>4, NullAssumption

LEMMA StoredNone ==
  ASSUME NEW k, \A row \in rows : row.key # k
  PROVE  Stored(k) = NULL
  BY DEF Stored, WithKey

LEMMA StoredSome ==
  ASSUME Inv, NEW k, Stored(k) # NULL
  PROVE  \E row \in rows : row.key = k /\ Stored(k) = [id |-> row.id, params |-> row.params]
  BY StoredNone, StoredIs

LEMMA InitKeys == Init => KeyStore!Init
  BY DEF Init, NewCall, KeyStore!Init, Asked, Stored, WithKey

(* Steps the clients do not notice. *)
LEMMA KeysStutter ==
  ASSUME rows' = rows, \A c \in Calls : call'[c].req = call[c].req
                                         /\ call'[c].answer = call[c].answer
  PROVE  UNCHANGED KeyStore!vars
<1>1. \A c \in Calls : Asked(c)' = Asked(c)
  BY DEF Asked
<1>2. \A k \in Keys : Stored(k)' = Stored(k)
  BY DEF Stored, WithKey
<1> QED
  BY <1>1, <1>2 DEF KeyStore!vars

(* An answer is one the store of keys may give. *)
LEMMA RepliesKeys ==
  ASSUME Inv, NEW c \in Calls, call[c].pc \notin {"none", "done"}, NEW code, NEW id,
         Answered(c, code, id), rows' = rows,
         \/ /\ code = 202
            /\ \E row \in rows : /\ row.key = call[c].req.key /\ row.id = id
                                 /\ row.params = ParamsOf(call[c].req)
         \/ /\ code = 409
            /\ \E row \in rows : /\ row.key = call[c].req.key
                                 /\ row.params # ParamsOf(call[c].req)
         \/ code \in {400, 403, 404, 422} /\ call[c].req \notin FitRequests
         \/ /\ code = 500
            /\ DbFault \/ \E row \in rows : row.key = call[c].req.key
  PROVE  KeyStore!Reply(c, code, id)
<1>1. call \in [Calls -> CallRecord] /\ call[c].req \in Requests /\ call[c].answer = NULL
  BY HasRequest DEF Inv, CallTypeOK, CallSound
<1>2. /\ Asked(c) # NULL /\ Asked(c).key = call[c].req.key /\ Asked(c).key \in Keys
      /\ Asked(c).params = ParamsOf(call[c].req)
      /\ Asked(c).fit <=> call[c].req \in FitRequests
  BY <1>1, AskedIs
<1>3. KeyStore!Open(c)
  BY <1>1, <1>2 DEF KeyStore!Open
<1>4. KeyStore!TransferOf(c) = Stored(call[c].req.key)
  BY <1>2 DEF KeyStore!TransferOf
<1>5. \A row \in rows : row.key = call[c].req.key =>
        /\ KeyStore!TransferOf(c) = [id |-> row.id, params |-> row.params]
        /\ KeyStore!TransferOf(c) # NULL
  BY <1>4, StoredIs
<1>6. KeyStore!May(c, code, id)
  BY <1>2, <1>5 DEF KeyStore!May
<1>7. \A d \in Calls : Asked(d)' = Asked(d)
  BY <1>1 DEF Asked, Answered, CallRecord
<1>8. \A k \in Keys : Stored(k)' = Stored(k)
  BY DEF Stored, WithKey
<1>9. [d \in Calls |-> call'[d].answer] =
        [[d \in Calls |-> call[d].answer] EXCEPT ![c] = [code |-> code, id |-> id]]
  BY <1>1 DEF Answered, CallRecord
<1> QED
  BY <1>3, <1>6, <1>7, <1>8, <1>9 DEF KeyStore!Reply, KeyStore!Said

LEMMA ReceiveKeys ==
  ASSUME Inv, Inv', NEW c \in Calls, Receive(c)
  PROVE  KeyStore!Ask(c)
<1>1. PICK r \in Requests : call' = [call EXCEPT ![c].pc = "check", ![c].req = r]
  BY DEF Receive
<1>2. call \in [Calls -> CallRecord] /\ call[c].req = NULL
  BY DEF Inv, CallTypeOK, CallSound, Receive
<1>3. /\ call'[c].req = r /\ \A d \in Calls : call'[d].answer = call[d].answer
      /\ \A d \in Calls : d # c => call'[d] = call[d]
  BY <1>1, <1>2 DEF CallRecord
<1>4. Asked(c)' \in Questions
  BY <1>3, ApiAssumption DEF Asked, Questions, Keys, Params
<1>5. Asked(c) = NULL /\ \A d \in Calls : d # c => Asked(d)' = Asked(d)
  BY <1>2, <1>3 DEF Asked
<1>6. \A k \in Keys : Stored(k)' = Stored(k)
  BY DEF Receive, dbVars, Stored, WithKey
<1> QED
  BY <1>3, <1>4, <1>5, <1>6 DEF KeyStore!Ask, KeyStore!Question, Questions

(* The INSERT binds the key. *)
LEMMA StoreKeys ==
  ASSUME Inv, IdsCounted, NEW c \in Calls, call[c].pc = "insert", CreateTransaction(c),
         NEW pc \in {"notify", "fail"}, call' = [call EXCEPT ![c].pc = pc]
  PROVE  KeyStore!Bind(c, call[c].id)
<1>1. /\ call \in [Calls -> CallRecord] /\ call[c].answer = NULL
      /\ call[c].req \in FitRequests /\ call[c].req \in Requests
  BY FitMeans DEF Inv, CallTypeOK, CallSound, Storing
<1>2. /\ Asked(c) # NULL /\ Asked(c).key = call[c].req.key /\ Asked(c).key \in Keys
      /\ Asked(c).params = ParamsOf(call[c].req)
      /\ Asked(c).fit
  BY <1>1, AskedIs
<1>3. KeyStore!Open(c)
  BY <1>1, <1>2 DEF KeyStore!Open
<1>4. Stored(call[c].req.key) = NULL
  BY StoredNone DEF CreateTransaction, KeyFree, WithKey
<1>5. PICK row : row = RowOf(c)
  OBVIOUS
<1>6. /\ row.id = call[c].id /\ row.key = call[c].req.key
      /\ row.params = ParamsOf(call[c].req) /\ rows' = rows \cup {row}
      /\ \A y \in rows : y.id # row.id /\ y.key # row.key
  BY <1>5, RowOfSound DEF RowFrom, CreateTransaction, KeyFree, WithKey
<1>7. \A k \in Keys : Stored(k) # NULL => Stored(k).id # call[c].id
  BY <1>6, StoredSome
<1>8. Stored(row.key)' = [id |-> row.id, params |-> row.params]
  <2>1. WithKey(row.key)' = {row}
    BY <1>6 DEF WithKey
  <2> QED
    BY <2>1 DEF Stored
<1>9. \A k \in Keys : k # row.key => Stored(k)' = Stored(k)
  BY <1>6 DEF Stored, WithKey
<1>10. \A d \in Calls : Asked(d)' = Asked(d) /\ call'[d].answer = call[d].answer
  BY <1>1 DEF Asked, CallRecord
<1> QED
  BY <1>2, <1>3, <1>4, <1>6, <1>7, <1>8, <1>9, <1>10
     DEF KeyStore!Bind, KeyStore!TransferOf

LEMMA HandlerKeys ==
  ASSUME Inv, Inv', IdsCounted, NEW c \in Calls, Handle(c)
  PROVE  [KeyStore!Next]_(KeyStore!vars)
<1>1. call \in [Calls -> CallRecord]
  BY DEF Inv, CallTypeOK
<1>2. \A row \in rows : row.id \in 1..Cardinality(Calls)
  BY IdsBounded DEF Inv, RowsSound
<1>3. CASE Check(c)
  <2>1. call[c].pc = "check" /\ rows' = rows
    BY <1>3 DEF Check, dbVars
  <2>2. CASE MakeRow(c)
    <3>1. \A d \in Calls : call'[d].req = call[d].req /\ call'[d].answer = call[d].answer
      BY <1>1, <2>2 DEF MakeRow, CallRecord
    <3> QED
      BY <2>1, <3>1, KeysStutter
  <2>3. ASSUME NEW code \in {400, 403, 404, 422}, Answered(c, code, NULL),
               call[c].req \notin FitRequests
        PROVE  KeyStore!Next
    <3>1. KeyStore!Reply(c, code, NULL)
      BY <2>1, <2>3, RepliesKeys
    <3> QED
      BY <3>1 DEF KeyStore!Next
  <2>4. ASSUME DbFault, NEW code, code = 500, Answered(c, code, NULL)
        PROVE  KeyStore!Next
    <3>1. KeyStore!Reply(c, code, NULL)
      BY <2>1, <2>4, RepliesKeys
    <3> QED
      BY <2>4, <3>1 DEF KeyStore!Next
  <2>5. ASSUME NEW row \in rows, row.key = call[c].req.key,
               row.params = ParamsOf(call[c].req), NEW code, code = 202,
               NEW id, id = row.id, Answered(c, code, id)
        PROVE  KeyStore!Next
    <3>1. KeyStore!Reply(c, code, id)
      BY <2>1, <2>5, RepliesKeys
    <3> QED
      BY <1>2, <2>5, <3>1 DEF KeyStore!Next
  <2>6. ASSUME NEW row \in rows, row.key = call[c].req.key,
               row.params # ParamsOf(call[c].req), NEW code, code = 409,
               Answered(c, code, NULL)
        PROVE  KeyStore!Next
    <3>1. KeyStore!Reply(c, code, NULL)
      BY <2>1, <2>6, RepliesKeys
    <3> QED
      BY <2>6, <3>1 DEF KeyStore!Next
  <2> QED
    BY <1>3, <2>2, <2>3, <2>4, <2>5, <2>6, CheckCases DEF CheckAnswers
<1>4. CASE Insert(c)
  <2>1. call[c].pc = "insert" /\ call[c].id \in 1..Cardinality(Calls)
    BY <1>4, IdsBounded DEF Insert, Inv, CallSound, Storing
  <2>2. ASSUME CreateTransaction(c), NEW pc \in {"notify", "fail"},
               call' = [call EXCEPT ![c].pc = pc]
        PROVE  KeyStore!Next
    <3>1. KeyStore!Bind(c, call[c].id)
      BY <2>1, <2>2, StoreKeys
    <3> QED
      BY <2>1, <3>1 DEF KeyStore!Next
  <2>3. CASE call' = [call EXCEPT ![c].pc = "fail"] /\ UNCHANGED <<rows, queued>>
    <3>1. \A d \in Calls : call'[d].req = call[d].req /\ call'[d].answer = call[d].answer
      BY <1>1, <2>3 DEF CallRecord
    <3> QED
      BY <2>3, <3>1, KeysStutter
  <2> QED
    BY <1>4, <2>2, <2>3 DEF Insert
<1>5. CASE InsertFailed(c)
  <2>1. /\ call[c].pc = "fail" /\ rows' = rows
        /\ DbFault \/ \E row \in rows : row.key = call[c].req.key
    BY <1>5 DEF InsertFailed, dbVars, Inv, CallSound
  <2>2. PICK code : code = 500
    OBVIOUS
  <2>3. Answered(c, code, NULL)
    BY <1>5, <2>2 DEF InsertFailed
  <2>4. KeyStore!Reply(c, code, NULL)
    BY <2>1, <2>2, <2>3, RepliesKeys
  <2> QED
    BY <2>2, <2>4 DEF KeyStore!Next
<1>6. CASE LogAndNotify(c)
  <2>1. /\ call[c].pc = "notify" /\ rows' = rows
        /\ \E row \in rows : /\ row.key = call[c].req.key /\ row.id = call[c].id
                             /\ row.params = ParamsOf(call[c].req)
    BY <1>6 DEF LogAndNotify, Inv, CallSound
  <2>2. PICK code, id : code = 202 /\ id = call[c].id
    OBVIOUS
  <2>3. Answered(c, code, id)
    BY <1>6, <2>2 DEF LogAndNotify
  <2>4. KeyStore!Reply(c, code, id)
    BY <2>1, <2>2, <2>3, RepliesKeys
  <2> QED
    BY <1>2, <2>1, <2>2, <2>4 DEF KeyStore!Next
<1> QED
  BY <1>3, <1>4, <1>5, <1>6 DEF Handle

(* A stop leaves the clients of open calls without an answer. *)
LEMMA StopKeys ==
  ASSUME Inv, Stop
  PROVE  KeyStore!Lose
<1>1. ASSUME NEW c \in Calls
      PROVE  /\ call'[c].req = call[c].req
             /\ call'[c].answer = IF KeyStore!Open(c) THEN KeyStore!Said(0, NULL)
                                                      ELSE call[c].answer
  <2>1. call[c] \in CallRecord /\ CallSound(c)
    BY DEF Inv, CallTypeOK
  <2>2. KeyStore!Open(c) <=> call[c].pc \notin {"none", "done"}
    <3>1. call[c].req # NULL => Asked(c) # NULL
      BY <2>1, AskedIs DEF CallRecord
    <3>2. call[c].req = NULL => Asked(c) = NULL
      BY DEF Asked
    <3> QED
      BY <2>1, <3>1, <3>2 DEF KeyStore!Open, CallSound
  <2> QED
    BY <2>1, <2>2 DEF Stop, CallRecord, KeyStore!Said
<1>2. \A c \in Calls : Asked(c)' = Asked(c)
  BY <1>1 DEF Asked
<1>3. \A k \in Keys : Stored(k)' = Stored(k)
  BY DEF Stop, dbVars, Stored, WithKey
<1> QED
  BY <1>1, <1>2, <1>3 DEF KeyStore!Lose

LEMMA StepKeys ==
  ASSUME Inv, Inv', IdsCounted, [Next]_vars
  PROVE  [KeyStore!Next]_(KeyStore!vars)
<1>1. ASSUME NEW c \in Calls, Receive(c) PROVE KeyStore!Next
  BY <1>1, ReceiveKeys DEF KeyStore!Next
<1>2. CASE Stop
  BY <1>2, StopKeys DEF KeyStore!Next
<1>3. ASSUME \/ \E p \in Pipelines : RunPipeline(p)
             \/ Shutdown \/ Start \/ UNCHANGED vars
      PROVE  UNCHANGED KeyStore!vars
  <2>1. rows' = rows /\ call' = call
    BY <1>3 DEF RunPipeline, Claim, Wake, Process, Shutdown, Start, vars, dbVars
  <2> QED
    BY <2>1, KeysStutter
<1> QED
  BY <1>1, <1>2, <1>3, HandlerKeys DEF Next

(* REQUIREMENTS.md:47: however many requests with the same key run at the  *)
(* same time, through database errors and crashes, the handlers together   *)
(* bind a key and answer a call as a store of keys does in one step each.  *)
THEOREM KeyStoreImplemented == Spec => ImplementsKeyStore
  BY InitInv, InitKeys, StepKeys, IdsCountedStep, Invariance, PTL
     DEF Spec, ImplementsKeyStore, KeyStore!Spec
=============================================================================

----------------------------- MODULE TransferApi ----------------------------
(***************************************************************************)
(* internal/api/transfer.go: the handler of POST /v1/transfers, and how a  *)
(* stored row comes to the attention of its pipeline (manager.go           *)
(* NotifyPipeline, pipeline.go Notify and Run).  net/http serves every     *)
(* request in a goroutine of its own, so the handlers run concurrently     *)
(* with each other and with the pipelines; between the look-up of the key  *)
(* and the INSERT nothing is locked.  What processTx makes of a claimed    *)
(* row is the module Pipeline's subject.                                   *)
(*                                                                         *)
(* A request is a record of fields; "" is an empty field.  An address      *)
(* field has the address it denotes (HexToAddress) and the notation it is  *)
(* written in, with the prefix 0x or without; letter case is left out, as  *)
(* every comparison of addresses and token symbols folds it.               *)
(***************************************************************************)
EXTENDS DecimalNotation

CONSTANTS
    Calls,        \* HTTP requests; each is served once
    Requests,     \* bodies the clients may send
    LongKeys,     \* idempotency keys of more than 256 characters
    Addresses,    \* what IsHexAddress takes
    SignerAddrs,  \* addresses the signer has keys for
    ZeroAddr,     \* common.Address{}
    Chains,       \* the configured ChainConfig of a chain_id
    MaxUint256,   \* domain.MaxUint256
    DbFault,      \* whether statements of the database may fail
    MaxStops,     \* bound: number of crashes and shutdowns
    NULL

ASSUME ApiAssumption ==
    /\ SignerAddrs \subseteq Addresses
    /\ 0 \notin DOMAIN Chains
    /\ MaxUint256 \in Nat /\ MaxStops \in Nat /\ DbFault \in BOOLEAN
    /\ IsFiniteSet(Calls)
    /\ \A r \in Requests : r # NULL /\ r.amount \in Seq(STRING)

(* Decimals are a uint8; a limit is a big.Int, or nil for none. *)
ASSUME ChainsAssumption ==
    \A id \in DOMAIN Chains :
        \A asset \in {Chains[id].native}
                    \cup {Chains[id].tokens[t] : t \in DOMAIN Chains[id].tokens} :
            asset.decimals \in Nat /\ asset.max \in Int \cup {NULL}

VARIABLES
    rows,      \* table transactions, the columns that Create writes
    queued,    \* ids with status QUEUED
    pending,   \* ids with status PENDING
    logged,    \* ids with Create's entry in tx_state_log
    lastId,    \* ids made so far: ULIDs and created_at grow with it
    call,      \* per HTTP request: where Create is, and its local variables
    notify,    \* per pipeline: whether its channel holds a signal
    worker,    \* per pipeline: where Run is, and the row it holds
    phase,     \* "up", "draining" (srv.Shutdown waits) or "down"
    stops      \* number of crashes and shutdowns so far

dbVars  == <<rows, queued, pending, logged>>
runVars == <<notify, worker, phase, stops>>
vars    == <<dbVars, lastId, call, runVars>>

Pipelines == SignerAddrs \X DOMAIN Chains

-----------------------------------------------------------------------------
(* validate, resolveTransfer and idempotencyMatch.  The checks come in the *)
(* order of the code; the first that fails gives the answer.               *)

FirstError(checks) ==
    LET failed == {i \in DOMAIN checks : checks[i][1]}
    IN  IF failed = {} THEN 0 ELSE checks[Min(failed)][2]

Priorities == {"low", "normal", "high", "urgent"}

Validate(r) ==
    FirstError(<< <<r.key = "", 400>>,
                  <<r.key \in LongKeys, 400>>,
                  <<r.chain = 0, 400>>,
                  <<r.chain \notin DOMAIN Chains, 400>>,
                  <<r.sender.addr = "", 400>>,
                  <<r.sender.addr \notin Addresses, 400>>,
                  <<r.sender.addr \notin SignerAddrs, 404>>,
                  <<r.recipient.addr = "", 400>>,
                  <<r.recipient.addr \notin Addresses, 400>>,
                  <<r.recipient.addr = ZeroAddr, 400>>,
                  <<r.sender = r.recipient, 400>>,
                  <<r.token = "", 400>>,
                  <<r.amount = <<>>, 400>>,
                  <<r.priority # "" /\ r.priority \notin Priorities, 400>> >>)

Unlisted == [contract |-> NULL, decimals |-> 0, enabled |-> FALSE, max |-> NULL]

(* The native token has no contract; other tokens come from the whitelist. *)
IsNative(r) == r.token = Chains[r.chain].native.symbol
IsListed(r) == r.token \in DOMAIN Chains[r.chain].tokens
Asset(r) ==
    CASE IsNative(r) -> [contract |-> NULL, enabled |-> TRUE,
                         decimals |-> Chains[r.chain].native.decimals,
                         max      |-> Chains[r.chain].native.max]
      [] ~ IsNative(r) /\ IsListed(r) -> Chains[r.chain].tokens[r.token]
      [] OTHER -> Unlisted

Units(r) == ParseAmountToSmallestUnit(r.amount, Asset(r).decimals)

(* Mutant of OverLimit: the limit is one unit too high. *)
OverLimitLate(n, limit) == limit # NULL /\ n > limit + 1

OverLimit(n, limit) == limit # NULL /\ n > limit

ResolveError(r) ==
    FirstError(<< <<~ IsNative(r) /\ ~ IsListed(r), 403>>,
                  <<~ Asset(r).enabled, 403>>,
                  <<~ Units(r).ok, 400>>,
                  <<Units(r).value <= 0, 422>>,
                  <<Units(r).value > MaxUint256, 422>>,
                  <<OverLimit(Units(r).value, Asset(r).max), 422>>,
                  <<r.recipient.addr = Asset(r).contract, 400>> >>)

(* txParams: what the transaction on the chain says. *)
TxParams(r) ==
    IF IsNative(r)
    THEN [to |-> r.recipient.addr, value |-> Units(r).value, data |-> NULL]
    ELSE [to |-> Asset(r).contract, value |-> 0,
          data |-> <<r.recipient.addr, Units(r).value>>]

(* Validation and resolution depend on nothing but the request and the     *)
(* configuration.                                                          *)
ValidRequests == {r \in Requests : Validate(r) = 0}
Rejection  == [r \in Requests |-> Validate(r)]
Resolution == [r \in ValidRequests |-> [error |-> ResolveError(r), tx |-> TxParams(r)]]

(* What makes two requests the same transfer: not their notation of        *)
(* addresses and not the priority, but the text of the amount.             *)
ParamsOf(r) == [chain |-> r.chain, sender |-> r.sender.addr,
              recipient |-> r.recipient.addr, token |-> r.token,
              amount |-> r.amount]

(* What a call asks for and is told, and what a key stands for. *)
Keys      == {r.key : r \in Requests}
Params    == {ParamsOf(r) : r \in Requests}
Questions == [key : Keys, params : Params, fit : BOOLEAN]
Answers   == [code : Nat, id : Nat \cup {NULL}]
Transfers == [id : Nat, params : Params]

(* nil is none of the values it stands in for. *)
ASSUME NullAssumption ==
    /\ NULL \notin Int /\ NULL \notin Addresses \X Int
    /\ NULL \notin Questions /\ NULL \notin Answers /\ NULL \notin Transfers

(* Mutant of idempotencyMatch: the recipient is not compared. *)
MatchAnyRecipient(row, r) ==
    [row.params EXCEPT !.recipient = r.recipient.addr] = ParamsOf(r)

idempotencyMatch(row, r) == row.params = ParamsOf(r)

-----------------------------------------------------------------------------
(* The handler Create *)

NewCall == [pc |-> "none", req |-> NULL, id |-> NULL, answer |-> NULL]

Answered(c, code, id) ==
    call' = [call EXCEPT ![c].pc = "done", ![c].answer = [code |-> code, id |-> id]]

WithKey(k) == {row \in rows : row.key = k}

(* net/http hands the request to a goroutine, which decodes the body; one  *)
(* that is not JSON is answered 400 and never gets as far as this.         *)
Receive(c) ==
    /\ phase = "up"
    /\ call[c].pc = "none"
    /\ \E r \in Requests :
          call' = [call EXCEPT ![c].pc = "check", ![c].req = r]
    /\ UNCHANGED <<dbVars, lastId, runVars>>

(* The row is put together: an id and created_at before the INSERT. *)
MakeRow(c) ==
    /\ lastId' = lastId + 1
    /\ call' = [call EXCEPT ![c].pc = "insert", ![c].id = lastId + 1]

(* validate, the look-up of the key, and resolveTransfer. *)
Check(c) ==
    LET r == call[c].req IN
    /\ phase # "down" /\ call[c].pc = "check"
    /\ \/ /\ r \notin ValidRequests
          /\ Answered(c, Rejection[r], NULL)
          /\ UNCHANGED lastId
       \/ /\ r \in ValidRequests /\ DbFault
          /\ Answered(c, 500, NULL)
          /\ UNCHANGED lastId
       \/ /\ r \in ValidRequests
          /\ \E row \in WithKey(r.key) :
                IF idempotencyMatch(row, r) THEN Answered(c, 202, row.id)
                                            ELSE Answered(c, 409, NULL)
          /\ UNCHANGED lastId
       \/ /\ r \in ValidRequests /\ WithKey(r.key) = {}
          /\ Resolution[r].error # 0
          /\ Answered(c, Resolution[r].error, NULL)
          /\ UNCHANGED lastId
       \/ /\ r \in ValidRequests /\ WithKey(r.key) = {}
          /\ Resolution[r].error = 0
          /\ MakeRow(c)
    /\ UNCHANGED <<dbVars, runVars>>

RowOf(c) ==
    [id |-> call[c].id, key |-> call[c].req.key, params |-> ParamsOf(call[c].req),
     tx |-> Resolution[call[c].req].tx,
     priority |-> IF call[c].req.priority = "" THEN "normal"
                                               ELSE call[c].req.priority]

(* UNIQUE (idempotency_key) *)
KeyFree(k) == WithKey(k) = {}

CreateTransaction(c) ==
    /\ KeyFree(call[c].req.key)
    /\ rows'   = rows \cup {RowOf(c)}
    /\ queued' = queued \cup {call[c].id}

(* The INSERT succeeds, or fails, or its error hides that it took effect. *)
Insert(c) ==
    /\ phase # "down" /\ call[c].pc = "insert"
    /\ \/ /\ CreateTransaction(c)
          /\ call' = [call EXCEPT ![c].pc = "notify"]
       \/ /\ DbFault /\ CreateTransaction(c)
          /\ call' = [call EXCEPT ![c].pc = "fail"]
       \/ /\ DbFault \/ ~ KeyFree(call[c].req.key)
          /\ call' = [call EXCEPT ![c].pc = "fail"]
          /\ UNCHANGED <<rows, queued>>
    /\ UNCHANGED <<pending, logged, lastId, runVars>>

InsertFailed(c) ==
    /\ phase # "down" /\ call[c].pc = "fail"
    /\ Answered(c, 500, NULL)
    /\ UNCHANGED <<dbVars, lastId, runVars>>

(* Mutant of Notify: the signal is toggled. *)
NotifyToggle(p) == notify' = [notify EXCEPT ![p] = ~ notify[p]]

(* A full channel takes no second signal. *)
Notify(p) == notify' = [notify EXCEPT ![p] = TRUE]

(* LogStateTransition, whose error is ignored, NotifyPipeline, 202. *)
LogAndNotify(c) ==
    LET p == <<call[c].req.sender.addr, call[c].req.chain>> IN
    /\ phase # "down" /\ call[c].pc = "notify"
    /\ \/ logged' = logged \cup {call[c].id}
       \/ DbFault /\ UNCHANGED logged
    /\ IF p \in Pipelines THEN Notify(p) ELSE UNCHANGED notify
    /\ Answered(c, 202, call[c].id)
    /\ UNCHANGED <<rows, queued, pending, lastId, worker, phase, stops>>

Handle(c) == Check(c) \/ Insert(c) \/ InsertFailed(c) \/ LogAndNotify(c)

-----------------------------------------------------------------------------
(* The loop of Pipeline.Run *)

Waiting == [pc |-> "wait", row |-> NULL]
Claiming == [pc |-> "claim", row |-> NULL]

QueuedOf(p) ==
    {row.id : row \in {x \in rows : /\ x.id \in queued
                                    /\ <<x.params.sender, x.params.chain>> = p}}

(* ClaimNextQueued takes the oldest row.  When its UPDATE takes effect and *)
(* the answer is lost, the row is PENDING and nobody has it.               *)
Claim(p) ==
    /\ phase = "up" /\ worker[p].pc = "claim"
    /\ \/ /\ QueuedOf(p) # {}
          /\ LET i == Min(QueuedOf(p)) IN
               /\ queued'  = queued \ {i}
               /\ pending' = pending \cup {i}
               /\ \/ worker' = [worker EXCEPT ![p] = [pc |-> "process", row |-> i]]
                  \/ DbFault /\ UNCHANGED worker
       \/ /\ QueuedOf(p) = {}
          /\ worker' = [worker EXCEPT ![p] = Waiting]
          /\ UNCHANGED <<queued, pending>>
    /\ UNCHANGED <<rows, logged, lastId, call, notify, phase, stops>>

(* Mutant of Wake: after the poll interval the loop waits on. *)
WakeBySignalOnly(p) ==
    /\ phase = "up" /\ worker[p].pc = "wait"
    /\ \/ /\ notify[p] /\ notify' = [notify EXCEPT ![p] = FALSE]
          /\ worker' = [worker EXCEPT ![p] = Claiming]
       \/ UNCHANGED <<notify, worker>>
    /\ UNCHANGED <<dbVars, lastId, call, phase, stops>>

(* select: the signal, or the poll interval. *)
Wake(p) ==
    /\ phase = "up" /\ worker[p].pc = "wait"
    /\ \/ notify[p] /\ notify' = [notify EXCEPT ![p] = FALSE]
       \/ UNCHANGED notify
    /\ worker' = [worker EXCEPT ![p] = Claiming]
    /\ UNCHANGED <<dbVars, lastId, call, phase, stops>>

(* processTx ends: the row is SUBMITTED or FAILED, or a statement of the   *)
(* database failed, as all do on shutdown, and it is PENDING still.        *)
Process(p) ==
    /\ phase # "down" /\ worker[p].pc = "process"
    /\ \/ pending' = pending \ {worker[p].row}
       \/ (DbFault \/ phase = "draining") /\ UNCHANGED pending
    /\ worker' = [worker EXCEPT ![p] = Claiming]
    /\ UNCHANGED <<rows, queued, logged, lastId, call, notify, phase, stops>>

RunPipeline(p) == Claim(p) \/ Wake(p) \/ Process(p)

-----------------------------------------------------------------------------
(* cmd/tx-sender/main.go *)

(* SIGTERM: the pipelines stop, no request comes in, handlers may finish. *)
Shutdown ==
    /\ phase = "up" /\ stops < MaxStops
    /\ phase' = "draining"
    /\ UNCHANGED <<dbVars, lastId, call, notify, worker, stops>>

(* The process ends: when the handlers are done, when ShutdownTimeout has  *)
(* passed, or at any point in a crash.  Open calls get no answer.          *)
Stop ==
    /\ phase # "down" /\ stops < MaxStops
    /\ phase' = "down" /\ stops' = stops + 1
    /\ call' = [c \in Calls |->
                  IF call[c].pc \in {"none", "done"} THEN call[c]
                  ELSE [call[c] EXCEPT !.pc = "done",
                                       !.answer = [code |-> 0, id |-> NULL]]]
    /\ UNCHANGED <<dbVars, lastId, notify, worker>>

(* InitNonces resets PENDING rows; Start makes new pipelines and channels. *)
Start ==
    /\ phase = "down"
    /\ queued' = queued \cup pending /\ pending' = {}
    /\ notify' = [p \in Pipelines |-> FALSE]
    /\ worker' = [p \in Pipelines |-> Claiming]
    /\ phase'  = "up"
    /\ UNCHANGED <<rows, logged, lastId, call, stops>>

Init ==
    /\ rows = {} /\ queued = {} /\ pending = {} /\ logged = {} /\ lastId = 0
    /\ call   = [c \in Calls |-> NewCall]
    /\ notify = [p \in Pipelines |-> FALSE]
    /\ worker = [p \in Pipelines |-> Claiming]
    /\ phase  = "up" /\ stops = 0

Next ==
    \/ \E c \in Calls : Receive(c) \/ Handle(c)
    \/ \E p \in Pipelines : RunPipeline(p)
    \/ Shutdown \/ Stop \/ Start

Spec == Init /\ [][Next]_vars

(* Handlers and pipelines are goroutines, a process that ended is started  *)
(* again, and the database does not fail every time: a failed claim        *)
(* changes nothing, and Run makes the next one after five seconds.         *)
Fairness ==
    /\ \A c \in Calls : WF_vars(Handle(c))
    /\ \A p \in Pipelines : WF_vars(RunPipeline(p))
    /\ WF_vars(Stop /\ phase = "draining") /\ WF_vars(Start)

FairSpec == Spec /\ Fairness

-----------------------------------------------------------------------------
(* Properties *)

(* The handlers, each with a look-up and an INSERT of its own, together    *)
(* implement the store of keys: "same idempotency key = same result"       *)
(* (REQUIREMENTS.md:16), whatever runs at the same time, fails or crashes. *)
FitRequests == {r \in ValidRequests : Resolution[r].error = 0}

Asked(c) ==
    IF call[c].req = NULL THEN NULL
    ELSE [key |-> call[c].req.key, params |-> ParamsOf(call[c].req),
          fit |-> call[c].req \in FitRequests]

Stored(k) ==
    IF WithKey(k) = {} THEN NULL
    ELSE LET row == CHOOSE row \in WithKey(k) : TRUE
         IN  [id |-> row.id, params |-> row.params]

KeyStore == INSTANCE IdempotentStore WITH
    Ids    <- 1..Cardinality(Calls),
    Faulty <- DbFault,
    asked  <- [c \in Calls |-> Asked(c)],
    store  <- [k \in Keys |-> Stored(k)],
    answer <- [c \in Calls |-> call[c].answer]

ImplementsKeyStore == KeyStore!Spec

(* No wake-up is lost (Notify drops a signal when one is there): while a   *)
(* pipeline waits, every QUEUED row of its own whose handler has answered  *)
(* 202 has a signal in the channel, so the row need not wait for the poll  *)
(* interval.                                                               *)
NoLostWakeup ==
    \A c \in Calls, p \in Pipelines :
        /\ call[c].id # NULL /\ call[c].answer = [code |-> 202, id |-> call[c].id]
        /\ worker[p].pc = "wait" /\ call[c].id \in QueuedOf(p)
        => notify[p]

(* README.md:293-295, but for self-transfers: what is stored moves a       *)
(* positive amount of a listed token within its limit, exactly as much as  *)
(* the stored text denotes in the decimals of that token, and neither to   *)
(* the zero address nor to the token contract.  That "self-transfers [...] *)
(* are all rejected" is not so: the two addresses are compared as they are *)
(* written (transfer.go:320), so the sender's own address in bare notation *)
(* gets through.                                                           *)
RowsWithinPolicy ==
    \A row \in rows :
        LET chain  == Chains[row.params.chain]
            moved  == IF row.tx.data = NULL THEN row.tx.value ELSE row.tx.data[2]
            target == IF row.tx.data = NULL THEN row.tx.to ELSE row.tx.data[1]
            asset  == IF row.tx.data = NULL THEN chain.native
                                            ELSE chain.tokens[row.params.token]
        IN  /\ moved > 0 /\ (asset.max # NULL => moved <= asset.max)
            /\ Denotes(row.params.amount, asset.decimals, moved)
            /\ target = row.params.recipient /\ target \notin {ZeroAddr, ""}
            /\ row.tx.data # NULL => /\ asset.enabled /\ row.tx.value = 0
                                     /\ row.tx.to = asset.contract
                                     /\ target # asset.contract

(* Every stored row is claimed by its pipeline, also one whose INSERT      *)
(* seemed to fail, whose handler died before NotifyPipeline, or whose      *)
(* signal was dropped.                                                     *)
EveryRowClaimed ==
    \A c \in Calls : (call[c].id \in queued) ~> (call[c].id \notin queued)
=============================================================================

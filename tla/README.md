# evm-tx-sender in TLA+

A model of the transaction sender (`src/`), checked with TLC on small
instances and proved with TLAPS for every value of its parameters. Paths below
are relative to `src/`.

## The system

The service accepts transfer requests over HTTP, stores each as a row in
PostgreSQL, signs it, broadcasts it to an EVM chain, and follows it to a final
status. For each chain it runs

| part | code | state | operations | correct when |
|---|---|---|---|---|
| transfer API, a goroutine per request | `internal/api/transfer.go` | locals of `Create` | validate, look the idempotency key up, resolve token and amount, insert a QUEUED row, notify the pipeline | one row per key, the same answer to the same request, nothing beyond the limits, no row forgotten |
| pipeline, one goroutine per (sender, chain) | `internal/pipeline/pipeline.go` | locals of `processTx` | claim a QUEUED row, take a nonce, estimate, sign, store the attempt, broadcast with retries, mark SUBMITTED | each nonce at one row, stored before broadcast, no row left behind |
| receipt poller | `internal/pipeline/receipt.go` | locals of `poll` | read a page of rows, ask for receipts, mark INCLUDED, CONFIRMED or REVERTED; after a reorg back to SUBMITTED and rebroadcast | CONFIRMED means mined, deep enough and final |
| stuck detector | `internal/pipeline/stuck.go` | locals of `check` | replace a transaction that stays SUBMITTED by one with the same nonce and a higher fee; give up after `maxGasBumps` | replacements replace, and are bounded |
| manager | `internal/pipeline/manager.go`, `cmd/tx-sender/main.go` | the goroutines | on start: PENDING rows back to QUEUED, nonce cursors set from the chain, then the goroutines | nothing lost, nothing sent twice |
| repository | `internal/infrastructure/postgres` | `transactions`, `tx_attempts`, `nonce_cursors`, `tx_state_log` | one SQL statement or database transaction per method | |
| RPC client | `internal/infrastructure/ethereum/client.go` | `healthy` flags of the endpoints, recovery goroutines | send to all healthy endpoints, read from the first one, batches of receipts, health check, recovery | a healthy endpoint is not missed, one that is back is used again, calls return |
| gas engine | `internal/infrastructure/ethereum/gas.go` | none (fees are kept in `tx_attempts`) | fees by priority within limits, bump by a growing percentage | tip below maximum fee, a bump is accepted as a replacement, its cost is bounded |
| amounts | `internal/domain/transfer.go` | none | decimal text to base units | value exact, anything else refused |
| read API, signer, health, configuration, mocks | | | | |

The goroutines of a chain never talk to each other, but for the one signal that
`Create` leaves in the channel of a pipeline. They share the rows of the repository,
the flags of the RPC client and the chain, and most UPDATEs are `WHERE id = $n`: they do not look at the
status the row has by then. That is where the hard behaviour is: a row is read, an
RPC call is made, and the row is written according to what was read, while the
two other goroutines and the chain go on; the process may end between any two
steps; calls may fail after taking effect; blocks may be replaced. PROJECT.json
lists the hazards, each at its line and with the properties that watch it.

## Modules

| module | models | state |
|---|---|---|
| `TxDomain` | the domain types; constants `TxIds`, `Senders`, payloads, `Faults` | none |
| `Repository` | the four tables, one operator per statement | `status nonce finalHash receipt attempts cursor audit` |
| `EvmChain` | the chain and the nodes behind the RPC client (external) | `pool mined orphaned head fork` |
| `Pipeline` | `processTx` and the claim of `Run` | `pl`, per sender: program counter and locals |
| `ReceiptPoller` | `poll`, `pollSubmitted`, `pollIncluded`, `rebroadcastAfterReorg` | `rp` |
| `StuckDetector` | `check`, `bumpGas` | `sd` |
| `Manager` | `InitNonces`, `Start`, crash | `phase uninit pending crashes` |
| `AtMostOnce` | abstract: a transfer is tied to one nonce and lands at most once | `accepted seal landed` |
| `TxSender` | composition, properties, refinement of `AtMostOnce`, inductive invariant, fairness | |
| `TxSenderProofs` | six theorems | |
| `NonceProofs` | the refinement of `AtMostOnce`; whose attempts the hashes are; nonces, as long as the process has not crashed | |
| `FinalityProofs` | what CONFIRMED means | |
| `Amounts` | `ParseAmountToSmallestUnit`, as operators | none |
| `AmountsProofs` | induction without an operator; the parser is total | |
| `DecimalNotation` | positional notation: what a decimal text denotes | none |
| `AmountTexts` | `Amounts` compared with the notation on every text | `text decimals` |
| `AmountTextsProofs` | the comparison for texts of any length | |
| `IdempotentStore` | abstract: a store that binds a key and answers a call in one step each | `asked store answer` |
| `TransferApi` | concurrent `Create` handlers, `NotifyPipeline`, `Run`'s loop, shutdown, restart; refines `IdempotentStore` | `rows queued pending logged lastId call notify worker phase stops` |
| `TransferApiProofs` | three theorems, the refinement of `IdempotentStore` among them | |
| `RpcPool` | the endpoints, `getClient`, failover, `SendTransaction`, health check, recovery | `state changes errors healthy recovery check caller`, and the history `steady` |
| `RpcPoolProofs` | two theorems | |
| `GasEngine` | `Estimate`, `BumpGas` | `chain attempts first fees` |
| `GasEngineProofs` | five theorems | |
| `MCTxSender`, `MCTransferApi`, `MCGasEngine` | constants for TLC | |

The modules meet in these places. `TxSender` composes the goroutines with the
repository and the chain; it takes a request that was accepted as one step
(`CreateTransfer`), broadcasting as `SendOk`/`SendErr`, a fee as a level and the
loop of `Run` as weakly fair. `TransferApi` opens up the first and the last of
these, `RpcPool` the second (`SendResult`: what nil means, the `"endpoint"`
fault included), `GasEngine` the third (`BumpReplaces`: a bump is a higher
level). `TransferApi` extends `DecimalNotation`, by which `RowsWithinPolicy` says
what an amount is worth.

How the code became actions in `TxSender`:

- A row id is a number, and ids are in the order of `created_at`, which the
  queries sort by. `Create` takes both before the INSERT, and handlers run side
  by side, so rows appear in any order of ids, also after a younger one was
  claimed.
- A signed transaction is the record of what determines its hash: sender,
  payload, nonce, fee level. Two rows that ask for the same transfer and get the
  same nonce and fee have *the same* hash; that is what Ethereum does, and it
  matters to `OneRowPerTransfer`.
- Each call to the database or to the network is a step, with its success and
  its error branch, in the order of the code. Local computation is merged with
  the call that follows it. An UPDATE is merged with the `LogStateTransition` or
  the `MarkAttemptStatus` calls right after it: each of the latter may fail by
  itself (fault `"db"`), but another goroutine is not scheduled between them.
  So the last failed broadcast (`Send`) and what the row is then marked as
  (`FailBroadcast`) are two steps, since the code sleeps between; the list of
  attempts (`ReadLatestAttempt`) and the send (`RebroadcastAfterReorg`) are two, and so
  are `PendingNonceAt` (`AskPendingNonce`) and the cursor (`InitNonceForSender`).
  The SELECT and the write of the cursor are one: nobody else runs then.
- A call to the network is answered by one endpoint, and each call perhaps by
  another. An endpoint may be up to `HeadLag` blocks behind (`MayMiss`), so
  the head it gives may be below the block of a receipt that was just read; it
  need not know what others hold in their pools (`PendingNonceAnswer`); and under the
  fault `"stale"` it may still be on a fork that a reorg has replaced
  (`ReceiptAnswer`), whose blocks are kept in `orphaned`.
- `FetchPage`, `FetchSubmittedReceipts` and `ApplySubmitted` (and the like for
  INCLUDED rows) are separate steps, so a row may change between them. The page
  is a set of snapshots; receipts are applied in any order in `pollSubmitted`
  (the code ranges over a map) and in id order in `pollIncluded` (a slice).
- `Depth` is a subtraction modulo `UintSize`, 2^64 in the code.
- The stuck threshold and the bump interval depend on the clock: `FetchStuck`
  takes any set of SUBMITTED rows, and `Skip` may leave any of them alone.
- `Faults` selects the failures an instance includes: `"db"` (a statement
  fails), `"net"` (an RPC call fails, before or after taking effect),
  `"estimate"` (estimation or signing fails after the nonce was taken),
  `"endpoint"` (all endpoints skipped, `SendTransaction` returns nil all the
  same), `"evict"` (nodes forget a pooled transaction), `"stale"` (an endpoint has
  not followed a reorg).
- The chain: `pool` is what some node may still mine; a node that takes a
  replacement drops the replaced transaction, another may not, so taking one
  removes none. Nonces of an account are mined in order and once. A reorg drops
  up to `MaxReorgDepth` blocks; of their transactions a prefix in nonce order is
  mined in the new fork, perhaps elsewhere and with another outcome, the others
  return to the pool or are lost.
- `Crash` ends the process at any step; what the goroutines held is gone. It
  stands for a graceful shutdown too, whose context cancels the calls under way,
  and for `InitNonces` returning an error, which ends `run`.

In `TransferApi`:

- A request is a record of fields. `validate` and `resolveTransfer` are lists of
  checks in the order of the code, of which the first that fails gives the answer.
  An address has a notation (with `0x` or without), because the code compares
  addresses as bytes in one place and as text in another; amounts are texts.
- The look-up of the key, the INSERT, and `LogStateTransition` with
  `NotifyPipeline` are separate steps of a handler. The INSERT may take effect
  although the handler sees an error, and so may the pipeline's claim.
- `Shutdown` stops the pipelines and lets handlers finish (`srv.Shutdown`);
  `Stop` ends the process, from there or out of the blue. Calls that are open
  then get no answer.
- What `processTx` does is one step here: the row is no longer PENDING, or it is.

In `RpcPool` each load of a flag in a loop over the endpoints, each answer, and
each probe and the store of its result are steps. `recovery` counts the recovery
goroutines of an endpoint, since `markUnhealthy` starts one whether or not there
is one. Endpoints are up, down, or hang; only probes have a timeout.

In `GasEngine` division rounds down, as that of `big.Int` does for naturals, and
an unset limit is `NULL`.

## Runs

Passing:

| run | instance | shows |
|---|---|---|
| `reorg` | 2 rows with one payload, 1 reorg not deeper than `ConfirmationBlocks`, 1 bump, no crash | `TypeOK`; `NoDoubleSend`: of all that was signed for a row the chain holds at most one; `EachNonceOnce`: the nonces of the rows are those below the cursor, each once; `ConfirmedIsFinal`: what is CONFIRMED stays in the block the row names; `OneConfirmedAttempt` |
| `faults` | 1 row, every fault, endpoints 1 block behind or on the old fork, reverting executions, 2 crashes at any step, 1 reorg, 1 bump | `ImplementsAtMostOnce`: the refinement, which has `NoDoubleSend` in it and says besides that a row is never signed with a second nonce; `BroadcastIsRecorded`: nothing in a pool or block that `tx_attempts` lacks; `BumpsBounded`; `BumpHasAttempt`: `attempts[len-1]` exists and has the nonce the replacement gets; `ConfirmedDeepEnough`: a row is confirmed under `ConfirmationBlocks` blocks unless the head was read below its receipt; `ConfirmedTransferred`: its transaction has moved the funds in some block, which is the row's own unless a reorg took the block |
| `direct` | `confirmation_blocks = 0`, 2 rows with one token payload on pages of 1, every outcome, failing estimates, fair | `ConfirmedTransferred` where `pollSubmitted` confirms by itself; `GapsOnlyOfFailed`: a nonce below that of a SUBMITTED row is unused only if a FAILED row has it; `EveryTransferSettles`: every accepted row ends in a terminal status and stays there |
| `settle` | 1 row, reorg, eviction, failing estimates, fair | `EveryTransferSettles` with a row that is INCLUDED and loses its block; `IndInv`, the invariant of the proofs |
| `intake` | 2 concurrent requests out of 27, failing database, 1 crash or shutdown, fair | `ImplementsKeyStore`: the refinement of `IdempotentStore`; `RowsWithinPolicy`: a row moves what the text of its request denotes, within the limits, to where it says; `NoLostWakeup`: no accepted row waits for the poll interval because a signal was dropped; `EveryRowClaimed` |
| `rpcpool` | 2 endpoints, a caller, health check, recovery goroutines, fair | `TypeOK`; `SteadyNotMissed`: an endpoint that stays healthy throughout a loop over the flags is not passed over; `EndpointsRecover`; `EveryCallReturns`: a call that never returns waits for an endpoint that hangs for good |
| `fees` | all combinations of set and unset limits, four priorities, a few suggestions of the node, 5 bumps | `TypeOK`; `TipBelowMaxFee`; `EstimateCapped`; `BumpReplaces`; `BumpsCostAtMost`: bumps compound to 6.071 times the first fees |
| `amounts` | every text of up to 5 of 9 characters, 0 to 2 decimals | `DecimalExact`: a decimal text is exact or refused; `AcceptedIsDecimal`: what else gets through is one `+` behind zeros |

Violations, each a line of the documentation that the code does not keep
(PROJECT.json has the quotes):

| run | property | what happens |
|---|---|---|
| `v_terminal` | `TerminalStays` | the detector reads a SUBMITTED row, the poller confirms it, the detector's `MarkSubmitted` (or `MarkFailed`) takes it out of its terminal status |
| `v_failed` | `FailedNotOnChain` | a superseded attempt is mined; only `final_tx_hash` is looked up, so the row ends FAILED |
| `v_lost` | `EveryTransferSettles` | a crash after `CreateAttempt`: the row is queued again, attempt 1 exists, and the row stays PENDING |
| `v_nonce` | `OneRowPerTransfer` | a crash: the endpoint asked at the start has not seen the pooled transaction of the first row, the cursor goes back, a second row with the same payload signs the identical transaction, and both rows are confirmed by it |

### Disagreements without a run of their own

Seen by changing a bound of a run, or in one that states the exception:

- `FailedNotOnChain` also fails without a bump, under the fault `"net"`: a
  broadcast errs after taking effect, the retries are refused as known, and
  `processTx` marks the row FAILED while its transaction is in the pools.

- `BlockNumber` answered by an endpoint that is behind: the unsigned subtraction
  (`receipt.go:259`) wraps and any depth is enough. `ConfirmedDeepEnough` names
  the case and fails in `faults` without it.
- A reorg that moves an INCLUDED transaction to a block where it reverts:
  `pollIncluded` does not look at `receipt.Status` (`receipt.go:321-363`), and
  CONFIRMED is not "receipt with status=1" (README.md:180).
  `ConfirmedTransferred` says what is left of it.

Seen in the text of the model:

- ARCHITECTURE.md:289 has a failed transaction release its nonce; `failTx` does
  not (`pipeline.go:130`), and later rows wait behind the gap. `GapsOnlyOfFailed`
  says how far this goes.
- README.md:251 says that a changed block hash sends the row back to SUBMITTED;
  `pollIncluded` keeps it INCLUDED with the new block (`receipt.go:340-370`), and
  only a missing receipt takes it back.
- REQUIREMENTS.md:121 says "Every state transition logged to the audit table";
  `ResetPendingToQueued` writes no entry, and the detector's late
  `MarkSubmitted` logs a transition from SUBMITTED whatever the row was.
- Two concurrent requests with one key: the one whose INSERT meets the UNIQUE
  index is answered 500 (`transfer.go:176`), not the 202 or 409 of
  REQUIREMENTS.md:47. A repetition of the request gets the right answer.
- The check that sender and recipient differ compares texts, so the same address
  with and without `0x` passes (README.md:295). The request `ToSelf` of `intake`
  does, and gets its row.
- The comment at `client.go:231` says "Return success if ANY succeeded"; the
  entry of an endpoint that was skipped is nil, too, and the function returns
  nil when nobody was asked or everybody who was asked refused (`SendResult`, and the
  fault `"endpoint"`). Its last line is unreachable.
- README.md:267 and ARCHITECTURE.md:1120-1125 describe bumps "capped at 100%
  (double the original)"; the percentage is of the last attempt, and no limit
  applies to bumps. `gas.go:128` promises at least 15 per cent, which rounding
  undoes below seven wei.
- With max-max-fee set and max-priority-fee not, the priority fee lifts maxFee
  over max-max-fee (`gas.go:97`).
- `SetString` takes a sign after the zeros in front were cut: "0+5" is 5.
- Rows are claimed by `created_at`, which is taken before the INSERT: a row may
  appear when a younger one is already claimed, and gets the higher nonce. "FIFO"
  (ARCHITECTURE.md:2196) is not what concurrent handlers get, so
  `EachNonceOnce` says nothing of the order. A page of `ListTransactions` may
  miss such a row.
- The comment at `manager.go:81` says "Use max(db_nonce, pending_nonce)";
  `StartNonce` is the pending nonce in either case, which is how `v_nonce` gets there.
- `GetTransaction` does not turn `ErrNoRows` into the error that
  `transaction.go:89-92` looks for: an unknown id is a 500.

### Bounds

- `TxIds`: two rows of one sender are the fewest that compete for nonces, share
  a page, fill a page, or share a hash. Senders share neither nonces nor rows,
  so `Senders` has one element; the proofs are for any number.
- `LastTxBlock` 2: both rows can be mined. `MaxBlocks` 3, or 4 where a row is to
  settle after a reorg, 2 where no depth is asked for: a row is buried
  `ConfirmationBlocks` (1) deep. `MaxReorgs` is 1, `MaxReorgDepth` 1 =
  `ConfirmationBlocks`, the depth that the service claims to withstand.
- `HeadLag` 1 and `"stale"` in `faults`: one block is enough for the subtraction to
  wrap. `ConfirmedIsFinal` and `OneConfirmedAttempt` are about endpoints that
  follow the chain, so `reorg` has neither.
- `MaxGasBumps` 1: a superseded attempt exists, and giving up is reached.
  `MaxBroadcastRetries` 2: a retry that follows a failure.
- `MaxCrashes` 2 in `faults`: every crash point, the recovery included, and a
  full life after it; 1 in `v_lost` and `v_nonce`, where it is enough. What two
  rows do to each other after a crash is in `v_nonce` and in the theorems on
  `NoDoubleSend` and `ImplementsAtMostOnce`, which have no bound on crashes.
- `faults` has a view, `ButAudit`: states that differ only in `audit` are one
  state. No guard and no property of the run reads `audit`, and with it every
  failed log entry would double the states.
- `UintSize` 16 exceeds every block number, as 2^64 does.
- `intake`: two handlers are the fewest that race for a key. `MCRequests` has two
  keys, the same transfer in two notations, another one for either key, one
  from a sender to itself that `validate` does not see through, and one request for every check of `validate` and `resolveTransfer`. `MaxStops` 1.
- `rpcpool`: two endpoints, so that failover has somewhere to go and a broadcast
  can be partial. One caller: others act on it only by changing flags and
  starting recovery goroutines, which the health check and the caller's earlier
  calls do at any step as well; the recovery goroutines of earlier calls run
  beside it. Endpoints change twice (down and back, or both), and one that is
  up errs once.
- `amounts`: five characters hold a sign, zeros in front, a digit, a dot and a
  fraction that is too long; of the digits, 0, 1 and 7 stand for all. `fees`:
  values below, at and above the seven wei where rounding matters, and on
  either side of every limit.
- The instances have no symmetry: rows are ordered by id and there is one
  sender, and the other runs have liveness properties or fixed inputs.

A chain that stops at `MaxBlocks` is no deadlock: the poller goes on for ever.
Deadlock is not checked in `fees` and `amounts`, which are computations that end.

### Fairness

`TxSender`'s `FairSpec` has weak fairness of each goroutine (a loop woken by a ticker or a
timeout; the pipeline's backoff and poll interval end), of the manager (the
process is restarted), and of block production: a pooled transaction may
remain unmined for ever (empty blocks satisfy it), in which case the bumps run
out. Strong fairness, per row, of the detector's taking the row into its list
and of its acting on it: a row that stays SUBMITTED is past the threshold and
past the bump interval sometime, and the detector does not skip it at every
check. Nothing is assumed of faults, crashes, reorgs or eviction. The bounds cap
their number except for eviction and estimate faults, which an instance allows
without limit.

`TransferApi`: weak fairness of each handler, of each pipeline, of the end of
a shutdown (`ShutdownTimeout`) and of the restart. That the pipeline's loop is
weakly fair is the ticker of `pollInterval`; a claim that fails is made again.

`RpcPool`: weak fairness of the health check, of the recovery goroutines and of
the steps of a caller. Nothing is assumed of an endpoint that hangs: no call but the
probes has a timeout, and `SendTransaction` waits for all its goroutines, so
`EveryCallReturns` can only say what a call that never returns waits for.

## Refinements

`ImplementsAtMostOnce` (in `TxSender`). `AtMostOnce` ties an accepted transfer to a
nonce once (`Seal`) and lets the chain hold at most one transaction of it, with
that nonce. A row is accepted when it exists, its seal is the nonce of its first
attempt (`SealOf`; not the row's `nonce`, which crash recovery does change), and what
landed is what the chain holds of its attempts. Blocks may take a transfer away
and bring it back, so `Land` does not have to add.

`ImplementsKeyStore` (in `TransferApi`). `IdempotentStore` binds a free key to the
transfer of a fit call and answers calls according to what the key stands for: 202
names the bound transfer and has its parameters, 409 only when they differ, 4xx
only to a call that is not fit, 500 only when the database may fail or the key is
taken. The store is the table seen by key; a crash answers nobody. The
look-up before the INSERT may be stale; that this makes no difference to what is
promised is what the refinement says.

## Proofs

`TxSenderProofs` proves, for all values of the constants that satisfy the named
assumptions (`DomainAssumption` ... `ManagerAssumption`: ids are positive
numbers, bounds are natural numbers, `NULL` is no other value; nothing
about reorg depth, lag or kinds of faults):

| theorem | statement |
|---|---|
| `Invariance` | `Spec => []IndInv` |
| `TypeCorrect` | `Spec => []TypeOK` |
| `NoDoubleSends` | `Spec => []NoDoubleSend` |
| `BroadcastsRecorded` | `Spec => []BroadcastIsRecorded` |
| `BumpsReplace` | `Spec => []BumpHasAttempt` |
| `BumpsAreBounded` | `Spec => []BumpsBounded` |

The argument. `NoDoubleSend` is not inductive: it says nothing about what a
goroutine is about to broadcast. The chain mines an account's nonce once
(`MinedOncePerNonce`, kept by mining and by reorgs), so it is enough that all
that was ever signed for a row has one nonce (`AttemptsShareNonce`). Two actions
sign. `BuildAndStore` signs attempt 1, whose insert succeeds only if the row has
no attempt: this UNIQUE constraint, not the status, is what saves a row that
crash recovery queued again with another nonce. `BumpGas` signs with the nonce
it read with its list: `DetectorRows` says that this is still the row's nonce and
that of its attempts. That in turn needs that a row once handed over is
never PENDING again (`RowsConsistent`: a PENDING row in a pipeline's hands is in
no list, and whoever holds a row in memory holds one that `WasSubmitted`), since
only then could its nonce change. `BroadcastIsRecorded` needs that what a pipeline or the
detector is about to send is among the row's hashes (`PipelineRow`,
`DetectorRows`). The invariant is proved action by action, then combined in
`NextInv`; the run `settle` checks it on an instance.

`NonceProofs` proves `AtMostOnceImplemented`: `Spec => ImplementsAtMostOnce`. That
the chain holds one transaction of a row, with the nonce of its seal, follows from
`IndInv`. The rest is about single steps. A row is accepted by
`CreateTransfer` only (`StatusStep`: every other statement writes the status of a
row that exists). No step takes an attempt away (`AttemptsGrow`), so the old and
the new first attempt of a row are both among its hashes, which share a nonce:
a seal never changes (`SealStays`). A row without attempts gets one from
`BuildAndStore` only, with a nonce that is a number; this is `Seal`.

It also proves what holds in the first life of the process:

| theorem | statement |
|---|---|
| `NoncesOnce` | `Spec => []EachNonceOnce` |
| `GapsAreFailures` | `Spec => [](crashes = 0 /\ ~ DbFault => GapsOnlyOfFailed)` |

That the process has not crashed is part of `EachNonceOnce` and a hypothesis of
the other. It is needed: `InitNonces` sets the cursor to the pending nonce of one
endpoint, which may be below nonces that rows still have, and after that two
rows can have one nonce (`v_nonce`). It is a condition on the state, not on the
constants, so the theorems cover every instance up to its first crash. The
inductive invariant `FirstLife` adds to `IndInv` that every cursor is set once
the goroutines run (`CursorsSet`), that a row nobody has claimed has neither
nonce nor attempt (`Untouched`), that a row about to get a nonce has none yet
(`RowsInWork`), and that the nonces given out are the numbers below the cursor,
each at one row (`AllAccounted`, `NoncesApart`). No order among the rows is needed for it. `GapsAreFailures` needs that statements do not fail: a
`failTx` whose UPDATE fails leaves the row PENDING, with a nonce that nothing was
signed for.

The module also proves `Ownership`, `Spec => []AttemptsOwned`: attempts ask
for what their row asks for, each pays more than the one before, and the hash
that a row, or the poller for it, goes by is that of one of its attempts.

`FinalityProofs` proves what CONFIRMED means, crashes and faults included:

| theorem | statement |
|---|---|
| `ConfirmedDeep` | `Spec => ConfirmedDeepEnough` |
| `ConfirmedFinal` | `Spec => [](Shallow \/ fork = 0 => ConfirmedIsFinal)` |
| `AttemptConfirmedOnce` | `Spec => [](Shallow \/ fork = 0 => OneConfirmedAttempt)` |
| `ConfirmedMoved` | `Spec => []ConfirmedTransferred` |

`ConfirmedDeep` and `ConfirmedMoved` have no hypothesis: any lag, any reorgs, any
endpoint. The other two are about a chain as the service takes it to be.
`Shallow` is `HeadLag = 0 /\ ~ StaleFault /\ MaxReorgDepth <= ConfirmationBlocks`:
endpoints follow the chain, and reorgs are no deeper than the confirmations waited
for. `fork = 0` says that there has been no reorg. The poller reads its page,
the head and the receipts at three times and writes at a fourth; the inductive
invariant says what remains true of each until then. Without a hypothesis: the
head and the receipts it has read are not above the chain's head (`ReadBelow`), a row
it goes on with was deep enough or above that head (`DepthsRead`), and each
INCLUDED row goes by a transaction that moved the funds in a block of the chain or
of one that was replaced (`GoodRows`, `Executed`). Under `Shallow`: a row that
passes `DeepEnough` was `Buried` in the head the poller read and still is, and
a buried transaction is one no reorg of this depth reaches.

`GasEngineProofs` proves, for any limits, set or not, any answers of the node and
any fees (`GasAssumption`: they are natural numbers or, for limits, `NULL`):

| theorem | statement |
|---|---|
| `FeesTyped` | `Spec => []TypeOK` |
| `TipsBelowMaxFee` | `Spec => []TipBelowMaxFee` |
| `BumpsCost` | `Spec => []BumpsCostAtMost` |
| `BumpsTaken` | `Spec => BumpReplaces` |
| `EstimatesCapped` | `Spec => []EstimateCapped` |

The inductive invariant is the conjunction of `TypeOK`, `TipBelowMaxFee` and
`BumpsCostAtMost`. The arithmetic is in lemmas on `Percent` (monotone, and within
one of the exact quotient) and on `clamp`; the cost factor is an induction over
the five bump numbers, each a case of its own, in which rounding down only helps.

`RpcPoolProofs` proves, for any number of endpoints and callers, `TypeCorrect`
(`Spec => []TypeOK`) and `HealthyNotMissed` (`Spec => []SteadyNotMissed`). A call's
loop, which reads the flags one by one, has passed or skipped only endpoints
that were unhealthy at some step since it began; these are not in `steady`,
which the health check, the recovery goroutines and other calls can only
shrink until the loop begins anew. `BlockNumber`'s second try is such a beginning.

`TransferApiProofs` proves, for any set of requests and any number of concurrent
calls, any chains and tokens, any crashes and database errors:

| theorem | statement |
|---|---|
| `StoredWithinPolicy` | `Spec => []RowsWithinPolicy` |
| `WakeupNotLost` | `Spec => []NoLostWakeup` |
| `KeyStoreImplemented` | `Spec => ImplementsKeyStore` |

The invariant `Inv` has five parts: `CallTypeOK`; `RowsSound`, each row comes from a
request that passed every check; `KeysUnique`; `IdsDistinct`, handlers that
hold an unsaved row hold different ids; and `CallSound`, what is known at each
point of `Create`. The look-up and the INSERT are two steps, so `CallSound`
must not say that the key is still free between them: it says that a call
refused by UNIQUE finds a row of its key, which is enough for the
refinement, where the answer 500 is allowed for a taken key. The assumptions
are that calls are finitely many, a request is not `NULL` and its amount a text,
decimals are natural numbers (`uint8`), limits integers or unset
(`ChainsAssumption`), and `NULL` is none of the values it is compared with
(`NullAssumption`).

`AmountsProofs` proves `ParseTotal`: for every text and every number of decimals
`ParseAmountToSmallestUnit` returns an integer or an error, no cut goes beyond
the text, and `strings.Repeat` is never called with a negative count (which
would panic). `AmountTextsProofs` proves, for texts of any length over any
characters and any number of decimals:

| theorem | statement |
|---|---|
| `DecimalsExact` | `Spec => []DecimalExact` |
| `AcceptedDecimal` | `Spec => []AcceptedIsDecimal` |

These are inductions over data. The library's induction theorems have an operator as
parameter and cannot be used here; `UpTo` is induction with a set in the place
of the hypothesis. It comes from the least number (`LeastNumber`) for which a claim
fails, whose existence comes from the well-foundedness of inclusion among finite
sets. The recursions of the model are functions, and `RecursionExists` says that
there is such a function, so that its equation may be used.

`ParseAmountToSmallestUnit` pads, joins, trims and hands the digits to `SetString`; the
reference adds up digits times powers of ten, from the left, in the text as it is.
`CombinedMeans` says where each character of the text ends up (`At`). The
induction in `ValueOfDigits` is over the text: once i characters are read, the
reference's sum is what Horner's recursion has, times the power of ten that
the remaining places contribute. Zeros in front add nothing (`HornerTrims`),
zeros behind multiply (`ZerosMultiply`). The other direction, `AcceptedDecimal`, reads
off what `SetString` takes (`SetStringTakes`) what the text must look like
(`AcceptedShape`), and finds the text with its plus taken for a zero to be put
together from the same digits (`SignedText`).

Only model-checked:

- `EveryTransferSettles`, `EveryRowClaimed`, `EndpointsRecover` and
  `EveryCallReturns`: liveness under fairness is beyond the prover;
- that the hypotheses above are needed, which `v_nonce` and runs with other bounds
  show.

## Not modelled

- In `TxSender`, a statement that commits although its caller sees an error: a
  database fault means that nothing was written. `TransferApi` has this for the
  INSERT and the claim: a claim whose answer is lost leaves a PENDING row with
  nobody until the next start, as a crash does.
- In `TxSender`, a crash between an UPDATE and its entry in `tx_state_log`.
- Two senders' transactions in one block; at most one transaction of the
  senders goes into a block.
- Transactions signed with the senders' keys by anything but the service.
- Several chains: they share no row and no goroutine.
- The read endpoints, the health endpoint and the middleware, which change no
  state; the configuration, whose values are the constants; generated mocks and
  API documentation.
- ECDSA, the gas limit, ERC20 call data as bytes, formatting, logging.

## Plan

Done: the modules, their runs, the two abstract specifications; every safety
property of a passing run, the two refinements among them, as a theorem, under
the hypotheses given above. Next:

1. What a crash leaves of `EachNonceOnce`: rows signed since the last start.
2. Runs with two senders, and with `ConfirmationBlocks` 2 and deeper reorgs.

## Running

    tlc -config reorg.cfg    MCTxSender      (faults, direct, settle, v_*)
    tlc -config intake.cfg   MCTransferApi
    tlc -config rpcpool.cfg  RpcPool
    tlc -config fees.cfg     MCGasEngine
    tlc -config amounts.cfg  AmountTexts
    tlapm TxSenderProofs.tla   (and NonceProofs, FinalityProofs, RpcPoolProofs,
                                TransferApiProofs, GasEngineProofs,
                                AmountsProofs, AmountTextsProofs)

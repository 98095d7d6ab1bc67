------------------------------ MODULE EvmChain ------------------------------
(***************************************************************************)
(* The blockchain and its nodes, seen through the calls that               *)
(* internal/infrastructure/ethereum/client.go makes: eth_sendRawTransaction, *)
(* eth_getTransactionReceipt, eth_blockNumber, eth_getTransactionCount.    *)
(* External: modelled from how the sender uses it.                         *)
(*                                                                         *)
(* pool is what some node of the network may still put in a block: a node  *)
(* that takes a replacement forgets the transaction it replaces, another   *)
(* node may not, so accepting one removes nothing.  mined is what the      *)
(* canonical chain holds.  A block is identified by its number and the     *)
(* fork (counted by reorgs) that produced it.  At most one transaction of  *)
(* the senders goes into a block, and only the service uses their keys.    *)
(***************************************************************************)
EXTENDS TxDomain

CONSTANTS
    MaxBlocks,          \* bound: the chain stops at this height
    LastTxBlock,        \* bound: later blocks are empty
    MaxReorgs,          \* bound: number of reorgs
    MaxReorgDepth,      \* a reorg drops at most so many blocks
    HeadLag,            \* an endpoint may be so many blocks behind
    MinedOutcomes       \* outcomes an execution may have

ASSUME ChainAssumption ==
    /\ MaxBlocks \in Nat /\ LastTxBlock \in Nat /\ LastTxBlock <= MaxBlocks
    /\ MaxReorgs \in Nat /\ MaxReorgDepth \in Nat /\ HeadLag \in Nat
    /\ MinedOutcomes \subseteq Outcomes

VARIABLES
    pool,   \* signed transactions that may still be mined
    mined,  \* transactions of the canonical chain, with their block
    orphaned,  \* the same of the blocks that reorgs have replaced
    head,   \* number of the newest block
    fork    \* number of reorgs so far

chainVars == <<pool, mined, orphaned, head, fork>>

MinedTx == [tx : SignedTx, num : Nat, fork : Nat, outcome : Outcomes]

ChainTypeOK ==
    /\ pool \subseteq SignedTx
    /\ mined \subseteq MinedTx
    /\ orphaned \subseteq MinedTx
    /\ head \in Nat
    /\ fork \in Nat

ChainInit == pool = {} /\ mined = {} /\ orphaned = {} /\ head = 0 /\ fork = 0

NonceMined(s, n) == \E m \in mined : m.tx.from = s /\ m.tx.nonce = n

(* Nonces of an account are mined one after the other. *)
NextInOrder(h) ==
    /\ ~ NonceMined(h.from, h.nonce)
    /\ \A n \in 0..(h.nonce - 1) : NonceMined(h.from, n)

(* Only a token call can succeed without the Transfer event. *)
Possible(h, o) == o \in MinedOutcomes /\ (o = "silent" => h.pay \in Erc20)

MineTx(h, o) ==
    /\ head < LastTxBlock
    /\ h \in pool /\ NextInOrder(h) /\ Possible(h, o)
    /\ head'  = head + 1
    /\ mined' = mined \cup {[tx |-> h, num |-> head + 1, fork |-> fork,
                             outcome |-> o]}
    /\ pool'  = pool \ {h}
    /\ UNCHANGED <<orphaned, fork>>

MineEmpty ==
    /\ head < MaxBlocks
    /\ head' = head + 1
    /\ UNCHANGED <<pool, mined, orphaned, fork>>

(* A longer fork replaces the last d blocks.  Of the transactions they     *)
(* held, a prefix in nonce order is in the fork, in the same blocks or one *)
(* later and perhaps with another outcome; of the rest, some return to the *)
(* pools and some are lost.                                                *)
Dropped(d)    == {m \in mined : m.num > head - d}
Moved(m, k, o) == [tx |-> m.tx, num |-> m.num + k, fork |-> fork + 1,
                   outcome |-> o]
PrefixOf(kept, all) ==
    \A m \in kept, l \in all :
        l.tx.from = m.tx.from /\ l.tx.nonce < m.tx.nonce => l \in kept

Reorg(d, kept, back, k, o) ==
    /\ fork < MaxReorgs /\ head < MaxBlocks /\ d <= head
    /\ kept \subseteq Dropped(d) /\ PrefixOf(kept, Dropped(d))
    /\ back \subseteq Dropped(d) \ kept
    /\ \A m \in kept : Possible(m.tx, o) /\ m.num + k <= LastTxBlock
    /\ mined' = (mined \ Dropped(d)) \cup {Moved(m, k, o) : m \in kept}
    /\ orphaned' = orphaned \cup Dropped(d)
    /\ pool'  = pool \cup {m.tx : m \in back}
    /\ head'  = head + 1
    /\ fork'  = fork + 1

ReorgStep ==
    \E d \in 1..MaxReorgDepth, k \in {0, 1}, o \in MinedOutcomes :
        \E kept \in SUBSET Dropped(d) :
            \E back \in SUBSET (Dropped(d) \ kept) : Reorg(d, kept, back, k, o)

Evict(h) ==
    /\ "evict" \in Faults
    /\ h \in pool
    /\ pool' = pool \ {h}
    /\ UNCHANGED <<mined, orphaned, head, fork>>

-----------------------------------------------------------------------------
(* The RPC interface.  A call is answered by one endpoint, and each call    *)
(* perhaps by another: endpoints differ in what they hold in their pools,  *)
(* in how many of the newest blocks they have seen and, under "stale", in  *)
(* whether they have followed the reorgs.                                  *)

NetFault   == "net" \in Faults
StaleFault == "stale" \in Faults

(* Some endpoint has not seen the block of m. *)
MayMiss(m) == m.num + HeadLag > head \/ (StaleFault /\ m.fork > 0)

(* A node refuses what it knows already, a nonce that is used, and a       *)
(* replacement that does not pay more.  When some node knows it or a       *)
(* better one, others may take it all the same.                            *)
Takeable(h) ==
    \A m \in mined : m.tx.from = h.from /\ m.tx.nonce = h.nonce => MayMiss(m)
Refusable(h) ==
    \/ NonceMined(h.from, h.nonce)
    \/ \E q \in pool : q.from = h.from /\ q.nonce = h.nonce /\ q.gas >= h.gas

Accept(h) == pool' = pool \cup {h} /\ UNCHANGED <<mined, orphaned, head, fork>>

(* Client.SendTransaction returns nil.  The entry of an endpoint that is   *)
(* skipped as unhealthy is nil too, which counts as a success.             *)
SendOk(h) ==
    \/ Takeable(h) /\ Accept(h)
    \/ "endpoint" \in Faults /\ UNCHANGED chainVars

SendErr(h) ==
    \/ (NetFault \/ Refusable(h)) /\ UNCHANGED chainVars
    \/ NetFault /\ Takeable(h) /\ Accept(h)

ReceiptOf(m) == [num |-> m.num, fork |-> m.fork, outcome |-> m.outcome]
HasReceipt(h, r) == \E m \in mined : m.tx = h /\ ReceiptOf(m) = r

(* BatchTransactionReceipts for one hash.  An endpoint on a replaced fork  *)
(* has the receipt of that fork, one that is behind may have none, and the *)
(* error of an element makes it look as if there were none.                *)
ReceiptAnswer(h, r) ==
    \/ HasReceipt(h, r)
    \/ StaleFault /\ \E m \in orphaned : m.tx = h /\ ReceiptOf(m) = r
    \/ r = NULL /\ (NetFault \/ \A m \in mined : m.tx = h => MayMiss(m))

BlockNumberAnswer(n) == n \in 0..head /\ head - n <= HeadLag

(* PendingNonceAt: the first nonce that the endpoint has neither mined nor *)
(* pooled.  It need not have seen what others pool, and has the newest     *)
(* blocks (or those of a replaced fork) or not.                            *)
UsedNonces(s) ==
    {m.tx.nonce : m \in {x \in mined : x.tx.from = s}}
      \cup {h.nonce : h \in {x \in pool : x.from = s}}
      \cup {m.tx.nonce : m \in {x \in orphaned : StaleFault /\ x.tx.from = s}}
PendingNonceAnswer(s) ==
    {n \in {0} \cup {k + 1 : k \in UsedNonces(s)} :
        /\ 0..(n - 1) \subseteq UsedNonces(s)
        /\ \A m \in mined : m.tx.from = s /\ m.tx.nonce >= n => MayMiss(m)}
=============================================================================

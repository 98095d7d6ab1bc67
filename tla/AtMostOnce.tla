----------------------------- MODULE AtMostOnce -----------------------------
(***************************************************************************)
(* What the service promises its clients of an accepted transfer           *)
(* (REQUIREMENTS.md:16, "no double-sends"): it is tied to one nonce of its *)
(* sender before anything is signed for it, for good, and whatever comes   *)
(* of it on the chain is a single transaction with that nonce.  Blocks may *)
(* come and go, so a transfer may land, vanish and land again.             *)
(***************************************************************************)
CONSTANTS
    TxIds,   \* accepted transfers
    Nonces,
    NULL

VARIABLES
    accepted,  \* transfers that were accepted
    seal,      \* per transfer: the nonce it is tied to
    landed     \* per transfer: what the chain holds of it

vars == <<accepted, seal, landed>>

(* One transaction at most, with the nonce of the transfer. *)
Single(t) ==
    /\ \A l, m \in landed[t] : l = m
    /\ \A m \in landed[t] : m.tx.nonce = seal[t]

Init ==
    /\ accepted = {}
    /\ seal   = [t \in TxIds |-> NULL]
    /\ landed = [t \in TxIds |-> {}]

Accept(t) ==
    /\ t \notin accepted
    /\ accepted' = accepted \cup {t}
    /\ UNCHANGED <<seal, landed>>

(* The transaction of another transfer may be the very same and be on the  *)
(* chain already.                                                          *)
Seal(t) ==
    /\ t \in accepted /\ seal[t] = NULL
    /\ seal'[t] \in Nonces /\ seal' = [seal EXCEPT ![t] = seal'[t]]
    /\ \A u \in TxIds : Single(u)'
    /\ UNCHANGED accepted

(* Blocks are mined, or replaced. *)
Land ==
    /\ \A t \in TxIds : Single(t)'
    /\ UNCHANGED <<accepted, seal>>

Next ==
    \/ \E t \in TxIds : Accept(t) \/ Seal(t)
    \/ Land

Spec == Init /\ [][Next]_vars
=============================================================================

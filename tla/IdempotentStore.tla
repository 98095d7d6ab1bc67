-------------------------- MODULE IdempotentStore ---------------------------
(***************************************************************************)
(* What POST /v1/transfers promises its clients (REQUIREMENTS.md:47): an   *)
(* idempotency key stands for at most one transfer, and whoever is told    *)
(* that a transfer was accepted is told of that one.  A store of keys      *)
(* that binds a key and answers a call in one step each.                   *)
(***************************************************************************)
CONSTANTS
    Calls,   \* HTTP requests
    Keys,    \* idempotency keys
    Params,  \* what transfers ask for
    Ids,     \* identifiers of transfers
    Faulty,  \* whether the database may fail
    NULL

VARIABLES
    asked,   \* per call: its key, its parameters, and whether they are fit
    store,   \* per key: the transfer it stands for
    answer   \* per call: what its client was told

vars == <<asked, store, answer>>

Question == [key : Keys, params : Params, fit : BOOLEAN]
Said(code, id) == [code |-> code, id |-> id]

Init ==
    /\ asked  = [c \in Calls |-> NULL]
    /\ store  = [k \in Keys |-> NULL]
    /\ answer = [c \in Calls |-> NULL]

Open(c) == asked[c] # NULL /\ answer[c] = NULL
TransferOf(c) == store[asked[c].key]

Ask(c) ==
    /\ asked[c] = NULL /\ asked'[c] \in Question
    /\ asked' = [asked EXCEPT ![c] = asked'[c]]
    /\ UNCHANGED <<store, answer>>

(* A free key comes to stand for the transfer that a fit call asks for. *)
Bind(c, id) ==
    /\ Open(c) /\ asked[c].fit /\ TransferOf(c) = NULL
    /\ \A k \in Keys : store[k] # NULL => store[k].id # id
    /\ store' = [store EXCEPT ![asked[c].key] =
                   [id |-> id, params |-> asked[c].params]]
    /\ UNCHANGED <<asked, answer>>

(* 202 names the transfer of the key, which has the call's parameters; 409 *)
(* says that it has others, 4xx that the call is not fit; 500 that the     *)
(* database failed, or that another call has taken the key.                *)
May(c, code, id) ==
    \/ code = 202 /\ TransferOf(c) = [id |-> id, params |-> asked[c].params]
    \/ code = 409 /\ TransferOf(c) # NULL /\ TransferOf(c).params # asked[c].params
    \/ code \in {400, 403, 404, 422} /\ ~ asked[c].fit
    \/ code = 500 /\ (Faulty \/ TransferOf(c) # NULL)

Reply(c, code, id) ==
    /\ Open(c) /\ May(c, code, id)
    /\ answer' = [answer EXCEPT ![c] = Said(code, id)]
    /\ UNCHANGED <<asked, store>>

(* The service goes down: the clients of open calls hear nothing. *)
Lose ==
    /\ answer' = [c \in Calls |-> IF Open(c) THEN Said(0, NULL) ELSE answer[c]]
    /\ UNCHANGED <<asked, store>>

Next ==
    \/ \E c \in Calls : Ask(c)
    \/ \E c \in Calls, id \in Ids : Bind(c, id) \/ Reply(c, 202, id)
    \/ \E c \in Calls, code \in {400, 403, 404, 409, 422, 500} : Reply(c, code, NULL)
    \/ Lose

Spec == Init /\ [][Next]_vars
=============================================================================

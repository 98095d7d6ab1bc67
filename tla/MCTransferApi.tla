---------------------------- MODULE MCTransferApi ---------------------------
(* A chain with a native token of one decimal, a listed and a disabled     *)
(* token, and requests that meet the checks of TransferApi one by one.     *)
EXTENDS TransferApi

MCChains ==
    [id \in {1} |->
        [native |-> [symbol |-> "ETH", decimals |-> 1, max |-> 25],
         tokens |-> [USDC |-> [contract |-> "usdc", decimals |-> 0,
                               enabled |-> TRUE, max |-> 3],
                     OLD  |-> [contract |-> "old", decimals |-> 0,
                               enabled |-> FALSE, max |-> NULL]]]]

At(a) == [addr |-> a, form |-> "0x"]

(* 2.5 ETH from a to b, just within the limit. *)
Eth == [key |-> "k1", chain |-> 1, sender |-> At("a"), recipient |-> At("b"),
        token |-> "ETH", amount |-> <<"2", ".", "5">>, priority |-> ""]

(* The same transfer in another notation and with a priority; the same key *)
(* for another amount; another key.                                        *)
Again  == [Eth EXCEPT !.recipient.form = "bare", !.priority = "high"]
Usdc   == [Eth EXCEPT !.key = "k2", !.token = "USDC", !.amount = <<"3">>]
Other  == [Eth EXCEPT !.amount = <<"2", ".", "4">>]
(* The same key and another recipient: the sender itself, in a notation    *)
(* that validate does not see through.                                     *)
ToSelf == [Eth EXCEPT !.recipient = [addr |-> "a", form |-> "bare"]]

(* Requests that are refused, some by validate and some by resolveTransfer. *)
Refused ==
    {[Eth  EXCEPT !.key = ""], [Eth EXCEPT !.key = "long"],
     [Eth  EXCEPT !.chain = 0], [Eth EXCEPT !.chain = 9],
     [Eth  EXCEPT !.sender = At("")], [Eth EXCEPT !.sender = At("junk")],
     [Eth  EXCEPT !.sender = At("b")], [Eth EXCEPT !.recipient = At("")],
     [Eth  EXCEPT !.recipient = At("junk")], [Eth EXCEPT !.recipient = At("zero")],
     [Eth  EXCEPT !.recipient = At("a")], [Eth EXCEPT !.token = ""],
     [Eth  EXCEPT !.amount = <<>>], [Eth EXCEPT !.priority = "asap"],
     [Eth  EXCEPT !.token = "NONE"], [Usdc EXCEPT !.token = "OLD"],
     [Usdc EXCEPT !.amount = <<"2", ".", "5">>], [Usdc EXCEPT !.amount = <<"0">>],
     [Eth  EXCEPT !.amount = <<"9", "9", "9">>], [Usdc EXCEPT !.amount = <<"4">>],
     [Eth  EXCEPT !.amount = <<"2", ".", "6">>],
     [Usdc EXCEPT !.recipient = At("usdc")]}

MCRequests == {Eth, Again, Other, Usdc, ToSelf} \cup Refused
=============================================================================

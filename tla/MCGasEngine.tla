----------------------------- MODULE MCGasEngine ----------------------------
(* Every combination of a few limits, set or not. *)
EXTENDS GasEngine

MCLimits == [minPriority : {NULL, 9}, maxPriority : {NULL, 12},
             minMaxFee : {NULL, 8}, maxMaxFee : {NULL, 12, 40},
             eip1559 : BOOLEAN]
=============================================================================

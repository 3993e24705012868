---------------------------- MODULE MCCollectors ----------------------------
(* Bounds for Collectors.                                                   *)
EXTENDS Collectors

CONSTANTS ma, mb, eth, bsc
=============================================================================

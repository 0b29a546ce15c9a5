------------------------ MODULE MCProcessLifecycle ------------------------
(* Bounds for TLC: one client that may enable, one that only interrupts.   *)
EXTENDS ProcessLifecycle, TLC

CONSTANTS owner, other

BothClients == {owner, other}
Owner == {owner}
=============================================================================

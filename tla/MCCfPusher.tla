---------------------------- MODULE MCCfPusher ----------------------------
(* The registry and two tick apps, one of them with two instances. *)
EXTENDS CfPusher, TLC
CONSTANTS registry, tick0, tick1

MCGroups == <<<<registry>>, <<tick0, tick1>>, <<>>>>
MCDesired == (registry :> 1) @@ (tick0 :> 2) @@ (tick1 :> 1)
=============================================================================

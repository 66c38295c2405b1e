-------------------------- MODULE MCGardenNetworker --------------------------
(* GardenNetworker on a small instance: a range of two ports.              *)
EXTENDS GardenNetworker
CONSTANTS c1, c2, p1, p2

\* Up asks for one port, for two, or names one inside and one outside the range.
MCNetIns == {<<0>>, <<0, 0>>, <<5, 9>>}
=============================================================================

--------------------------- MODULE MCPolicyServer ---------------------------
(* PolicyServer on a small instance: apps a and b in the developer's space *)
(* s1, app c in another one.                                               *)
EXTENDS PolicyServer, TLC
CONSTANTS a, b, c, s1, s2

MCSpaceOf == (a :> s1) @@ (b :> s1) @@ (c :> s2)
MCBodies ==
  {{[src |-> a, dst |-> b]}, {[src |-> a, dst |-> c]},
   {[src |-> a, dst |-> a], [src |-> a, dst |-> b]}}
=============================================================================

----------------------------- MODULE MCPolicyAPI -----------------------------
(* PolicyServer as in MCPolicyServer, and PolicyAPI with the same two apps, *)
(* two ports, one range, and chunks of two.  The two modules share no       *)
(* variable, so it is enough that one of them takes its steps while the     *)
(* other is still as it began.                                              *)
EXTENDS MCPolicyServer, PolicyAPI
CONSTANTS admin, developer

MCScopes == (admin :> {NetworkAdmin}) @@ (developer :> {})

P(port) == V0(a, b, "tcp", port)
R(first, last) == V1(a, b, "tcp", first, last)

MCLists ==
  ("v0" :> {<<P(1), P(65536), V0(b, a, "udp", 1)>>, <<>>, <<P(0)>>}) @@
  ("v1" :> {<<R(1, 1), R(1, 65535)>>, <<R(1, 65536)>>, <<[R(1, 2) EXCEPT !.tagged = TRUE]>>})

Q(ids, srcs, dsts) == [ids |-> ids, srcs |-> srcs, dsts |-> dsts]
MCQueries == {Q({a}, {}, {}), Q({}, {a}, {}), Q({}, {a}, {b}), Q({}, {}, {})}

MCInit == Init /\ APIInit
MCNext ==
  \/ APIInit /\ Next /\ UNCHANGED pavars
  \/ Init /\ APINext /\ UNCHANGED psvars

MCSpec ==
  /\ MCInit /\ [][MCNext]_<<psvars, pavars>>
  /\ \A cl \in Cleaners : WF_psvars(APIInit /\ CleanStep(cl))
=============================================================================

------------------------- MODULE MCNetworkerDaemon -------------------------
(* Two containers, the second without properties, and two connections.  Two *)
(* agents of the cell add a rule to a chain of the host and delete it.      *)
EXTENDS NetworkerDaemon, TLC
CONSTANTS h1, h2, host, meta, r1, agent1, agent2

MCProperties == (h1 :> meta) @@ (h2 :> NONE)
MCAgentCalls ==
  (agent1 :> {Request("BulkInsert", host, <<r1>>, 1)})
    @@ (agent2 :> {Request("Delete", host, <<r1>>, 0)})
=============================================================================

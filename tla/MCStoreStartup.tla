-------------------------- MODULE MCStoreStartup --------------------------
(* Two policy servers and an internal one on a fresh database.  Of their    *)
(* members (metrics emitter, http server, then poller and debug server, or  *)
(* debug server and health check server), these use the store here: the     *)
(* http server and the poller, the poller alone, the two http servers.      *)
EXTENDS StoreStartup, TLC
CONSTANTS server1, server2, internal1

MCPools == (server1 :> 2) @@ (server2 :> 2) @@ (internal1 :> 1)
MCMembers == (server1 :> 4) @@ (server2 :> 4) @@ (internal1 :> 4)
MCStoreUsers == (server1 :> {2, 3}) @@ (server2 :> {3}) @@ (internal1 :> {2, 4})
=============================================================================

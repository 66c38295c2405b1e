------------------------- MODULE MCServiceDiscovery -------------------------
(* ServiceDiscovery with one instance of one app.                          *)
EXTENDS ServiceDiscovery, TLC
CONSTANTS app, i1, noIP

MCFqdn == app :> app
MCEndpoints == {[names |-> {app}, ip |-> ip] : ip \in IPs}
MCMalformed == {[names |-> {app}, ip |-> noIP]}
=============================================================================

--------------------------- MODULE MCAddressTable ---------------------------
(* AddressTable with two hostnames, one of them in two spellings. *)
EXTENDS AddressTable, TLC
CONSTANTS app, appDot, dbDot, i1, i2

MCFqdn == (app :> appDot) @@ (appDot :> appDot) @@ (dbDot :> dbDot)
=============================================================================

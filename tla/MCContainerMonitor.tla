------------------------- MODULE MCContainerMonitor -------------------------
(* A docker monitor of two containers and a health check that may restart  *)
(* one of them and one the whitelist does not allow.                       *)
EXTENDS ContainerMonitor, TLC

CONSTANTS web, api, db, app, probe, idle

MCList == app :> <<web, api>> @@ probe :> <<db, api>> @@ idle :> <<db>>
MCThreshold == app :> 2
=============================================================================

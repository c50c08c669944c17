------------------------------ MODULE MCWsClient ------------------------------
(* Values of WsClient's constants for TLC.                                 *)
EXTENDS WsClient

\* The method whose dispatch runs both a session handler and a registered one.
MCMethods == {"notify_klippy_disconnected"}
MCRank(name) == 0
MCNames == {"belts"}
MCRegistrations == {<<"notify_klippy_disconnected", "belts">>}
MCCallbacks == {"metadata"}
MCConsumers == {"main_panel"}
=============================================================================

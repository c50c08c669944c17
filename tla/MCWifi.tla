------------------------------- MODULE MCWifi ---------------------------------
(* Wifi with two networks: the name of one has characters that are escaped. *)
EXTENDS Wifi

MCNetworks == {"home", "cafe"}
MCStored == [n \in MCNetworks |-> IF n = "cafe" THEN "cafe, escaped again" ELSE n]
===============================================================================

------------------------------ MODULE MCSession ------------------------------
(* Values of Session's constants for TLC: the second boot has lost one object *)
(* of the first and gained another.                                           *)
EXTENDS Session

MCObjects == {"extruder", "heater_bed", "chamber"}
MCConfig == <<{"extruder", "heater_bed"}, {"extruder", "chamber"}>>
MCMonitored == {"heater_bed"}
=============================================================================

-------------------------------- MODULE MCHouse --------------------------------
(* An instance of House: one appliance that says something of occupancy.   *)
EXTENDS House, TLC

Class == "kettle" :> "cycle_power_device"
=============================================================================

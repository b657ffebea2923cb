-------------------------- MODULE MCEndpointSlots ---------------------------
(* Instances of EndpointSlots for TLC; the .cfg files give the constants.   *)
EXTENDS EndpointSlots
=============================================================================

-------------------------- MODULE MCWirelessDevice --------------------------
(***************************************************************************)
(* Instances of WirelessDevice for TLC; the configurations give every      *)
(* constant a set of model values or a number.                             *)
(***************************************************************************)
EXTENDS WirelessDevice
=============================================================================

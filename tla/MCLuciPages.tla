----------------------------- MODULE MCLuciPages -----------------------------
(* Instances of LuciPages for TLC. *)
EXTENDS LuciPages
=============================================================================

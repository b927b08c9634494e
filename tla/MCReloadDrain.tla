---------------------------- MODULE MCReloadDrain ----------------------------
(* TLC instance of ReloadDrain: two parsers, one sink group, the infra task. *)
EXTENDS ReloadDrain
=============================================================================

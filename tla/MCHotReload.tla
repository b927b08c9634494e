----------------------------- MODULE MCHotReload -----------------------------
(* TLC instances of HotReload.  MCRoute sends the first event to the sink
   group and the others to infra; MCNoRoute is a pipeline without outputs,
   the only one whose drain can complete. *)
EXTENDS ReloadHandshake

MCRoute == [n \in 1 .. NEvents |-> IF n = 1 THEN <<"Sink", 1>> ELSE <<"Infra", 1>>]
MCNoRoute == [n \in 1 .. NEvents |-> <<>>]
=============================================================================

---------------------------- MODULE MCRescueCycle ----------------------------
(* TLC instance: two sinks of one name and three records, the first two of one
   rule.  In the sink group both sinks fail over to rescue files, one record is
   wanted by both; in the infra task, where the sinks are replicas, the second
   one drops on errors instead. *)
EXTENDS RescueCycle
MCLossy == [group |-> {}, infra |-> {2}]
MCWants == <<{1, 3}, {1, 2}>>
MCNames == <<"a", "a">>
MCMeta == <<"m", "m", "n">>
=============================================================================

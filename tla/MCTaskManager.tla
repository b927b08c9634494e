---------------------------- MODULE MCTaskManager ----------------------------
(* TLC instances of TaskManager.  CmdCap is 1000 in the code; six is more than
   one reload and a stop put into a channel, two is one reload's worth.  The
   monitor's own work is checked beside it, over short sequences of what the
   tasks and the monitor do to the statistics: two collectors of one target and
   one of another, three keys where a report keeps two, a channel of one. *)
EXTENDS TaskManager, Statistics
MCTargetOf == [c \in {1, 2, 3} |-> IF c = 3 THEN "other" ELSE "rule"]
MCOps ==
  {[do |-> "record", by |-> r[1], key |-> r[2], n |-> r[3], s |-> r[4]] :
     r \in {<<1, "a", 1, 0>>, <<1, "a", 0, 1>>, <<1, "b", 2, 2>>, <<1, "c", 1, 1>>,
            <<2, "a", 1, 1>>, <<3, "a", 1, 1>>}}
  \cup {[do |-> "drop", by |-> "sink"], [do |-> "recv"], [do |-> "export"]}
  \cup {[do |-> "send", by |-> c] : c \in {1, 2, 3}}

\* The totals that the monitor shows once it has ended are right: see
\* StatTotals.  It covers what the monitor does at stat_proc's end, too.
MonitorTotals == task["Monitor"] = "done" => StatTotals
=============================================================================

----------------------------- MODULE TaskManager -----------------------------
(***************************************************************************)
(* The engine's main loop over the TaskManager: the role groups in their   *)
(* registration order, the exit policies, the stop of all groups, and the  *)
(* command channel of each group.  A group has one task here.  The data    *)
(* path is the number of events in each channel.  A reload's middle part,  *)
(* from begin_reload to install, is one step: HotReload opens it up.       *)
(***************************************************************************)
EXTENDS Integers, Sequences, Functions

CONSTANTS
  Modes,      \* the RunModes to start in: "Batch", "Daemon"
  NEvents,    \* events the source yields
  ChanCap,    \* capacity of the parse and sink channels
  CmdCap,     \* capacity of a group's command channel; broadcast(1000)
  MaxReloads  \* bound: reload requests

ASSUME TaskManagerAssumption ==
  /\ Modes \subseteq {"Batch", "Daemon"} /\ NEvents \in Nat
  /\ ChanCap \in Nat \ {0} /\ CmdCap \in Nat \ {0} /\ MaxReloads \in Nat

VARIABLES
  mode,
  groups,   \* role_groups, in order
  task,     \* per role: "run", "draining" or "done"
  cmdq,     \* per role: commands its task has not read yet
  held,     \* per role: messages in the command channel; TaskGroup keeps a
            \* cmd_sub that nobody reads, so none is ever taken out
  picking,  \* the picker's work_cmd is Execute
  eng,      \* pc, exit phase, groups still to handle, join, reload
  signal,   \* a stop signal: "none", "raised", "seen"
  routed,   \* the parse router has senders
  src, parseq, outq, lost,  \* events: left, in channels, dropped
  reloads

flow == <<src, parseq, outq, lost>>
vars == <<mode, groups, task, cmdq, held, picking, eng, signal, routed, flow, reloads>>

Roles == {"Acceptor", "Monitor", "Infra", "Sink", "Maintainer", "Parser", "Picker"}
Outputs == {"Sink", "Infra"}
Processing == <<"Infra", "Sink", "Maintainer", "Parser">>
Registered(role) == role \in Range(groups)

\* The elements of a sequence that are in S, in order: role_groups is drained
\* and the groups to keep are pushed back one by one.
Retained(seq, S) ==
  LET kept[i \in 0 .. Len(seq)] ==
        IF i = 0 THEN <<>>
        ELSE IF seq[i] \in S THEN Append(kept[i - 1], seq[i]) ELSE kept[i - 1]
  IN  kept[Len(seq)]

\* start_warp_service registers the groups in this order.
Init ==
  /\ mode \in Modes
  /\ groups = (IF mode = "Daemon" THEN <<"Acceptor">> ELSE <<>>)
                \o (<<"Monitor">> \o Processing \o <<"Picker">>)
  /\ task = [role \in Roles |-> IF Registered(role) THEN "run" ELSE "done"]
  /\ cmdq = [role \in Roles |-> <<>>] /\ held = [role \in Roles |-> 0]
  /\ picking = TRUE
  /\ eng = [pc |-> "loop", phase |-> "Running", todo |-> <<>>, joining |-> FALSE, abort |-> FALSE,
            cmd |-> "Execute"]
  /\ signal = "none" /\ routed = TRUE
  /\ src = NEvents /\ parseq = 0 /\ outq = [role \in Outputs |-> 0] /\ lost = 0
  /\ reloads = 0

-----------------------------------------------------------------------------
(* The tasks *)

engine == <<mode, groups, held, eng, signal, routed, reloads>>

\* Mutant: a full parse channel does not hold the picker back.
PickerPosts_NoCap ==
  /\ task["Picker"] = "run" /\ picking /\ routed
  /\ src > 0 /\ task["Parser"] = "run"
  /\ src' = src - 1 /\ parseq' = parseq + 1
  /\ UNCHANGED <<engine, task, cmdq, picking, outq, lost>>

\* The picker takes the next event and posts it; Isolate suspends this.
PickerPosts ==
  /\ task["Picker"] = "run" /\ picking /\ routed
  /\ src > 0 /\ task["Parser"] = "run" /\ parseq < ChanCap
  /\ src' = src - 1 /\ parseq' = parseq + 1
  /\ UNCHANGED <<engine, task, cmdq, picking, outq, lost>>

\* The source is at its end, or a post found every parser gone.
PickerEnds ==
  /\ task["Picker"] = "run"
  /\ (src = 0 /\ picking) \/ (routed /\ task["Parser"] = "done")
  /\ task' = [task EXCEPT !["Picker"] = "done"]
  /\ UNCHANGED <<engine, cmdq, picking, flow>>

\* poll_cmd_now.
PickerCmd ==
  /\ task["Picker"] = "run" /\ cmdq["Picker"] # <<>>
  /\ cmdq' = [cmdq EXCEPT !["Picker"] = Tail(@)]
  /\ picking' = (Head(cmdq["Picker"]) = "Execute")
  /\ task' = [task EXCEPT !["Picker"] = IF Head(cmdq["Picker"]) = "Stop" THEN "done" ELSE @]
  /\ UNCHANGED <<engine, flow>>

\* One event is parsed and sent on: to its sink group, where a closed channel
\* drops it, or to infra, where a closed channel fails the parser.
ParserWorks ==
  /\ task["Parser"] = "run" /\ parseq > 0
  /\ \E out \in Outputs :
       LET open == task[out] = "run"
           fails == ~open /\ out = "Infra"
       IN  /\ open => outq[out] < ChanCap
           /\ outq' = IF open THEN [outq EXCEPT ![out] = @ + 1] ELSE outq
           /\ parseq' = IF fails THEN 0 ELSE parseq - 1
           /\ lost' = lost + (IF open THEN 0 ELSE parseq - parseq')
           /\ task' = IF fails THEN [task EXCEPT !["Parser"] = "done"] ELSE task
  /\ UNCHANGED <<engine, cmdq, picking, src>>

\* The router let go of the senders and the channel is empty.
ParserEof ==
  /\ task["Parser"] = "run" /\ parseq = 0 /\ ~routed
  /\ task' = [task EXCEPT !["Parser"] = "done"]
  /\ UNCHANGED <<engine, cmdq, picking, flow>>

\* Sinks and infra consume, also while draining.
OutWorks(role) ==
  /\ task[role] # "done" /\ outq[role] > 0
  /\ outq' = [outq EXCEPT ![role] = @ - 1]
  /\ UNCHANGED <<engine, task, cmdq, picking, src, parseq, lost>>

\* A drained output task ends.
OutEnds(role) ==
  /\ task[role] = "draining" /\ outq[role] = 0
  /\ task' = [task EXCEPT ![role] = "done"]
  /\ UNCHANGED <<engine, cmdq, picking, flow>>

\* Every other task reads a command: Stop closes an output's channel and
\* ends the others, a parser with whatever is queued; Isolate and Execute
\* mean nothing to them.
TaskCmd(role) ==
  /\ role # "Picker" /\ task[role] = "run" /\ cmdq[role] # <<>>
  /\ cmdq' = [cmdq EXCEPT ![role] = Tail(@)]
  /\ LET stop == Head(cmdq[role]) = "Stop"
     IN  /\ task' = [task EXCEPT ![role] =
                       CASE ~stop -> @
                         [] stop /\ role \in Outputs -> "draining"
                         [] stop /\ role \notin Outputs -> "done"]
         /\ parseq' = IF stop /\ role = "Parser" THEN 0 ELSE parseq
         /\ lost' = IF stop /\ role = "Parser" THEN lost + parseq ELSE lost
  /\ UNCHANGED <<engine, picking, src, outq>>

-----------------------------------------------------------------------------
(* The engine loop *)

tasks == <<task, picking, flow>>

\* broadcast(cmd).await on the channel of a group: waits while it is full.
Send(role, cmd) ==
  /\ held[role] < CmdCap
  /\ held' = [held EXCEPT ![role] = @ + 1]
  /\ cmdq' = [cmdq EXCEPT ![role] = IF task[role] = "done" THEN @ ELSE Append(@, cmd)]

Raise ==
  /\ signal = "none" /\ eng.pc # "exited"
  /\ signal' = "raised"
  /\ UNCHANGED <<mode, groups, cmdq, held, eng, routed, reloads, tasks>>

\* build_runtime_snapshot.
role_finished(role) == Registered(role) /\ task[role] = "done"
role_finished_or_absent(role) == Registered(role) => task[role] = "done"

\* Mutant: the batch policy stops as soon as the pickers are done.
decide_NoQuiescing(stop, timeout) ==
  IF stop \/ role_finished("Picker") THEN "EnterStopping" ELSE "Stay"

\* BatchExitPolicy and DaemonExitPolicy; timeout: the quiescing wait is over.
decide(stop, timeout) ==
  CASE stop -> "EnterStopping"
    [] ~stop /\ eng.phase = "Running" ->
         IF ~role_finished("Picker") THEN "Stay"
         ELSE IF mode = "Daemon" /\ role_finished_or_absent("Acceptor") THEN "EnterStopping"
         ELSE "EnterQuiescing"
    [] ~stop /\ eng.phase = "Quiescing" ->
         IF mode = "Batch" THEN IF role_finished("Parser") THEN "EnterStopping" ELSE "Stay"
         ELSE IF role_finished_or_absent("Acceptor") \/ timeout THEN "EnterStopping" ELSE "Stay"

Seen == signal' = IF signal = "raised" THEN "seen" ELSE signal

\* Mutant: batch mode quiesces without letting go of the parse senders.
Quiesce_StaysRouted ==
  /\ eng.pc = "loop" /\ decide(signal = "raised", FALSE) = "EnterQuiescing"
  /\ IF mode = "Daemon" /\ task["Acceptor"] # "done"
       THEN Send("Acceptor", "Stop") ELSE UNCHANGED <<cmdq, held>>
  /\ eng' = [eng EXCEPT !.phase = "Quiescing"]
  /\ Seen
  /\ UNCHANGED <<mode, groups, routed, reloads, tasks>>

\* The poll enters quiescing: batch mode disconnects the router, daemon mode
\* asks the acceptors to stop.
Quiesce ==
  /\ eng.pc = "loop" /\ decide(signal = "raised", FALSE) = "EnterQuiescing"
  /\ IF mode = "Daemon" /\ task["Acceptor"] # "done"
       THEN Send("Acceptor", "Stop") ELSE UNCHANGED <<cmdq, held>>
  /\ routed' = (routed /\ mode = "Daemon")
  /\ eng' = [eng EXCEPT !.phase = "Quiescing"]
  /\ Seen
  /\ UNCHANGED <<mode, groups, reloads, tasks>>

\* role_groups.reverse().
Reversed == [i \in 1 .. Len(groups) |-> groups[Len(groups) + 1 - i]]

\* The poll enters stopping, on a signal or on finished roles:
\* stop_role_groups, in reverse order.
EnterStopping ==
  /\ eng.pc = "loop" /\ decide(signal = "raised", FALSE) = "EnterStopping"
  /\ groups' = Reversed
  /\ eng' = [eng EXCEPT !.pc = "alone", !.todo = Reversed]
  /\ Seen
  /\ UNCHANGED <<mode, cmdq, held, routed, reloads, tasks>>

\* The same on QuiescingTimeout: an acceptor that does not stop is aborted.
QuiescingTimeout ==
  /\ eng.pc = "loop" /\ eng.phase = "Quiescing" /\ signal # "raised"
  /\ decide(FALSE, FALSE) = "Stay" /\ decide(FALSE, TRUE) = "EnterStopping"
  /\ groups' = Reversed
  /\ eng' = [eng EXCEPT !.pc = "alone", !.todo = Reversed, !.abort = TRUE]
  /\ UNCHANGED <<mode, cmdq, held, signal, routed, reloads, tasks>>

\* cmd_alone to each group in turn.
Alone ==
  /\ eng.pc = "alone" /\ eng.todo # <<>>
  /\ Send(Head(eng.todo), "Isolate")
  /\ eng' = [eng EXCEPT !.todo = Tail(@)]
  /\ UNCHANGED <<mode, groups, signal, routed, reloads, tasks>>

AllAlone ==
  /\ eng.pc = "alone" /\ eng.todo = <<>>
  /\ eng' = [eng EXCEPT !.pc = "down", !.todo = groups]
  /\ UNCHANGED <<mode, groups, cmdq, held, signal, routed, reloads, tasks>>

\* Mutant: the group is joined without being told to stop.
SendStop_NoBroadcast ==
  /\ eng.pc = "down" /\ eng.todo # <<>> /\ ~eng.joining
  /\ eng' = [eng EXCEPT !.joining = TRUE]
  /\ UNCHANGED <<mode, groups, cmdq, held, signal, routed, reloads, tasks>>

\* wait_grace_down of the next group: Stop, then the join.
SendStop ==
  /\ eng.pc = "down" /\ eng.todo # <<>> /\ ~eng.joining
  /\ Send(Head(eng.todo), "Stop")
  /\ eng' = [eng EXCEPT !.joining = TRUE]
  /\ UNCHANGED <<mode, groups, signal, routed, reloads, tasks>>

Join ==
  /\ eng.pc = "down" /\ eng.joining /\ task[Head(eng.todo)] = "done"
  /\ eng' = [eng EXCEPT !.joining = FALSE, !.todo = Tail(@)]
  /\ UNCHANGED <<mode, groups, cmdq, held, signal, routed, reloads, tasks>>

\* wait_grace_down_with_timeout: the acceptor is aborted.
JoinAborts ==
  /\ eng.pc = "down" /\ eng.joining /\ eng.abort
  /\ Head(eng.todo) = "Acceptor" /\ task["Acceptor"] # "done"
  /\ task' = [task EXCEPT !["Acceptor"] = "done"]
  /\ eng' = [eng EXCEPT !.joining = FALSE, !.todo = Tail(@)]
  /\ UNCHANGED <<mode, groups, cmdq, held, signal, routed, reloads, picking, flow>>

AllDown ==
  /\ eng.pc = "down" /\ eng.todo = <<>>
  /\ groups' = <<>>
  /\ eng' = [eng EXCEPT !.pc = "exited"]
  /\ UNCHANGED <<mode, cmdq, held, signal, routed, reloads, tasks>>

-----------------------------------------------------------------------------
(* A reload, on the same task as the polls *)

\* prune_finished_groups.
Unfinished == Retained(groups, {role \in Roles : task[role] # "done"})

TakeRequest ==
  /\ mode = "Daemon" /\ eng.pc = "loop" /\ reloads < MaxReloads
  /\ eng' = [eng EXCEPT !.pc = "prune", !.cmd = "Isolate"]
  /\ reloads' = reloads + 1
  /\ UNCHANGED <<mode, groups, cmdq, held, signal, routed, tasks>>

AfterCommand == IF eng.cmd = "Isolate" THEN "replace" ELSE "loop"

\* isolate_picker and resume_picker prune the finished groups, then command
\* the pickers if their group is still there.
PrunePicker ==
  /\ eng.pc = "prune"
  /\ groups' = Unfinished
  /\ eng' = [eng EXCEPT !.pc = IF "Picker" \in Range(Unfinished) THEN "command" ELSE AfterCommand]
  /\ UNCHANGED <<mode, cmdq, held, signal, routed, reloads, tasks>>

CommandPicker ==
  /\ eng.pc = "command"
  /\ Send("Picker", eng.cmd)
  /\ eng' = [eng EXCEPT !.pc = AfterCommand]
  /\ UNCHANGED <<mode, groups, signal, routed, reloads, tasks>>

\* Mutant: the new groups are registered before the ones that stay.
ReplaceProcessing_InFront ==
  /\ eng.pc = "replace"
  /\ \E n \in 0 .. parseq : lost' = lost + n
  /\ parseq' = 0 /\ outq' = [role \in Outputs |-> 0]
  /\ groups' = Processing \o Retained(groups, Roles \ Range(Processing))
  /\ task' = [task EXCEPT !["Parser"] = "run", !["Sink"] = "run", !["Infra"] = "run",
                          !["Maintainer"] = "run"]
  /\ held' = [role \in Roles |-> IF role \in Range(Processing) THEN 0 ELSE held[role]]
  /\ cmdq' = [role \in Roles |-> IF role \in Range(Processing) THEN <<>> ELSE cmdq[role]]
  /\ eng' = [eng EXCEPT !.pc = "prune", !.cmd = "Execute"]
  /\ UNCHANGED <<mode, signal, routed, reloads, picking, src>>

\* begin_reload to install: the old processing groups are drained or stopped,
\* the new ones come last in the registry.  What was in the parse channels
\* may be lost, what was in the output channels is drained.
ReplaceProcessing ==
  /\ eng.pc = "replace"
  /\ \E n \in 0 .. parseq : lost' = lost + n
  /\ parseq' = 0 /\ outq' = [role \in Outputs |-> 0]
  /\ groups' = Retained(groups, Roles \ Range(Processing)) \o Processing
  /\ task' = [task EXCEPT !["Parser"] = "run", !["Sink"] = "run", !["Infra"] = "run",
                          !["Maintainer"] = "run"]
  /\ held' = [role \in Roles |-> IF role \in Range(Processing) THEN 0 ELSE held[role]]
  /\ cmdq' = [role \in Roles |-> IF role \in Range(Processing) THEN <<>> ELSE cmdq[role]]
  /\ eng' = [eng EXCEPT !.pc = "prune", !.cmd = "Execute"]
  /\ UNCHANGED <<mode, signal, routed, reloads, picking, src>>

-----------------------------------------------------------------------------
EngineStep ==
  \/ Quiesce \/ EnterStopping \/ QuiescingTimeout \/ Alone \/ AllAlone
  \/ SendStop \/ Join \/ JoinAborts \/ AllDown
  \/ PrunePicker \/ CommandPicker \/ ReplaceProcessing
DataStep ==
  \/ PickerPosts \/ PickerEnds \/ ParserWorks \/ ParserEof
  \/ \E role \in Outputs : OutWorks(role) \/ OutEnds(role)

Next ==
  \/ EngineStep \/ DataStep \/ PickerCmd \/ Raise \/ TakeRequest
  \/ \E role \in Roles : TaskCmd(role)

\* Every task is scheduled; nobody has to raise a signal or ask for a reload.
Fairness ==
  /\ WF_vars(EngineStep)
  /\ WF_vars(PickerCmd) /\ WF_vars(PickerPosts \/ PickerEnds)
  /\ WF_vars(ParserWorks \/ ParserEof)
  /\ \A role \in Outputs : WF_vars(OutWorks(role) \/ OutEnds(role))
  /\ \A role \in Roles : WF_vars(TaskCmd(role))

Spec == Init /\ [][Next]_vars /\ Fairness

-----------------------------------------------------------------------------
(* Properties *)

TypeOK ==
  /\ mode \in Modes /\ groups \in Seq(Roles)
  /\ task \in [Roles -> {"run", "draining", "done"}]
  /\ held \in [Roles -> 0 .. CmdCap]
  /\ cmdq \in [Roles -> Seq({"Isolate", "Execute", "Stop"})]
  /\ eng.pc \in {"loop", "alone", "down", "prune", "command", "replace", "exited"}
  /\ src \in 0 .. NEvents /\ lost \in 0 .. NEvents
  /\ parseq \in 0 .. ChanCap /\ outq \in [Outputs -> 0 .. ChanCap]

\* Who sends into a role's channel, and must be gone before it is stopped.
Producers(role) ==
  CASE role = "Sink" -> {"Parser"}
    [] role = "Infra" -> {"Parser", "Sink"}
    [] role = "Monitor" -> {"Picker", "Parser", "Sink", "Infra"}
    [] role \notin {"Sink", "Infra", "Monitor"} -> {}

\* While all groups are stopped, an output is told to stop only when the
\* tasks that send to it are gone, whatever reloads did to the order of the
\* registry: no parser meets a closed sink or infra channel, and the monitor
\* outlives everyone who reports to it.
ProducersStopFirst ==
  eng.pc = "down" /\ eng.joining =>
    \A producer \in Producers(Head(eng.todo)) : task[producer] = "done"

\* A batch run that ended by itself has read its source to the end, and every
\* event went through: nothing is left in a channel and nothing was dropped.
BatchDeliversAll ==
  mode = "Batch" /\ eng.pc = "exited" /\ signal # "seen" =>
    src = 0 /\ parseq = 0 /\ (\A role \in Outputs : outq[role] = 0) /\ lost = 0

\* Once the source of a batch run is at its end, the service stops.
BatchEnds == (mode = "Batch" /\ task["Picker"] = "done") ~> eng.pc = "exited"

\* A stop signal ends the service from any state, in the middle of a reload
\* too, or while it is quiescing.
SignalEnds == signal = "raised" ~> eng.pc = "exited"

\* A service whose pickers have all ended does not go on without them.
PickersEndEndsService == task["Picker"] = "done" ~> eng.pc = "exited"

\* A reload that was begun comes back to the loop.
ReloadReturns == eng.pc = "prune" ~> eng.pc = "loop"

=============================================================================

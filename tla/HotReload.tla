------------------------------ MODULE HotReload ------------------------------
(***************************************************************************)
(* A hot reload of the daemon while data flows: reload_processing_p0 on    *)
(* the engine task, the pickers posting through the ParseDispatchRouter,   *)
(* and the parser, sink and infra workers of the old and the new           *)
(* processing set.  Each ProcessingTaskSet is a generation; a worker is    *)
(* <<generation, role, index>>.  A picker's call of try_send_round_robin   *)
(* is split where another thread can act: snapshot, flag, each try_send.   *)
(* The maintainer, monitor and acceptor groups take no part here.          *)
(***************************************************************************)
EXTENDS Integers, Sequences, FiniteSets, Functions

CONSTANTS
  Pickers,   \* picker tasks, one source each
  NEvents,   \* events each source yields (a batch is one event)
  NParsers, NSinks, NInfra,   \* workers of a processing set, by role
  Route,     \* Route[n]: the <<role, index>> event n is parsed for, or <<>>
  ChanCap,   \* capacity of a parse channel, in batches
  OutCap,    \* capacity of a sink or infra channel
  PendCap,   \* bound: pending batches of a picker
  MaxGen,    \* bound: processing sets ever built
  MaxFaults  \* bound: workers that fail or panic

ASSUME HotReloadAssumption ==
  /\ NEvents \in Nat /\ NParsers \in Nat \ {0} /\ NSinks \in Nat /\ NInfra \in 0 .. 1
  /\ NSinks > 0 => NInfra = 1
  /\ ChanCap \in Nat \ {0} /\ OutCap \in Nat \ {0} /\ PendCap \in Nat \ {0}
  /\ MaxGen \in Nat \ {0} /\ MaxFaults \in Nat

VARIABLES
  pk,     \* per picker: its loop, work_cmd, command queue, source, pending
  router, \* ParseDispatchRouter: senders, next_idx, reloading
  wk,     \* per worker: state, channel, event in hand, stop command, reporter
  drain,  \* per generation: the drain tracker, see ReloadDrain
  eng,    \* reload_processing_p0 and the TaskManager's groups
  delivered, lost,  \* events handled by their sink / dropped with a channel
  faults

vars == <<pk, router, wk, drain, eng, delivered, lost, faults>>
data == <<delivered, lost>>

Gens == 1 .. MaxGen
Roles == <<"Parser", "Sink", "Infra">>
NumOf(role) ==
  CASE role = "Parser" -> NParsers [] role = "Sink" -> NSinks [] role = "Infra" -> NInfra
ASSUME RouteAssumption ==
  \A n \in 1 .. NEvents :
    Route[n] = <<>> \/ \E role \in {"Sink", "Infra"} : \E i \in 1 .. NumOf(role) : Route[n] = <<role, i>>
Group(g, role) == {<<g, role, i>> : i \in 1 .. NumOf(role)}
WorkersOf(g) == UNION {Group(g, role) : role \in Range(Roles)}
Workers == UNION {WorkersOf(g) : g \in Gens}
Gen(w) == w[1]
Role(w) == w[2]
Senders(g) == [i \in 1 .. NParsers |-> <<g, "Parser", i>>]
Events == Pickers \X (1 .. NEvents)
NoEvent == <<>>
Named(p, seq) == {<<p, seq[i]>> : i \in DOMAIN seq}

Finished(w) == wk[w].st \in {"done", "failed", "panicked"}
Exited(p) == pk[p].pc = "exited"
PickerGroup == <<0, "Picker">>
GroupFinished(grp) ==
  IF grp = PickerGroup THEN \A p \in Pickers : Exited(p)
  ELSE \A w \in Group(grp[1], grp[2]) : Finished(w)
GroupsOf(g) == {<<g, role>> : role \in Range(Roles)}

Running(g) == [w \in Workers |-> IF Gen(w) = g THEN [wk[w] EXCEPT !.st = "run"] ELSE wk[w]]
NewTracker ==
  [bus |-> <<>>, pending |-> [role \in Range(Roles) |-> NumOf(role)], wait |-> "idle"]

Init ==
  /\ pk = [p \in Pickers |->
             [pc |-> "idle", snap |-> <<>>, k |-> 0, full |-> FALSE,
              cmd |-> "Execute", q |-> <<>>, src |-> 0, pend |-> <<>>]]
  /\ router = [senders |-> Senders(1), next |-> 0, reloading |-> FALSE]
  /\ wk = [w \in Workers |->
             [st |-> IF Gen(w) = 1 THEN "run" ELSE "off", ch |-> <<>>, hand |-> NoEvent,
              stop |-> FALSE, rep |-> "armed"]]
  /\ drain = [g \in Gens |-> NewTracker]
  /\ eng = [pc |-> "idle", active |-> 1, built |-> 1, todo |-> <<>>, join |-> 0,
            awaiting |-> FALSE, groups |-> GroupsOf(1) \cup {PickerGroup},
            detached |-> {}, groupsLost |-> FALSE]
  /\ delivered = {} /\ lost = {} /\ faults = 0

-----------------------------------------------------------------------------
(* A picker: the round of Picker, with the router call opened up *)

\* poll_cmd_now, or the command branch of a blocking fetch.
PollCmd(p) ==
  /\ pk[p].pc = "idle" /\ pk[p].q # <<>>
  /\ pk' = [pk EXCEPT ![p].cmd = Head(pk[p].q), ![p].q = Tail(@)]
  /\ UNCHANGED <<router, wk, drain, eng, data, faults>>

\* fetch_into_pending, while the last command seen is not Isolate.
Fetch(p) ==
  /\ pk[p].pc = "idle" /\ pk[p].cmd = "Execute"
  /\ pk[p].src < NEvents /\ Len(pk[p].pend) < PendCap
  /\ pk' = [pk EXCEPT ![p].src = @ + 1, ![p].pend = Append(@, pk[p].src + 1)]
  /\ UNCHANGED <<router, wk, drain, eng, data, faults>>

\* The senders in the order in which the round robin tries them.
Rotated(senders, start) ==
  [i \in 1 .. Len(senders) |-> senders[((start + i - 1) % Len(senders)) + 1]]

\* snapshot() under the read lock, and next_idx.fetch_add.
Snapshot(p) ==
  /\ pk[p].pc = "idle" /\ pk[p].pend # <<>>
  /\ IF router.senders = <<>>
       THEN /\ pk' = [pk EXCEPT ![p].pc = "empty"]
            /\ UNCHANGED router
       ELSE /\ pk' = [pk EXCEPT ![p].pc = "try", ![p].k = 1, ![p].full = FALSE,
                                ![p].snap = Rotated(router.senders, router.next)]
            /\ router' = [router EXCEPT !.next = (@ + 1) % Len(router.senders)]
  /\ UNCHANGED <<wk, drain, eng, data, faults>>

\* An empty snapshot: the flag is loaded after the lock was released.  Closed
\* ends the picker, Reloading keeps the pending batch.
LoadReloading(p) ==
  /\ pk[p].pc = "empty"
  /\ pk' = [pk EXCEPT ![p].pc = IF router.reloading THEN "idle" ELSE "exited"]
  /\ UNCHANGED <<router, wk, drain, eng, data, faults>>

\* A parse channel is open for sending until its worker's task is gone.
RecvAlive(w) == wk[w].st \in {"run", "tail"}

\* Mutant: a batch that was sent is put back as if it had been refused.
AfterTrySend_KeepsPending(p, sent, full) ==
  IF sent THEN [pk[p] EXCEPT !.pc = "idle", !.snap = <<>>]
  ELSE IF pk[p].k = Len(pk[p].snap)
  THEN [pk[p] EXCEPT !.pc = IF full THEN "idle" ELSE "exited", !.snap = <<>>]
  ELSE [pk[p] EXCEPT !.k = @ + 1, !.full = full]

\* Sent; or refused by the last sender: Full pushes the batch back, Closed
\* ends the picker; or refused by another: go on with the next.
AfterTrySend(p, sent, full) ==
  IF sent THEN [pk[p] EXCEPT !.pc = "idle", !.snap = <<>>, !.pend = Tail(@)]
  ELSE IF pk[p].k = Len(pk[p].snap)
  THEN [pk[p] EXCEPT !.pc = IF full THEN "idle" ELSE "exited", !.snap = <<>>]
  ELSE [pk[p] EXCEPT !.k = @ + 1, !.full = full]

\* The try_send to the k-th sender of the snapshot.
TrySend(p) ==
  LET w == pk[p].snap[pk[p].k]
      sent == RecvAlive(w) /\ Len(wk[w].ch) < ChanCap
      full == pk[p].full \/ (RecvAlive(w) /\ ~sent)
  IN  /\ pk[p].pc = "try"
      /\ pk' = [pk EXCEPT ![p] = AfterTrySend(p, sent, full)]
      /\ wk' = IF sent THEN [wk EXCEPT ![w].ch = Append(@, <<p, Head(pk[p].pend)>>)] ELSE wk
      /\ UNCHANGED <<router, drain, eng, data, faults>>

-----------------------------------------------------------------------------
(* A parser: ActParser::parse_events inside ActorWork::proc *)

\* Some clone of the parse sender is alive: in the router, in a picker's
\* snapshot, or in a processing set that is not installed yet.
SenderAlive(w) ==
  \/ w \in Range(router.senders)
  \/ \E p \in Pickers : w \in Range(pk[p].snap)
  \/ Gen(w) > eng.active

Report(w, outcome) ==
  drain' = [drain EXCEPT ![Gen(w)].bus = Append(@, [worker |-> w, outcome |-> outcome])]

ParserRecv(w) ==
  /\ wk[w].st = "run" /\ wk[w].hand = NoEvent /\ wk[w].ch # <<>>
  /\ wk' = [wk EXCEPT ![w].hand = Head(wk[w].ch), ![w].ch = Tail(@)]
  /\ UNCHANGED <<pk, router, drain, eng, data, faults>>

\* proc_batch: a parsed event waits for room in its sink group's channel and
\* is dropped when that is closed; a missed event goes to infra, whose closed
\* channel fails the parser.
ParserForward(w) ==
  LET ev == wk[w].hand
      out == <<Gen(w), Route[ev[2]][1], Route[ev[2]][2]>>
      open == wk[out].st = "run"
  IN  /\ wk[w].st = "run" /\ ev # NoEvent
      /\ \/ /\ Route[ev[2]] = <<>>
            /\ wk' = [wk EXCEPT ![w].hand = NoEvent]
            /\ delivered' = delivered \cup {ev}
            /\ UNCHANGED <<drain, lost>>
         \/ /\ Route[ev[2]] # <<>> /\ open /\ Len(wk[out].ch) < OutCap
            /\ wk' = [wk EXCEPT ![w].hand = NoEvent, ![out].ch = Append(@, ev)]
            /\ UNCHANGED <<drain, data>>
         \/ /\ Route[ev[2]] # <<>> /\ ~open
            /\ IF Role(out) = "Infra"
                 THEN /\ wk' = [wk EXCEPT ![w].st = "failed", ![w].hand = NoEvent,
                                          ![w].ch = <<>>, ![w].rep = "Aborted"]
                      /\ Report(w, "Aborted")
                      /\ lost' = lost \cup {ev} \cup Range(wk[w].ch)
                 ELSE /\ wk' = [wk EXCEPT ![w].hand = NoEvent]
                      /\ lost' = lost \cup {ev}
                      /\ UNCHANGED drain
            /\ UNCHANGED delivered
      /\ UNCHANGED <<pk, router, eng, faults>>

\* Mutant: the loop ends when the last sender is gone, without reading on.
ParserLoopEnds_Early(w) ==
  /\ wk[w].st = "run" /\ wk[w].hand = NoEvent
  /\ wk[w].stop \/ ~SenderAlive(w)
  /\ wk' = [wk EXCEPT ![w].st = "tail", ![w].rep = "Drained"]
  /\ Report(w, "Drained")
  /\ UNCHANGED <<pk, router, eng, data, faults>>

\* The loop ends, on Stop with whatever is queued, or when the channel is
\* closed and empty; the reporter says Drained in both cases.
ParserLoopEnds(w) ==
  /\ wk[w].st = "run" /\ wk[w].hand = NoEvent
  /\ wk[w].stop \/ (wk[w].ch = <<>> /\ ~SenderAlive(w))
  /\ wk' = [wk EXCEPT ![w].st = "tail", ![w].rep = "Drained"]
  /\ Report(w, "Drained")
  /\ UNCHANGED <<pk, router, eng, data, faults>>

\* The task returns; its channel goes with it.
TaskReturns(w) ==
  /\ wk[w].st = "tail"
  /\ wk' = [wk EXCEPT ![w].st = "done", ![w].ch = <<>>]
  /\ lost' = lost \cup Range(wk[w].ch)
  /\ UNCHANGED <<pk, router, drain, eng, delivered, faults>>

-----------------------------------------------------------------------------
(* A sink group or the infra task: async_proc / async_proc_infra *)

OutRecv(w) ==
  /\ wk[w].st \in {"run", "draining"} /\ wk[w].ch # <<>>
  /\ wk' = [wk EXCEPT ![w].ch = Tail(@)]
  /\ delivered' = delivered \cup {Head(wk[w].ch)}
  /\ UNCHANGED <<pk, router, drain, eng, lost, faults>>

\* Stop: start_draining and close_channel.  Nothing else closes the channel,
\* because the dispatcher keeps a sender of its own.
OutStop(w) ==
  /\ wk[w].st = "run" /\ wk[w].stop
  /\ wk' = [wk EXCEPT ![w].st = "draining"]
  /\ UNCHANGED <<pk, router, drain, eng, data, faults>>

\* recv() yields None on the closed, empty channel: notify, then leave.
OutDrained(w) ==
  /\ wk[w].st = "draining" /\ wk[w].ch = <<>>
  /\ wk' = [wk EXCEPT ![w].st = "tail", ![w].rep = "Drained"]
  /\ Report(w, "Drained")
  /\ UNCHANGED <<pk, router, eng, data, faults>>

\* A worker returns an error or panics: its reporter drops, and its channel.
Fault(w, st) ==
  /\ faults < MaxFaults
  /\ wk[w].st \in {"run", "draining"}
  /\ wk' = [wk EXCEPT ![w].st = st, ![w].ch = <<>>, ![w].hand = NoEvent, ![w].rep = "Aborted"]
  /\ Report(w, "Aborted")
  /\ lost' = lost \cup Range(wk[w].ch)
                  \cup (IF wk[w].hand = NoEvent THEN {} ELSE {wk[w].hand})
  /\ faults' = faults + 1
  /\ UNCHANGED <<pk, router, eng, delivered>>

-----------------------------------------------------------------------------
(* The engine: reload_processing_p0 *)

\* load_processing_res and start_processing_tasks: the next processing set is
\* built and started, and not routed to yet.  When either fails the reload
\* fails before it has touched anything.
Prebuild ==
  /\ eng.pc = "idle" /\ ~eng.groupsLost /\ eng.built < MaxGen
  /\ eng' = [eng EXCEPT !.pc = "isolate", !.built = @ + 1]
  /\ wk' = Running(eng.built + 1)
  /\ UNCHANGED <<pk, router, drain, data, faults>>

\* prune_finished_background_processing, at the head of isolate and resume.
Pruned(e) ==
  [e EXCEPT !.groups = {grp \in @ : ~GroupFinished(grp)},
            !.detached = {grp \in @ : ~GroupFinished(grp)}]

\* isolate_role / execute_role_all: broadcast to a picker group that is still
\* registered and not finished.
Command(e, cmd) ==
  IF PickerGroup \in e.groups
    THEN [p \in Pickers |-> IF Exited(p) THEN pk[p] ELSE [pk[p] EXCEPT !.q = Append(@, cmd)]]
    ELSE pk

IsolatePicker ==
  /\ eng.pc = "isolate"
  /\ eng' = [Pruned(eng) EXCEPT !.pc = "disconnect"]
  /\ pk' = Command(Pruned(eng), "Isolate")
  /\ UNCHANGED <<router, wk, drain, data, faults>>

\* begin_reload, then wait_processing_drained is entered.
DisconnectRouter ==
  /\ eng.pc = "disconnect"
  /\ router' = [senders |-> <<>>, next |-> 0, reloading |-> TRUE]
  /\ eng' = [eng EXCEPT !.pc = "drain"]
  /\ drain' = [drain EXCEPT ![eng.active].wait = "waiting"]
  /\ UNCHANGED <<pk, wk, data, faults>>

Tracker == drain[eng.active]
\* Mutant: one role without pending workers is enough.
FullyQuiesced_AnyRole == \E role \in Range(Roles) : Tracker.pending[role] = 0

FullyQuiesced == \A role \in Range(Roles) : Tracker.pending[role] = 0

\* Mutant: the forced stop forgets the parsers.
DrainFails_NotParsers(tracker) ==
  /\ drain' = [drain EXCEPT ![eng.active] = [tracker EXCEPT !.wait = "failed"]]
  /\ eng' = [eng EXCEPT !.pc = "force", !.todo = Tail(Roles)]

\* The graceful wait failed: force_stop_processing follows.
DrainFails(tracker) ==
  /\ drain' = [drain EXCEPT ![eng.active] = [tracker EXCEPT !.wait = "failed"]]
  /\ eng' = [eng EXCEPT !.pc = "force", !.todo = Roles]

\* Mutant: the outcome of a report is not looked at.
DrainObserve_AnyOutcome ==
  LET role == Role(Head(Tracker.bus).worker)
  IN  /\ eng.pc = "drain" /\ ~FullyQuiesced /\ Tracker.bus # <<>>
      /\ drain' = [drain EXCEPT ![eng.active].bus = Tail(@), ![eng.active].pending[role] = @ - 1]
      /\ UNCHANGED <<eng, pk, router, wk, data, faults>>

\* recv() and observe().
DrainObserve ==
  LET ev == Head(Tracker.bus)
      rest == [Tracker EXCEPT !.bus = Tail(@)]
      counted == Tracker.pending[Role(ev.worker)] # 0
  IN  /\ eng.pc = "drain" /\ ~FullyQuiesced /\ Tracker.bus # <<>>
      /\ IF counted /\ ev.outcome = "Aborted"
           THEN DrainFails(rest)
           ELSE /\ drain' = [drain EXCEPT ![eng.active] =
                      IF counted THEN [rest EXCEPT !.pending[Role(ev.worker)] = @ - 1] ELSE rest]
                /\ UNCHANGED eng
      /\ UNCHANGED <<pk, router, wk, data, faults>>

\* reload_timeout has passed.
DrainTimeout ==
  /\ eng.pc = "drain" /\ ~FullyQuiesced
  /\ DrainFails(Tracker)
  /\ UNCHANGED <<pk, router, wk, data, faults>>

\* All reports are in: detach the old groups and go on.
DrainQuiesced ==
  /\ eng.pc = "drain" /\ FullyQuiesced
  /\ drain' = [drain EXCEPT ![eng.active].wait = "quiesced"]
  /\ LET old == eng.groups \cap GroupsOf(eng.active)
     IN  eng' = Pruned([eng EXCEPT !.pc = "install", !.groups = @ \ old,
                                   !.detached = @ \cup old])
  /\ UNCHANGED <<pk, router, wk, data, faults>>

\* Mutant: the handles are joined and Stop is not sent.
StopRole_NoStop ==
  /\ eng.pc = "force" /\ eng.todo # <<>>
  /\ eng' = IF <<eng.active, Head(eng.todo)>> \in eng.groups
              THEN [eng EXCEPT !.pc = "join", !.join = NumOf(Head(eng.todo))]
              ELSE [eng EXCEPT !.todo = Tail(@)]
  /\ UNCHANGED <<pk, router, wk, drain, data, faults>>

\* stop_role(Head(todo)): Stop is broadcast to the group, then its handles are
\* popped from the last to the first; a group already pruned is skipped.
StopRole ==
  /\ eng.pc = "force" /\ eng.todo # <<>>
  /\ LET role == Head(eng.todo)
         grp == <<eng.active, role>>
     IN  IF grp \in eng.groups
           THEN /\ wk' = [w \in Workers |-> IF w \in Group(eng.active, role)
                                              THEN [wk[w] EXCEPT !.stop = TRUE] ELSE wk[w]]
                /\ eng' = [eng EXCEPT !.pc = "join", !.join = NumOf(role)]
           ELSE /\ eng' = [eng EXCEPT !.todo = Tail(@)]
                /\ UNCHANGED wk
  /\ UNCHANGED <<pk, router, drain, data, faults>>

Joined == <<eng.active, Head(eng.todo), eng.join>>

\* A handle found finished is dropped unexamined, else it is awaited.
JoinNext ==
  /\ eng.pc = "join" /\ eng.join > 0 /\ ~eng.awaiting
  /\ eng' = IF Finished(Joined) THEN [eng EXCEPT !.join = @ - 1]
                                ELSE [eng EXCEPT !.awaiting = TRUE]
  /\ UNCHANGED <<pk, router, wk, drain, data, faults>>

\* The awaited task ended.  A panic makes stop_role return while it is
\* draining role_groups: every group it held is dropped, and the set that was
\* built is shut down.
JoinAwaited ==
  /\ eng.pc = "join" /\ eng.awaiting /\ Finished(Joined)
  /\ IF wk[Joined].st = "panicked"
       THEN /\ eng' = [eng EXCEPT !.pc = "shutdown", !.awaiting = FALSE, !.join = 0,
                                  !.todo = <<>>, !.groups = {}, !.groupsLost = TRUE]
            /\ wk' = [w \in Workers |-> [wk[w] EXCEPT !.stop =
                        @ \/ Gen(w) = eng.built \/ (Gen(w) = eng.active /\ Role(w) # "Parser")]]
       ELSE /\ eng' = [eng EXCEPT !.awaiting = FALSE, !.join = @ - 1]
            /\ UNCHANGED wk
  /\ UNCHANGED <<pk, router, drain, data, faults>>

\* shutdown_unused returns, and the reload fails.
UnusedShutDown ==
  /\ eng.pc = "shutdown" /\ \A w \in WorkersOf(eng.built) : Finished(w)
  /\ eng' = [eng EXCEPT !.pc = "idle"]
  /\ UNCHANGED <<pk, router, wk, drain, data, faults>>

\* next_exit_policy_action has no group left to ask about: the loop ends.
EngineExits ==
  /\ eng.pc = "idle" /\ eng.groupsLost
  /\ eng' = [eng EXCEPT !.pc = "dead"]
  /\ UNCHANGED <<pk, router, wk, drain, data, faults>>

\* The group is down and leaves the manager.
RoleStopped ==
  /\ eng.pc = "join" /\ eng.join = 0
  /\ eng' = [eng EXCEPT !.pc = "force", !.groups = @ \ {<<eng.active, Head(eng.todo)>>},
                        !.todo = Tail(@)]
  /\ UNCHANGED <<pk, router, wk, drain, data, faults>>

ForceStopped ==
  /\ eng.pc = "force" /\ eng.todo = <<>>
  /\ eng' = [Pruned(eng) EXCEPT !.pc = "install"]
  /\ UNCHANGED <<pk, router, wk, drain, data, faults>>

\* Mutant: the epoch is advanced once more when the new set is installed.
Install_EpochTwice ==
  /\ eng.pc = "install"
  /\ router' = [senders |-> Senders(eng.built), next |-> 0, reloading |-> FALSE]
  /\ eng' = [eng EXCEPT !.pc = "resume", !.active = eng.built + 1,
                        !.groups = @ \cup GroupsOf(eng.built)]
  /\ UNCHANGED <<pk, wk, drain, data, faults>>

\* install_processing_tasks: router.replace, then the groups are registered.
Install ==
  /\ eng.pc = "install"
  /\ router' = [senders |-> Senders(eng.built), next |-> 0, reloading |-> FALSE]
  /\ eng' = [eng EXCEPT !.pc = "resume", !.active = eng.built,
                        !.groups = @ \cup GroupsOf(eng.built)]
  /\ UNCHANGED <<pk, wk, drain, data, faults>>

\* Mutant: a forced replacement returns without resuming the pickers.
ResumePicker_NotForced ==
  /\ eng.pc = "resume"
  /\ eng' = [Pruned(eng) EXCEPT !.pc = "idle"]
  /\ pk' = IF drain[eng.active - 1].wait = "failed" THEN pk ELSE Command(Pruned(eng), "Execute")
  /\ UNCHANGED <<router, wk, drain, data, faults>>

ResumePicker ==
  /\ eng.pc = "resume"
  /\ eng' = [Pruned(eng) EXCEPT !.pc = "idle"]
  /\ pk' = Command(Pruned(eng), "Execute")
  /\ UNCHANGED <<router, wk, drain, data, faults>>

-----------------------------------------------------------------------------
PickerStep(p) == PollCmd(p) \/ Fetch(p) \/ Snapshot(p) \/ LoadReloading(p) \/ TrySend(p)
ParserStep(w) == ParserRecv(w) \/ ParserForward(w) \/ ParserLoopEnds(w)
OutStep(w) == OutRecv(w) \/ OutStop(w) \/ OutDrained(w)
ParserSet == {w \in Workers : Role(w) = "Parser"}
OutSet == Workers \ ParserSet

\* The steps of a reload that do not wait for the deadline.
ReloadStep ==
  \/ IsolatePicker \/ DisconnectRouter \/ DrainObserve \/ DrainQuiesced
  \/ StopRole \/ JoinNext \/ JoinAwaited \/ RoleStopped \/ ForceStopped
  \/ UnusedShutDown \/ EngineExits \/ Install \/ ResumePicker

Next ==
  \/ \E p \in Pickers : PickerStep(p)
  \/ \E w \in ParserSet : ParserStep(w)
  \/ \E w \in OutSet : OutStep(w)
  \/ \E w \in Workers : TaskReturns(w)
  \/ \E w \in Workers, st \in {"failed", "panicked"} : Fault(w, st)
  \/ Prebuild \/ ReloadStep \/ DrainTimeout

\* Every task is polled again and again by the runtime.  Events need not
\* arrive, reloads need not be asked for, workers need not fail.
TaskFairness ==
  /\ \A p \in Pickers : WF_vars(LoadReloading(p) \/ TrySend(p)) /\ SF_vars(Snapshot(p))
  /\ \A w \in ParserSet : WF_vars(ParserStep(w) \/ TaskReturns(w))
  /\ \A w \in OutSet : WF_vars(OutStep(w) \/ TaskReturns(w))
  /\ WF_vars(ReloadStep)

\* The graceful wait has a deadline, and the clock passes it.
DeadlinePasses == WF_vars(DrainTimeout)

Spec == Init /\ [][Next]_vars /\ TaskFairness /\ DeadlinePasses

\* The same system before any deadline has passed.
SpecBeforeDeadline == Init /\ [][Next]_vars /\ TaskFairness

-----------------------------------------------------------------------------
(* Properties *)

PickerRec ==
  [pc : {"idle", "empty", "try", "exited"}, snap : Seq(ParserSet), k : Nat, full : BOOLEAN,
   cmd : {"Execute", "Isolate"}, q : Seq({"Execute", "Isolate"}), src : 0 .. NEvents,
   pend : Seq(1 .. NEvents)]
WorkerRec ==
  [st : {"off", "run", "draining", "tail", "done", "failed", "panicked"}, ch : Seq(Events),
   hand : Events \cup {NoEvent}, stop : BOOLEAN, rep : {"armed", "Drained", "Aborted"}]

TypeOK ==
  /\ pk \in [Pickers -> PickerRec]
  /\ router.senders \in Seq(ParserSet) /\ router.reloading \in BOOLEAN /\ router.next \in Nat
  /\ wk \in [Workers -> WorkerRec]
  /\ \A w \in ParserSet : Len(wk[w].ch) <= ChanCap
  /\ \A w \in OutSet : Len(wk[w].ch) <= OutCap
  /\ eng.active \in Gens /\ eng.built \in Gens /\ eng.active <= eng.built
  /\ delivered \subseteq Events /\ lost \subseteq Events

Places(p, n) ==
  LET ev == <<p, n>> IN
    Cardinality({i \in DOMAIN pk[p].pend : pk[p].pend[i] = n})
    + Cardinality({x \in Workers \X (1 .. ChanCap + OutCap) :
                     x[2] <= Len(wk[x[1]].ch) /\ wk[x[1]].ch[x[2]] = ev})
    + Cardinality({w \in Workers : wk[w].hand = ev})
    + (IF ev \in delivered THEN 1 ELSE 0) + (IF ev \in lost THEN 1 ELSE 0)

\* Every event a picker has taken from its source is in exactly one place: its
\* pending queue, one channel, one parser's hand, its sink, or lost with a
\* channel.  The push back after a refused try_send, the two generations and
\* the forced stop neither duplicate one nor make one vanish unnoticed.
EveryEventInOnePlace ==
  \A p \in Pickers : \A n \in 1 .. NEvents :
    Places(p, n) = IF n <= pk[p].src THEN 1 ELSE 0

\* Data is lost only where the reload fell back to a forced replacement, or a
\* worker failed: a graceful reload drops nothing.
LossNeedsForce ==
  lost # {} => faults > 0 \/ \E g \in Gens : drain[g].wait = "failed"

\* When the wait for a generation ends quiesced, its workers hold no event,
\* and no picker still has one of its senders in hand.
QuiescedMeansEmpty ==
  \A g \in Gens : drain[g].wait = "quiesced" =>
    /\ \A w \in WorkersOf(g) : wk[w].ch = <<>> /\ wk[w].hand = NoEvent
    /\ \A p \in Pickers : \A w \in WorkersOf(g) : w \notin Range(pk[p].snap)

\* The router never hands out a sender of a generation that is not the
\* installed one, and once a generation is replaced none of its workers
\* processes anything any more: data is never parsed under the old rules
\* after the new ones were installed.
OldGenerationIsOver ==
  /\ \A w \in Range(router.senders) : Gen(w) = eng.active
  /\ \A w \in Workers : Gen(w) < eng.active => wk[w].st \in {"tail", "done", "failed", "panicked"}

LastWord(p) == IF pk[p].q = <<>> THEN pk[p].cmd ELSE pk[p].q[Len(pk[p].q)]

\* Between reloads the last word every living picker has heard, or has in its
\* queue, is Execute, and the router is connected: no reload, graceful or
\* forced, leaves the data path cut off.
PickersResumed ==
  eng.pc = "idle" /\ ~eng.groupsLost =>
    /\ ~router.reloading /\ router.senders = Senders(eng.active)
    /\ \A p \in Pickers : Exited(p) \/ LastWord(p) = "Execute"

\* A reload that was started comes to an answer, whatever state the old
\* workers are in.
ReloadEnds == eng.pc = "isolate" ~> eng.pc \in {"idle", "dead"}

\* A picker is ended by nothing but a fault: with healthy workers, reloads
\* keep the pending data and hand it to the new parsers.
NoPickerDies == \A p \in Pickers : ~Exited(p)

\* The wait for the old generation ends by its reports, without the deadline.
DrainEndsByItself == eng.pc = "drain" ~> eng.pc # "drain"

=============================================================================

------------------------------ MODULE SinkGroup ------------------------------
(***************************************************************************)
(* One sink group of a running process: the task that takes packages from  *)
(* the dispatcher's channel, its SinkRuntimes with their pending buffers   *)
(* and rescue files, and the maintainer that reconnects failed sinks and   *)
(* returns them through two bounded queues.  RescueCycle adds the life of  *)
(* the process and the replay of the rescue files.                         *)
(*                                                                         *)
(* A sink's real backend is one object.  It is the sink's primary, or it   *)
(* travels as a handle: in the task's hand, in badQ, with the maintainer,  *)
(* in fixQ.  A handle is named by its sink (name and instance id).         *)
(***************************************************************************)
EXTENDS Naturals, Sequences

CONSTANTS
  NSinks,    \* sinks of the group
  NRec,      \* records the engine produces, numbered by event id
  LossyIn,   \* LossyIn[k]: the sinks with drop_when_error in a group of kind k
  Wants,     \* Wants[s]: the records that satisfy the condition of sink s
  NameOf,    \* NameOf[s]: the sink's name; replicas of a sink share one
  MetaOf,    \* MetaOf[r]: the batch meta of record r (its rule's OML name)
  BatchSize, \* batch_size of the sinks
  QueueCap,  \* capacity of the two handle queues, 100 in fix_channel
  InboxCap,  \* capacity of the dispatcher's channel
  MaxFiles,  \* bound: rescue files ever created
  MaxFaults  \* bound: write errors and deaths of the monitor

Sinks == 1..NSinks
Records == 1..NRec

ASSUME GroupAssumption ==
  /\ NSinks \in Nat \ {0} /\ NRec \in Nat
  /\ BatchSize \in Nat \ {0} /\ InboxCap \in Nat \ {0}
  /\ QueueCap \in Nat /\ NSinks <= QueueCap
  /\ MaxFiles \in Nat /\ MaxFaults \in Nat

VARIABLES
  kind,     \* "group" (async_proc) or "infra" (async_proc_infra)
  phase,    \* the process: "engine", "rescue" (wprescue), "down"
  fed,      \* records the parsers have sent so far
  inbox,    \* the dispatcher's channel, a queue of packages
  closed,   \* its receiver is closed or gone
  pc,       \* the task: select, work, hand, ending, done, failed, off
  drain,    \* no, draining (after Stop), final (the loop is left)
  jobs,     \* what the running handler still has to pass to the sinks
  cur,      \* the batch a sink is writing
  hand,     \* the sink whose backend the task is about to queue, or 0
  primary,  \* primary[s]: Real or the number of a rescue file
  retired,  \* retired_rescue: a rescue file kept open, or NoFile
  backup,   \* backup_used
  pending,  \* pending_records
  open,     \* SinkHealth: the breaker of the sink is open
  badQ, fixQ, \* handles to reconnect, handles to take back
  mpc, mh,  \* the maintainer and the handle it holds
  mon,      \* the monitor's channel is open
  files,    \* the rescue directory, oldest file first
  faults,   \* write errors and monitor deaths left
  taken, accepted, settled, \* history: records taken from the inbox, given
                            \* to each sink, and what became of them there
  made      \* history: rescue files made since the sink last delivered

handles == <<hand, primary, retired, backup, badQ, fixQ, mpc, mh>>
history == <<taken, accepted, settled>>
control == <<kind, phase, fed>>

Lossy == LossyIn[kind]

Real == 0    \* as a primary: the real sink
NoFile == 0  \* as a retired rescue file: none
Recording == phase = "engine"  \* the history is that of the engine's process

NoBatch == [sink |-> 0, recs |-> <<>>]

-----------------------------------------------------------------------------
(* What a process starts with *)

GroupInit ==
  /\ kind \in {"group", "infra"} /\ phase = "engine" /\ fed = 0
  /\ files = <<>> /\ faults = MaxFaults
  /\ inbox = <<>> /\ closed = FALSE /\ pc = "select" /\ drain = "no"
  /\ jobs = <<>> /\ cur = NoBatch /\ hand = 0
  /\ primary = [s \in Sinks |-> Real] /\ retired = [s \in Sinks |-> NoFile]
  /\ backup = [s \in Sinks |-> FALSE] /\ pending = [s \in Sinks |-> <<>>]
  /\ open = [s \in Sinks |-> FALSE]
  /\ badQ = <<>> /\ fixQ = <<>> /\ mpc = "poll" /\ mh = 0
  /\ mon = TRUE /\ taken = <<>>
  /\ accepted = [s \in Sinks |-> <<>>] /\ settled = [s \in Sinks |-> <<>>]
  /\ made = [s \in Sinks |-> 0]

\* The memory of a process that has just started, or of none.
FreshMemory(on) ==
  /\ inbox' = <<>> /\ closed' = ~on
  /\ pc' = (IF on THEN "select" ELSE "off") /\ drain' = "no"
  /\ jobs' = <<>> /\ cur' = NoBatch /\ hand' = 0
  /\ primary' = [s \in Sinks |-> Real] /\ retired' = [s \in Sinks |-> NoFile]
  /\ backup' = [s \in Sinks |-> FALSE] /\ pending' = [s \in Sinks |-> <<>>]
  /\ open' = [s \in Sinks |-> FALSE]
  /\ badQ' = <<>> /\ fixQ' = <<>>
  /\ mpc' = (IF on THEN "poll" ELSE "off") /\ mh' = 0
  /\ mon' = TRUE /\ taken' = <<>>
  /\ accepted' = [s \in Sinks |-> <<>>] /\ settled' = [s \in Sinks |-> <<>>]
  /\ made' = [s \in Sinks |-> 0]

-----------------------------------------------------------------------------
(* From a package to the sinks *)

\* A replayed record carries ProcMeta::Null, so no OML name.
BatchMeta(r) == IF phase = "rescue" THEN "none" ELSE MetaOf[r]

\* One call of send_record_segment; no records means flush.
Job(s, recs) == [sink |-> s, recs |-> recs]

\* The elements of a sequence at some of its positions, in order.
Picked(seq, at) ==
  LET upto[i \in 0..Len(seq)] ==
        IF i = 0 THEN <<>> ELSE IF i \in at THEN Append(upto[i - 1], seq[i]) ELSE upto[i - 1]
  IN  upto[Len(seq)]

FlushAll == Picked([s \in Sinks |-> Job(s, <<>>)], {s \in Sinks : pending[s] # <<>>})

\* Where the task is once it has this much left to do.
Working(js, batch) ==
  IF js # <<>> \/ batch # NoBatch THEN "work" ELSE IF drain = "final" THEN "ending" ELSE "select"

\* The k-th turn of two nested loops, the inner one over n elements.
Outer(k, n) == ((k - 1) \div n) + 1
Inner(k, n) == ((k - 1) % n) + 1

\* Mutant: a record goes to the first sink that wants it.
GroupJobs_FirstMatch(pkg, rules) ==
  [k \in 1..(Len(rules) * NSinks) |->
    LET s == Inner(k, NSinks)
    IN  Job(s, Picked(pkg, {i \in DOMAIN pkg :
                              /\ BatchMeta(pkg[i]) = rules[Outer(k, NSinks)]
                              /\ pkg[i] \in Wants[s]
                              /\ \A t \in 1..(s - 1) : pkg[i] \notin Wants[t]}))]

\* group_sink_package: the units are grouped by rule, in the order of a hash
\* map; each group is offered to every sink, which takes what its condition
\* lets through.
GroupJobs(pkg, rules) ==
  [k \in 1..(Len(rules) * NSinks) |->
    LET s == Inner(k, NSinks)
    IN  Job(s, Picked(pkg, {i \in DOMAIN pkg : /\ BatchMeta(pkg[i]) = rules[Outer(k, NSinks)]
                                               /\ pkg[i] \in Wants[s]}))]

\* group_sink_batch_direct: among the sinks of one name, the event id chooses
\* the replica.
ReplicaOf(r, n) ==
  LET same == Picked([s \in Sinks |-> s], {s \in Sinks : NameOf[s] = n})
  IN  same[(r % Len(same)) + 1]

\* send_package_to_sink: a package is cut where the meta changes.  The segment
\* that begins at the i-th record, if one does.
SegmentAt(recs, i) ==
  LET sameMeta(a, b) == \A k \in a..b : BatchMeta(recs[k]) = BatchMeta(recs[a])
      ends == {j \in i..Len(recs) : sameMeta(i, j)}
  IN  IF i > Len(recs) \/ (i > 1 /\ sameMeta(i - 1, i)) THEN <<>>
      ELSE SubSeq(recs, i, CHOOSE j \in ends : \A e \in ends : e <= j)

InfraJobs(pkg) ==
  [k \in 1..(NSinks * Len(pkg)) |->
    LET s == Outer(k, Len(pkg))
        own == Picked(pkg, {i \in DOMAIN pkg : ReplicaOf(pkg[i], NameOf[s]) = s})
    IN  Job(s, SegmentAt(own, Inner(k, Len(pkg))))]

NonEmpty(js) == Picked(js, {k \in DOMAIN js : js[k].recs # <<>>})

\* The rules of a package, and the orders a hash map may list them in.
MetasOf(pkg) == {BatchMeta(pkg[i]) : i \in DOMAIN pkg}
Orders(pkg) ==
  {q \in UNION {[1..n -> MetasOf(pkg)] : n \in 0..Len(pkg)} :
     \A m \in MetasOf(pkg) :
       \E i \in DOMAIN q : q[i] = m /\ \A j \in DOMAIN q : q[j] = m => j = i}

RecvPackage ==
  /\ pc = "select" /\ inbox # <<>>
  /\ LET pkg == Head(inbox)
     IN  /\ \/ /\ kind = "infra" /\ jobs' = NonEmpty(InfraJobs(pkg))
            \/ /\ kind = "group"
               /\ \E rules \in Orders(pkg) :
                    jobs' = NonEmpty(GroupJobs(pkg, rules))
         /\ taken' = IF Recording THEN taken \o pkg ELSE taken
  /\ inbox' = Tail(inbox) /\ pc' = Working(jobs', NoBatch)
  /\ UNCHANGED <<control, closed, drain, cur, handles, pending, open, mon,
                 files, faults, accepted, settled, made>>

\* The flush timer.
FlushTick ==
  /\ pc = "select" /\ \E s \in Sinks : pending[s] # <<>>
  /\ jobs' = FlushAll /\ pc' = "work"
  /\ UNCHANGED <<control, inbox, closed, drain, cur, handles, pending, open,
                 mon, files, faults, history, made>>

-----------------------------------------------------------------------------
(* SinkRuntime: segments, pending buffer, batches *)

\* Mutant: a segment with another meta is forgotten after the flush.
Segment_LostAfterFlush(s, recs) ==
  LET old == pending[s]
      all == old \o recs
  IN  IF recs = <<>> \/ (old # <<>> /\ BatchMeta(old[1]) # BatchMeta(recs[1]))
      THEN [batch |-> old, rest |-> <<>>, over |-> TRUE]
      ELSE IF Len(all) >= BatchSize
      THEN [batch |-> all, rest |-> <<>>, over |-> TRUE]
      ELSE [batch |-> <<>>, rest |-> all, over |-> TRUE]

\* send_record_segment and flush_pending_buffer, up to the write: the batch to
\* write now, what stays pending, and whether the job is over.
Segment(s, recs) ==
  LET old == pending[s]
      all == old \o recs
  IN  IF recs = <<>>
      THEN [batch |-> old, rest |-> <<>>, over |-> TRUE]
      ELSE IF old # <<>> /\ BatchMeta(old[1]) # BatchMeta(recs[1])
      THEN [batch |-> old, rest |-> <<>>, over |-> FALSE]
      ELSE IF Len(all) >= BatchSize
      THEN [batch |-> all, rest |-> <<>>, over |-> TRUE]
      ELSE [batch |-> <<>>, rest |-> all, over |-> TRUE]

NextJob ==
  /\ pc = "work" /\ cur = NoBatch /\ jobs # <<>>
  /\ LET j == Head(jobs)
         seg == Segment(j.sink, j.recs)
     IN  /\ pending' = [pending EXCEPT ![j.sink] = seg.rest]
         /\ cur' = IF seg.batch = <<>> THEN NoBatch ELSE Job(j.sink, seg.batch)
         /\ jobs' = IF seg.over THEN Tail(jobs) ELSE jobs
         /\ accepted' = IF seg.over /\ Recording THEN [accepted EXCEPT ![j.sink] = @ \o j.recs]
                                    ELSE accepted
  /\ pc' = Working(jobs', cur')
  /\ UNCHANGED <<control, inbox, closed, drain, handles, open, mon, files,
                 faults, taken, settled, made>>

\* The batch is over: every record of it is settled in the given way.
Settle(s, recs, how) ==
  /\ settled' = IF Recording
                THEN [settled EXCEPT ![s] = @ \o [i \in DOMAIN recs |-> [rec |-> recs[i], by |-> how]]]
                ELSE settled
  /\ cur' = NoBatch /\ pc' = Working(jobs, NoBatch)
  /\ UNCHANGED <<control, inbox, closed, drain, jobs, pending, mon, taken, accepted>>

\* RescueFileSink::stop and its Drop: the file loses the .lock suffix.
Finalize(fs, which) ==
  [f \in DOMAIN fs |-> IF f \in which THEN [fs[f] EXCEPT !.st = "dat"] ELSE fs[f]]

\* drop_batch_if_open: the breaker is open, the batch is not even tried.
SkipWrite ==
  /\ pc = "work" /\ cur # NoBatch
  /\ LET s == cur.sink IN
     /\ s \in Lossy /\ open[s]
     /\ Settle(s, cur.recs, "drop")
  /\ UNCHANGED <<handles, open, files, faults, made>>

Trying(s) == pc = "work" /\ cur # NoBatch /\ cur.sink = s /\ ~(s \in Lossy /\ open[s])

\* send_records_batch, Ok from the real sink: record_send_success finalizes
\* the retired rescue file and closes the breaker.
WriteReal(s) ==
  /\ Trying(s) /\ primary[s] = Real
  /\ files' = Finalize(files, {retired[s]})
  /\ retired' = [retired EXCEPT ![s] = NoFile]
  /\ open' = [open EXCEPT ![s] = FALSE]
  /\ made' = [made EXCEPT ![s] = 0]
  /\ Settle(s, cur.recs, "sink")
  /\ UNCHANGED <<hand, primary, backup, badQ, fixQ, mpc, mh, faults>>

\* The same from the rescue file; record_send_success runs here too.
WriteRescue(s) ==
  /\ Trying(s) /\ primary[s] # Real
  /\ files' = Finalize([files EXCEPT ![primary[s]].recs = @ \o cur.recs], {retired[s]})
  /\ retired' = [retired EXCEPT ![s] = NoFile]
  /\ open' = [open EXCEPT ![s] = FALSE]
  /\ Settle(s, cur.recs, "file")
  /\ UNCHANGED <<hand, primary, backup, badQ, fixQ, mpc, mh, faults, made>>

\* handle_send_error with drop_when_error: the whole batch is dropped.
WriteDropped(s) ==
  /\ Trying(s) /\ s \in Lossy /\ faults > 0
  /\ faults' = faults - 1
  /\ open' = [open EXCEPT ![s] = TRUE]
  /\ Settle(s, cur.recs, "drop")
  /\ UNCHANGED <<handles, files, made>>

\* A tolerated error: the batch is taken as consumed.
WriteTolerated(s) ==
  /\ Trying(s) /\ s \notin Lossy /\ primary[s] = Real /\ faults > 0
  /\ faults' = faults - 1
  /\ Settle(s, cur.recs, "tolerated")
  /\ UNCHANGED <<handles, open, files, made>>

\* The retry time of an open breaker has come: the next batch is a probe.
CooldownEnds(s) ==
  /\ open[s]
  /\ open' = [open EXCEPT ![s] = FALSE]
  /\ UNCHANGED <<control, inbox, closed, pc, drain, jobs, cur, handles, pending,
                 mon, files, faults, history, made>>

-----------------------------------------------------------------------------
(* Fail over and take back *)

\* Mutant: every failure opens a new rescue file.
Swap_NewFile(s) ==
  /\ Trying(s) /\ s \notin Lossy /\ ~backup[s] /\ faults > 0 /\ Len(files) < MaxFiles
  /\ faults' = faults - 1
  /\ backup' = [backup EXCEPT ![s] = TRUE]
  /\ retired' = [retired EXCEPT ![s] = NoFile]
  /\ hand' = s /\ pc' = "hand"
  /\ files' = Append(Finalize(files, {retired[s]}), [sink |-> s, recs |-> <<>>, st |-> "lock"])
  /\ primary' = [primary EXCEPT ![s] = Len(files) + 1]
  /\ made' = [made EXCEPT ![s] = @ + 1]
  /\ UNCHANGED <<control, inbox, closed, drain, jobs, cur, pending, open, badQ, fixQ,
                 mpc, mh, mon, history>>

\* Mutant: when the file is reused, the old primary is dropped.
Swap_LosesSink(s) ==
  /\ Trying(s) /\ s \notin Lossy /\ ~backup[s] /\ faults > 0
  /\ faults' = faults - 1
  /\ backup' = [backup EXCEPT ![s] = TRUE]
  /\ retired' = [retired EXCEPT ![s] = NoFile]
  /\ \/ /\ retired[s] # NoFile
        /\ primary' = [primary EXCEPT ![s] = retired[s]]
        /\ UNCHANGED <<files, made, hand, pc>>
     \/ /\ retired[s] = NoFile /\ Len(files) < MaxFiles
        /\ files' = Append(files, [sink |-> s, recs |-> <<>>, st |-> "lock"])
        /\ primary' = [primary EXCEPT ![s] = Len(files) + 1]
        /\ made' = [made EXCEPT ![s] = @ + 1]
        /\ hand' = s /\ pc' = "hand"
  /\ UNCHANGED <<control, inbox, closed, drain, jobs, cur, pending, open, badQ, fixQ,
                 mpc, mh, mon, history>>

\* FixRetry: swap_backsink reuses the file of this outage or opens a new one;
\* the real sink is now in the task's hand.
Swap(s) ==
  /\ Trying(s) /\ s \notin Lossy /\ ~backup[s] /\ faults > 0
  /\ faults' = faults - 1
  /\ backup' = [backup EXCEPT ![s] = TRUE]
  /\ retired' = [retired EXCEPT ![s] = NoFile]
  /\ hand' = s /\ pc' = "hand"
  /\ \/ /\ retired[s] # NoFile
        /\ primary' = [primary EXCEPT ![s] = retired[s]]
        /\ UNCHANGED <<files, made>>
     \/ /\ retired[s] = NoFile /\ Len(files) < MaxFiles
        /\ files' = Append(files, [sink |-> s, recs |-> <<>>, st |-> "lock"])
        /\ primary' = [primary EXCEPT ![s] = Len(files) + 1]
        /\ made' = [made EXCEPT ![s] = @ + 1]
  /\ UNCHANGED <<control, inbox, closed, drain, jobs, cur, pending, open, badQ, fixQ,
                 mpc, mh, mon, history>>

OpenFiles == {f \in DOMAIN files : files[f].st = "lock"}

\* The task's future ends, by `?` or at its end: what it owns is dropped, and
\* dropping a RescueFileSink flushes and renames its file.
Leave(how) ==
  /\ pc' = how /\ closed' = TRUE /\ inbox' = <<>> /\ jobs' = <<>> /\ cur' = NoBatch
  /\ pending' = [s \in Sinks |-> <<>>]
  /\ hand' = 0 /\ fixQ' = <<>>
  /\ files' = Finalize(files, OpenFiles)
  /\ UNCHANGED <<control, drain, primary, retired, backup, open, badQ, mpc, mh,
                 mon, history, made>>

\* Throw, an error on the rescue file, or a rescue file that cannot be opened.
\* The batch goes back to pending only to be dropped with the task.
WriteThrown(s) ==
  /\ Trying(s) /\ s \notin Lossy /\ faults > 0
  /\ faults' = faults - 1
  /\ Leave("failed")

\* use_back_sink after the swap: send_stat, then the queue.  A closed queue
\* drops the handle.
QueueBad ==
  /\ pc = "hand" /\ mon
  /\ \/ /\ mpc = "off" /\ UNCHANGED badQ
     \/ /\ mpc # "off" /\ Len(badQ) < QueueCap
        /\ badQ' = Append(badQ, hand)
  /\ hand' = 0 /\ pc' = "work"
  /\ UNCHANGED <<control, inbox, closed, drain, jobs, cur, primary, retired, backup,
                 pending, open, fixQ, mpc, mh, mon, files, faults, history, made>>

\* send_stat to a closed monitor channel, in use_back_sink, at the statistics
\* tick and before proc_end.
StatFails ==
  /\ pc \in {"hand", "select", "ending"} /\ ~mon
  /\ Leave("failed") /\ UNCHANGED faults

\* Mutant: the rescue file is finalized as soon as the sink is back.
TakeBack_ClosesFile ==
  /\ pc = "select" /\ drain = "no" /\ fixQ # <<>> /\ mon
  /\ LET s == Head(fixQ) IN
     /\ backup[s]
     /\ primary' = [primary EXCEPT ![s] = Real]
     /\ files' = Finalize(files, {primary[s]})
     /\ backup' = [backup EXCEPT ![s] = FALSE]
     /\ open' = [open EXCEPT ![s] = FALSE]
  /\ fixQ' = Tail(fixQ)
  /\ UNCHANGED <<control, inbox, closed, pc, drain, jobs, cur, hand, retired, pending,
                 badQ, mpc, mh, mon, faults, history, made>>

\* proc_fix_ex and recover_sink: a handle is taken back only in rescue state;
\* the rescue file stays open as the retired one.
TakeBack ==
  /\ pc = "select" /\ drain = "no" /\ fixQ # <<>> /\ mon
  /\ LET s == Head(fixQ)
     IN  IF backup[s]
         THEN /\ primary' = [primary EXCEPT ![s] = Real]
              /\ retired' = [retired EXCEPT ![s] = primary[s]]
              /\ files' = Finalize(files, {retired[s]})
              /\ backup' = [backup EXCEPT ![s] = FALSE]
              /\ open' = [open EXCEPT ![s] = FALSE]
         ELSE UNCHANGED <<primary, retired, files, backup, open>>
  /\ fixQ' = Tail(fixQ)
  /\ UNCHANGED <<control, inbox, closed, pc, drain, jobs, cur, hand, pending, badQ, mpc,
                 mh, mon, faults, history, made>>

-----------------------------------------------------------------------------
(* Stop: drain the channel, flush, stop the backends *)

StopTask ==
  /\ pc = "select" /\ drain = "no"
  /\ drain' = "draining" /\ closed' = TRUE
  /\ UNCHANGED <<control, inbox, pc, jobs, cur, handles, pending, open, mon,
                 files, faults, history, made>>

ChannelDrained ==
  /\ pc = "select" /\ drain = "draining" /\ inbox = <<>>
  /\ jobs' = FlushAll /\ drain' = "final"
  /\ pc' = IF FlushAll = <<>> THEN "ending" ELSE "work"
  /\ UNCHANGED <<control, inbox, closed, cur, handles, pending, open, mon,
                 files, faults, history, made>>

\* proc_end: stop_backends of every sink.  An error of one skips the others,
\* which are then dropped.
StopBackends ==
  /\ pc = "ending" /\ mon
  /\ Leave("done") /\ UNCHANGED faults

-----------------------------------------------------------------------------
(* ActMaintainer::proc *)

task == <<control, inbox, closed, pc, drain, jobs, cur, hand, primary, retired, backup,
          pending, open, mon, files, faults, history, made>>

\* Mutant: the handle is looked at but not taken off the queue.
MaintTake_Peek ==
  /\ mpc = "poll" /\ badQ # <<>>
  /\ mh' = Head(badQ) /\ mpc' = "hold"
  /\ UNCHANGED <<task, badQ, fixQ>>

MaintTake ==
  /\ mpc = "poll" /\ badQ # <<>>
  /\ mh' = Head(badQ) /\ badQ' = Tail(badQ) /\ mpc' = "hold"
  /\ UNCHANGED <<task, fixQ>>

ReconnectOk == mpc = "hold" /\ mpc' = "fixed" /\ UNCHANGED <<task, badQ, fixQ, mh>>

ReconnectErr == mpc = "hold" /\ mpc' = "bad" /\ UNCHANGED <<task, badQ, fixQ, mh>>

TaskOver == pc \in {"done", "failed", "off"}

MaintSendFix ==
  /\ mpc = "fixed"
  /\ \/ TaskOver /\ UNCHANGED fixQ
     \/ ~TaskOver /\ Len(fixQ) < QueueCap /\ fixQ' = Append(fixQ, mh)
  /\ mpc' = "poll" /\ mh' = 0
  /\ UNCHANGED <<task, badQ>>

\* Mutant: a sink that could not be reconnected is not tried again.
MaintSendBad_GivesUp ==
  /\ mpc = "bad"
  /\ mpc' = "poll" /\ mh' = 0
  /\ UNCHANGED <<task, badQ, fixQ>>

MaintSendBad ==
  /\ mpc = "bad" /\ Len(badQ) < QueueCap
  /\ badQ' = Append(badQ, mh)
  /\ mpc' = "poll" /\ mh' = 0
  /\ UNCHANGED <<task, fixQ>>

\* is_down: Stop has come; the queue of bad sinks goes with the task.
MaintEnds ==
  /\ mpc = "poll"
  /\ mpc' = "off" /\ badQ' = <<>>
  /\ UNCHANGED <<task, fixQ, mh>>

-----------------------------------------------------------------------------
(* The surroundings of the engine's group *)

\* A parser sends the next records as one package.
Feed ==
  /\ phase = "engine" /\ ~closed /\ Len(inbox) < InboxCap
  /\ \E n \in 1..2 :
       /\ fed + n <= NRec
       /\ inbox' = Append(inbox, [i \in 1..n |-> fed + i])
       /\ fed' = fed + n
  /\ UNCHANGED <<kind, phase, closed, pc, drain, jobs, cur, handles, pending, open,
                 mon, files, faults, history, made>>

\* The monitor task dies; from then on sending statistics fails.
MonitorDies ==
  /\ mon /\ ~TaskOver /\ faults > 0
  /\ mon' = FALSE /\ faults' = faults - 1
  /\ UNCHANGED <<control, inbox, closed, pc, drain, jobs, cur, handles, pending, open,
                 files, history, made>>

GroupTask ==
  \/ RecvPackage \/ NextJob \/ SkipWrite \/ QueueBad \/ StatFails
  \/ TakeBack \/ ChannelDrained \/ StopBackends \/ FlushTick
  \/ \E s \in Sinks : WriteReal(s) \/ WriteRescue(s)

WriteError ==
  \E s \in Sinks : WriteDropped(s) \/ WriteTolerated(s) \/ Swap(s) \/ WriteThrown(s)

Maintainer ==
  \/ MaintTake \/ ReconnectOk \/ ReconnectErr \/ MaintSendFix \/ MaintSendBad

=============================================================================

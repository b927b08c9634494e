-------------------------- MODULE RescueRecordProofs --------------------------
(*****************************************************************************)
(* Proofs about RescueCycle: what becomes of the records.  The types, the    *)
(* removal of rescue files, the order in which a sink settles what it was    *)
(* given, that it is given what it is due, and the room in the queues.       *)
(*****************************************************************************)
EXTENDS RescueCycleProofs

-----------------------------------------------------------------------------
(* The jobs and the writes keep the types *)

\* Where the task waits, no batch and no job is left; at its end, the last
\* flush has reached every sink with something pending.
WaitsIdle ==
  /\ pc \in {"select", "ending", "done", "failed", "off"} => jobs = <<>> /\ cur = NoBatch
  /\ pc = "select" => drain # "final"
  /\ pc = "ending" => drain = "final"
  /\ (drain = "final" /\ ~TaskOver) =>
        /\ \A i \in DOMAIN jobs : jobs[i].recs = <<>>
        /\ \A s \in Sinks : pending[s] # <<>> => \E i \in DOMAIN jobs : jobs[i].sink = s
  /\ TaskOver => \A s \in Sinks : pending[s] = <<>>

\* A package is taken apart.
LEMMA RecvPackageWork == ASSUME WorkType, RecvPackage PROVE WorkType'
<1> DEFINE pkg == Head(inbox)
<1>1. inbox \in Seq(Seq(Records)) /\ inbox # <<>> /\ inbox' = Tail(inbox) /\ Len(inbox) <= InboxCap
  BY DEF WorkType, RecvPackage
<1>2. pkg \in Seq(Records)
  BY <1>1
<1>3. inbox' \in Seq(Seq(Records)) /\ Len(inbox') <= InboxCap
  <2>1. Len(inbox) \in Nat /\ Len(inbox') = Len(inbox) - 1 /\ inbox' \in Seq(Seq(Records))
    BY <1>1
  <2> QED
    BY <1>1, <2>1, GroupAssumption
<1> HIDE DEF pkg
<1>4. jobs' \in Seq(Jobs)
  <2>1. CASE jobs' = NonEmpty(InfraJobs(pkg))
    BY Zenon, <1>2, <2>1, InfraJobsTyped, NonEmptyTyped
  <2>2. CASE \E rules \in Orders(pkg) : jobs' = NonEmpty(GroupJobs(pkg, rules))
    BY Zenon, <1>2, <2>2, OrdersOnce, GroupJobsTyped, NonEmptyTyped
  <2> QED
    BY Zenon, <2>1, <2>2 DEF RecvPackage, pkg
<1>5. UNCHANGED <<phase, fed, drain, cur, pending, accepted, settled>>
  BY Zenon DEF RecvPackage, control
<1> QED
  BY Zenon, <1>3, <1>4, <1>5 DEF WorkType

\* The flush timer and the last flush.
LEMMA FlushWork == ASSUME WorkType, FlushTick \/ ChannelDrained PROVE WorkType'
<1>1. /\ UNCHANGED <<phase, fed, inbox, cur, pending, accepted, settled>>
      /\ jobs' = FlushAll /\ drain' \in {drain, "final"}
  BY Zenon DEF FlushTick, ChannelDrained, control, history
<1>2. jobs' \in Seq(Jobs) /\ drain' \in {"no", "draining", "final"}
  BY Zenon, <1>1, FlushAllIs DEF WorkType
<1> QED
  BY Zenon, <1>1, <1>2 DEF WorkType

\* What send_record_segment makes of the pending buffer `old` and the records
\* `recs`: the batch b to write and the rest r; in all but one case the job is
\* over then.
Cut(old, recs, b, r, over) ==
  \/ recs = <<>> /\ b = old /\ r = <<>> /\ over
  \/ recs # <<>> /\ b = old /\ r = <<>> /\ ~over
  \/ recs # <<>> /\ b = old \o recs /\ r = <<>> /\ over
  \/ recs # <<>> /\ b = <<>> /\ r = old \o recs /\ over

\* One call of it.
CutStep(s, recs, b, r, over) ==
  /\ Cut(pending[s], recs, b, r, over)
  /\ pending' = [pending EXCEPT ![s] = r]
  /\ cur' = IF b = <<>> THEN NoBatch ELSE Job(s, b)
  /\ jobs' = IF over THEN Tail(jobs) ELSE jobs
  /\ accepted' = IF over /\ Recording THEN [accepted EXCEPT ![s] = @ \o recs] ELSE accepted

\* NextJob is such a call, for the sink and the records of the first job.
LEMMA NextJobCuts ==
  ASSUME WorkType, NextJob
  PROVE  /\ Head(jobs).sink \in Sinks /\ Head(jobs).recs \in Seq(Records)
         /\ \E b, r \in Seq(Records), over \in BOOLEAN :
              CutStep(Head(jobs).sink, Head(jobs).recs, b, r, over)
<1> DEFINE s == Head(jobs).sink
           recs == Head(jobs).recs
           seg == Segment(s, recs)
           old == pending[s]
<1>1. Head(jobs) \in Jobs
  <2>1. jobs \in Seq(Jobs) /\ jobs # <<>>
    BY Zenon DEF WorkType, NextJob
  <2>2. \A q \in Seq(Jobs) : q # <<>> => Head(q) \in Jobs
    OBVIOUS
  <2> QED
    BY Zenon, <2>1, <2>2
<1>2. s \in Sinks /\ recs \in Seq(Records)
  BY <1>1 DEF Jobs
<1> HIDE DEF s, recs
<1>3. old \in Seq(Records) /\ <<>> \in Seq(Records) /\ old \o recs \in Seq(Records)
  <2>1. old \in Seq(Records)
    BY Zenon, <1>2 DEF WorkType
  <2> HIDE DEF old
  <2> QED
    BY <1>2, <2>1
<1>4. \E b, r \in Seq(Records), over \in BOOLEAN :
        seg = [batch |-> b, rest |-> r, over |-> over] /\ Cut(old, recs, b, r, over)
  <2>1. CASE recs = <<>>
    <3>1. seg = [batch |-> old, rest |-> <<>>, over |-> TRUE]
      BY Zenon, <2>1 DEF Segment
    <3> QED
      BY Zenon, <1>3, <2>1, <3>1 DEF Cut
  <2>2. CASE recs # <<>>
    <3>1. \/ seg = [batch |-> old, rest |-> <<>>, over |-> FALSE]
          \/ seg = [batch |-> old \o recs, rest |-> <<>>, over |-> TRUE]
          \/ seg = [batch |-> <<>>, rest |-> old \o recs, over |-> TRUE]
      BY Zenon, <2>2 DEF Segment
    <3> QED
      BY Zenon, <1>3, <2>2, <3>1 DEF Cut
  <2> QED
    BY Zenon, <2>1, <2>2
<1>5. PICK b \in Seq(Records), r \in Seq(Records), over \in BOOLEAN :
        seg = [batch |-> b, rest |-> r, over |-> over] /\ Cut(old, recs, b, r, over)
  BY Zenon, <1>4
<1> HIDE DEF seg, old
<1>6. seg.batch = b /\ seg.rest = r /\ seg.over = over
  BY Zenon, <1>5
<1>7. /\ pending' = [pending EXCEPT ![s] = seg.rest]
      /\ cur' = IF seg.batch = <<>> THEN NoBatch ELSE Job(s, seg.batch)
      /\ jobs' = IF seg.over THEN Tail(jobs) ELSE jobs
      /\ accepted' = IF seg.over /\ Recording THEN [accepted EXCEPT ![s] = @ \o recs] ELSE accepted
  BY Zenon DEF NextJob, seg, s, recs
<1>8. CutStep(s, recs, b, r, over)
  BY Zenon, <1>5, <1>6, <1>7 DEF CutStep, old
<1> QED
  BY Zenon, <1>2, <1>8 DEF s, recs

\* It keeps the types.
LEMMA NextJobWork == ASSUME WorkType, NextJob PROVE WorkType'
<1>1. PICK s \in Sinks, recs \in Seq(Records), b \in Seq(Records), r \in Seq(Records),
           over \in BOOLEAN : CutStep(s, recs, b, r, over)
  BY Zenon, NextJobCuts
<1>2. UNCHANGED <<phase, fed, inbox, drain, settled>> /\ jobs # <<>>
  BY Zenon DEF NextJob, control
<1>3. pending' \in [Sinks -> Seq(Records)]
  BY Zenon, <1>1 DEF WorkType, CutStep
<1>4. cur' \in Batches \union {NoBatch}
  <2>1. b # <<>> => Job(s, b) \in Batches
    BY DEF Job, Batches
  <2> QED
    BY Zenon, <1>1, <2>1 DEF CutStep
<1>5. jobs' \in Seq(Jobs)
  <2>1. jobs \in Seq(Jobs) /\ Tail(jobs) \in Seq(Jobs)
    BY <1>2 DEF WorkType
  <2> QED
    BY Zenon, <1>1, <2>1 DEF CutStep
<1>6. accepted' \in [Sinks -> Seq(Records)]
  <2>1. accepted[s] \in Seq(Records)
    BY Zenon DEF WorkType
  <2>2. accepted[s] \o recs \in Seq(Records)
    BY <2>1
  <2>3. accepted' = accepted \/ accepted' = [accepted EXCEPT ![s] = accepted[s] \o recs]
    BY Zenon, <1>1 DEF CutStep
  <2> QED
    BY Zenon, <2>2, <2>3 DEF WorkType
<1> QED
  BY Zenon, <1>2, <1>3, <1>4, <1>5, <1>6 DEF WorkType

\* The fates of a batch, in the order of its records.
LEMMA FatesTyped ==
  ASSUME NEW recs \in Seq(Records), NEW how \in Fates
  PROVE  /\ [i \in DOMAIN recs |-> [rec |-> recs[i], by |-> how]] \in Seq(Fate)
         /\ Recs([i \in DOMAIN recs |-> [rec |-> recs[i], by |-> how]]) = recs
<1> DEFINE q == [i \in DOMAIN recs |-> [rec |-> recs[i], by |-> how]]
<1>1. Len(recs) \in Nat /\ DOMAIN recs = 1 .. Len(recs) /\ \A i \in 1 .. Len(recs) : recs[i] \in Records
  OBVIOUS
<1>2. \A i \in 1 .. Len(recs) : q[i] \in Fate /\ q[i].rec = recs[i]
  BY <1>1 DEF Fate
<1>3. q = [i \in 1 .. Len(recs) |-> q[i]] /\ DOMAIN q = DOMAIN recs
  BY Zenon, <1>1
<1> HIDE DEF q
<1>4. q \in Seq(Fate)
  BY <1>1, <1>2, <1>3
<1>5. Recs(q) = [i \in 1 .. Len(recs) |-> recs[i]]
  BY Zenon, <1>1, <1>2, <1>3 DEF Recs
<1>6. Recs(q) = recs
  BY <1>1, <1>5
<1> QED
  BY Zenon, <1>4, <1>6 DEF q

\* A batch is over.
LEMMA SettleWork ==
  ASSUME WorkType, cur # NoBatch, NEW how \in Fates, Settle(cur.sink, cur.recs, how)
  PROVE  WorkType'
<1>1. cur.sink \in Sinks /\ cur.recs \in Seq(Records)
  BY Zenon, BatchIsNotNone DEF WorkType
<1> DEFINE q == [i \in DOMAIN cur.recs |-> [rec |-> cur.recs[i], by |-> how]]
<1>2. q \in Seq(Fate)
  BY Zenon, <1>1, FatesTyped
<1> HIDE DEF q
<1>3. settled[cur.sink] \in Seq(Fate)
  BY Zenon, <1>1 DEF WorkType
<1>4. settled[cur.sink] \o q \in Seq(Fate)
  BY <1>2, <1>3
<1>5. /\ UNCHANGED <<phase, fed, inbox, drain, jobs, pending, accepted>> /\ cur' = NoBatch
      /\ settled' = settled \/ settled' = [settled EXCEPT ![cur.sink] = settled[cur.sink] \o q]
  BY Zenon DEF Settle, control, q
<1>6. settled' \in [Sinks -> Seq(Fate)]
  BY Zenon, <1>1, <1>4, <1>5 DEF WorkType
<1> QED
  BY Zenon, <1>5, <1>6 DEF WorkType

-----------------------------------------------------------------------------
(* Every step keeps the types *)

\* The task ends.
LEMMA LeaveWork == ASSUME WorkType, NEW how, Leave(how) PROVE WorkType'
<1>1. /\ UNCHANGED <<phase, fed, drain, accepted, settled>>
      /\ inbox' = <<>> /\ jobs' = <<>> /\ cur' = NoBatch /\ pending' = [s \in Sinks |-> <<>>]
  BY Zenon DEF Leave, control, history
<1>2. inbox' \in Seq(Seq(Records)) /\ jobs' \in Seq(Jobs) /\ Len(inbox') <= InboxCap
  BY <1>1, GroupAssumption
<1>3. <<>> \in Seq(Records)
  OBVIOUS
<1>4. pending' \in [Sinks -> Seq(Records)]
  BY Zenon, <1>1, <1>3
<1> QED
  BY Zenon, <1>1, <1>2, <1>4 DEF WorkType

\* A parser sends records.
LEMMA FeedWork == ASSUME WorkType, Feed PROVE WorkType'
<1>1. PICK n \in 1 .. 2 : /\ fed + n <= NRec
                          /\ inbox' = Append(inbox, [i \in 1 .. n |-> fed + i])
                          /\ fed' = fed + n
  BY Zenon DEF Feed
<1> DEFINE pkg == [i \in 1 .. n |-> fed + i]
<1>2. fed \in Nat /\ fed' \in 0 .. NRec
  BY <1>1, GroupAssumption DEF WorkType
<1>3. pkg \in Seq(Records)
  BY <1>1, <1>2, GroupAssumption DEF Records
<1> HIDE DEF pkg
<1>4. inbox \in Seq(Seq(Records)) /\ inbox' = Append(inbox, pkg) /\ Len(inbox) < InboxCap
  BY Zenon, <1>1 DEF WorkType, Feed, pkg
<1>5. inbox' \in Seq(Seq(Records)) /\ Len(inbox') = Len(inbox) + 1 /\ Len(inbox) \in Nat
  BY <1>3, <1>4
<1>6. Len(inbox') <= InboxCap
  BY <1>4, <1>5, GroupAssumption
<1>7. UNCHANGED <<phase, drain, jobs, cur, pending, accepted, settled>>
  BY Zenon DEF Feed, history
<1> QED
  BY Zenon, <1>2, <1>5, <1>6, <1>7 DEF WorkType

\* A process starts or dies.
LEMMA FreshWork ==
  ASSUME NEW on, FreshMemory(on), phase' \in {"rescue", "down"}, fed' = NRec
  PROVE  WorkType'
<1>1. /\ inbox' = <<>> /\ drain' = "no" /\ jobs' = <<>> /\ cur' = NoBatch
      /\ pending' = [s \in Sinks |-> <<>>]
      /\ accepted' = [s \in Sinks |-> <<>>] /\ settled' = [s \in Sinks |-> <<>>]
  BY Zenon DEF FreshMemory
<1>2. /\ inbox' \in Seq(Seq(Records)) /\ jobs' \in Seq(Jobs) /\ Len(inbox') <= InboxCap
      /\ fed' \in 0 .. NRec
  BY <1>1, GroupAssumption
<1>3. <<>> \in Seq(Records) /\ <<>> \in Seq(Fate)
  OBVIOUS
<1>4. /\ pending' \in [Sinks -> Seq(Records)] /\ accepted' \in [Sinks -> Seq(Records)]
      /\ settled' \in [Sinks -> Seq(Fate)]
  BY Zenon, <1>1, <1>3
<1> QED
  BY Zenon, <1>1, <1>2, <1>4 DEF WorkType

\* A write that ends a batch settles it, in one of four ways.
LEMMA WriteSettles ==
  ASSUME \/ SkipWrite
         \/ \E s \in Sinks : WriteReal(s) \/ WriteRescue(s) \/ WriteDropped(s) \/ WriteTolerated(s)
  PROVE  pc = "work" /\ cur # NoBatch /\ \E how \in Fates : Settle(cur.sink, cur.recs, how)
<1>1. {"sink", "file", "drop", "tolerated"} = Fates
  BY DEF Fates
<1>2. CASE SkipWrite
  BY Zenon, <1>1, <1>2 DEF SkipWrite
<1>3. ASSUME NEW s \in Sinks, WriteReal(s) \/ WriteRescue(s) \/ WriteDropped(s) \/ WriteTolerated(s)
      PROVE  pc = "work" /\ cur # NoBatch /\ \E how \in Fates : Settle(cur.sink, cur.recs, how)
  BY Zenon, <1>1, <1>3 DEF WriteReal, WriteRescue, WriteDropped, WriteTolerated, Trying
<1> QED
  BY Zenon, <1>2, <1>3

\* Every step of the group.
LEMMA GroupWork == ASSUME WorkType, GroupTask \/ WriteError PROVE WorkType'
<1>1. CASE RecvPackage \/ NextJob \/ FlushTick \/ ChannelDrained
  BY Zenon, <1>1, RecvPackageWork, NextJobWork, FlushWork
<1>2. CASE \/ SkipWrite
           \/ \E s \in Sinks : WriteReal(s) \/ WriteRescue(s) \/ WriteDropped(s) \/ WriteTolerated(s)
  BY Zenon, <1>2, WriteSettles, SettleWork
<1>3. CASE StatFails \/ StopBackends \/ \E s \in Sinks : WriteThrown(s)
  BY Zenon, <1>3, LeaveWork DEF StatFails, StopBackends, WriteThrown
<1>4. CASE QueueBad \/ TakeBack \/ \E s \in Sinks : Swap(s)
  <2>1. UNCHANGED work
    BY Zenon, <1>4 DEF QueueBad, TakeBack, Swap, control, history, work
  <2> QED
    BY Zenon, <2>1, WorkKept
<1> QED
  BY Zenon, <1>1, <1>2, <1>3, <1>4 DEF GroupTask, WriteError

\* The files, likewise.
LEMMA GroupFiles ==
  ASSUME FileType, WorkType, Inv, GroupTask \/ WriteError, UNCHANGED recovery
  PROVE  FileType' /\ FilesGrow
<1>1. CASE \/ RecvPackage \/ NextJob \/ FlushTick \/ ChannelDrained \/ SkipWrite \/ QueueBad
           \/ \E s \in Sinks : WriteDropped(s) \/ WriteTolerated(s)
  <2>1. UNCHANGED <<files, primary, retired, rpc, ckpt, rfile, rpos, sent>>
    BY Zenon, <1>1 DEF RecvPackage, NextJob, FlushTick, ChannelDrained, SkipWrite, QueueBad,
         WriteDropped, WriteTolerated, handles, recovery
  <2> QED
    BY Zenon, <2>1, SameFilesType
<1>2. CASE StatFails \/ StopBackends \/ \E s \in Sinks : WriteThrown(s)
  BY Zenon, <1>2, LeaveFiles DEF StatFails, StopBackends, WriteThrown
<1>3. CASE TakeBack \/ \E s \in Sinks : WriteReal(s) \/ WriteRescue(s) \/ Swap(s)
  BY Zenon, <1>3, TakeBackFiles, WriteRealFiles, WriteRescueFiles, SwapFiles
<1> QED
  BY Zenon, <1>1, <1>2, <1>3 DEF GroupTask, WriteError

\* The steps that touch neither the task's work nor the files, but for Stop
\* and the parsers.
Aside ==
  \/ InGroup(Maintainer) \/ InGroup(\E s \in Sinks : CooldownEnds(s)) \/ InGroup(MonitorDies)
  \/ InGroup(MayStopMaintainer /\ MaintEnds) \/ Interrupt \/ UNCHANGED vars

\* They leave all of this alone.
LEMMA AsideKeeps ==
  Aside => UNCHANGED work /\ UNCHANGED <<pc, files, primary, retired, rpc, ckpt, rfile, rpos, sent>>
<1>1. CASE InGroup(Maintainer) \/ InGroup(MayStopMaintainer /\ MaintEnds)
  BY Zenon, <1>1 DEF InGroup, Maintainer, MaintTake, ReconnectOk, ReconnectErr, MaintSendFix,
       MaintSendBad, MaintEnds, task, control, history, work, recovery
<1>2. CASE InGroup(\E s \in Sinks : CooldownEnds(s)) \/ InGroup(MonitorDies)
  BY Zenon, <1>2 DEF InGroup, CooldownEnds, MonitorDies, control, history, handles, work, recovery
<1>3. CASE Interrupt \/ UNCHANGED vars
  BY Zenon, <1>3 DEF Interrupt, R!Signal, vars, group, groupRest, history, handles, work, recovery
<1> QED
  BY Zenon, <1>1, <1>2, <1>3 DEF Aside

-----------------------------------------------------------------------------
(* Where the task waits, nothing is left *)

\* Only these parts of the task matter; from "work" to "hand" and back, and
\* while the task lives, it makes no difference where it is.
LEMMA IdleKept ==
  ASSUME WaitsIdle, UNCHANGED <<drain, jobs, cur, pending>>,
         pc' = pc \/ (pc' \in {"work", "hand"} /\ pc \in {"work", "hand"})
  PROVE  WaitsIdle'
<1>1. CASE pc' = pc
  BY Zenon, <1>1 DEF WaitsIdle, TaskOver
<1>2. CASE pc' \in {"work", "hand"} /\ pc \in {"work", "hand"}
  <2>1. ~TaskOver /\ ~TaskOver' /\ pc' \notin {"select", "ending", "done", "failed", "off"}
    BY <1>2 DEF TaskOver
  <2>2. drain = "final" =>
          /\ \A i \in DOMAIN jobs : jobs[i].recs = <<>>
          /\ \A s \in Sinks : pending[s] # <<>> => \E i \in DOMAIN jobs : jobs[i].sink = s
    BY Zenon, <2>1 DEF WaitsIdle
  <2>3. pc' # "select" /\ pc' # "ending"
    BY <1>2
  <2> QED
    BY Zenon, <2>1, <2>2, <2>3 DEF WaitsIdle
<1> QED
  BY Zenon, <1>1, <1>2

\* A handler that has nothing left to do lets the task wait.
LEMMA WorkingWaits ==
  ASSUME NEW js, NEW batch, pc' = Working(js, batch)
  PROVE  /\ pc' \in {"work", "ending", "select"} /\ ~TaskOver'
         /\ pc' # "work" => js = <<>> /\ batch = NoBatch
         /\ pc' = "ending" => drain = "final"
         /\ pc' = "select" => drain # "final"
  BY DEF Working, TaskOver

\* So after such a handler, what the last flush still has to do is all that
\* matters.
LEMMA WorkingIdle ==
  ASSUME pc' = Working(jobs', cur'), drain' = drain,
         drain = "final" =>
           /\ \A i \in DOMAIN jobs' : jobs'[i].recs = <<>>
           /\ \A s \in Sinks : pending'[s] # <<>> => \E i \in DOMAIN jobs' : jobs'[i].sink = s
  PROVE  WaitsIdle'
<1>1. /\ ~TaskOver' /\ pc' # "work" => jobs' = <<>> /\ cur' = NoBatch
      /\ pc' = "ending" => drain = "final"
      /\ pc' = "select" => drain # "final"
  BY Zenon, WorkingWaits
<1>2. pc' \in {"select", "ending", "done", "failed", "off"} => pc' # "work"
  OBVIOUS
<1> QED
  BY Zenon, <1>1, <1>2, WorkingWaits DEF WaitsIdle

\* A job of the last flush empties the buffer of its sink.
LEMMA NextJobIdle == ASSUME WorkType, WaitsIdle, NextJob PROVE WaitsIdle'
<1> DEFINE j == Head(jobs)
<1>1. PICK b \in Seq(Records), r \in Seq(Records), over \in BOOLEAN :
        CutStep(j.sink, j.recs, b, r, over)
  BY Zenon, NextJobCuts
<1>2. j.sink \in Sinks /\ jobs \in Seq(Jobs) /\ jobs # <<>>
  BY Zenon, NextJobCuts DEF WorkType, NextJob
<1>3. pc = "work" /\ pc' = Working(jobs', cur') /\ drain' = drain
  BY Zenon DEF NextJob
<1>4. ASSUME drain = "final"
      PROVE  /\ \A i \in DOMAIN jobs' : jobs'[i].recs = <<>>
             /\ \A s \in Sinks : pending'[s] # <<>> => \E i \in DOMAIN jobs' : jobs'[i].sink = s
  <2>1. /\ \A i \in DOMAIN jobs : jobs[i].recs = <<>>
        /\ \A s \in Sinks : pending[s] # <<>> => \E i \in DOMAIN jobs : jobs[i].sink = s
    <3>1. ~TaskOver
      BY <1>3 DEF TaskOver
    <3> QED
      BY Zenon, <1>4, <3>1 DEF WaitsIdle
  <2>2. /\ Len(jobs) \in Nat /\ DOMAIN jobs = 1 .. Len(jobs) /\ 1 \in DOMAIN jobs /\ j = jobs[1]
        /\ DOMAIN Tail(jobs) = 1 .. (Len(jobs) - 1)
        /\ \A i \in 1 .. (Len(jobs) - 1) : Tail(jobs)[i] = jobs[i + 1] /\ i + 1 \in DOMAIN jobs
    BY <1>2
  <2> HIDE DEF j
  <2>3. j.recs = <<>>
    BY Zenon, <2>1, <2>2
  <2>4. over /\ r = <<>>
    BY Zenon, <1>1, <2>3 DEF CutStep, Cut
  <2>5. jobs' = Tail(jobs) /\ pending' = [pending EXCEPT ![j.sink] = <<>>]
    BY Zenon, <1>1, <2>4 DEF CutStep
  <2>6. ASSUME NEW i \in DOMAIN jobs' PROVE jobs'[i].recs = <<>>
    <3>1. i \in 1 .. (Len(jobs) - 1)
      BY Zenon, <2>2, <2>5
    <3>2. jobs'[i] = jobs[i + 1] /\ i + 1 \in DOMAIN jobs
      BY Zenon, <2>2, <2>5, <3>1
    <3> QED
      BY Zenon, <2>1, <3>2
  <2>7. ASSUME NEW s \in Sinks, pending'[s] # <<>> PROVE \E i \in DOMAIN jobs' : jobs'[i].sink = s
    <3>1. s # j.sink /\ pending[s] # <<>>
      BY Zenon, <1>2, <2>5, <2>7 DEF WorkType
    <3>2. PICK i \in DOMAIN jobs : jobs[i].sink = s
      BY Zenon, <2>1, <3>1
    <3>3. i # 1
      BY Zenon, <2>2, <3>1, <3>2
    <3>4. i - 1 \in 1 .. (Len(jobs) - 1) /\ (i - 1) + 1 = i
      BY <2>2, <3>2, <3>3
    <3>5. Tail(jobs)[i - 1] = jobs[i]
      BY Zenon, <2>2, <3>4
    <3> QED
      BY Zenon, <2>2, <2>5, <3>2, <3>4, <3>5
  <2> QED
    BY Zenon, <2>6, <2>7
<1> QED
  BY Zenon, <1>3, <1>4, WorkingIdle

\* Every step of the group task.
LEMMA GroupIdle == ASSUME WorkType, WaitsIdle, GroupTask \/ WriteError PROVE WaitsIdle'
<1>1. CASE RecvPackage
  <2>1. pc = "select" /\ drain # "final" /\ cur = NoBatch
    BY <1>1 DEF RecvPackage, WaitsIdle
  <2>2. pc' = Working(jobs', cur') /\ drain' = drain
    BY Zenon, <1>1, <2>1 DEF RecvPackage
  <2> QED
    BY Zenon, <2>1, <2>2, WorkingIdle
<1>2. CASE NextJob
  BY Zenon, <1>2, NextJobIdle
<1>3. CASE FlushTick
  <2>1. pc = "select" /\ drain # "final" /\ pc' = "work" /\ drain' = drain
    BY Zenon, <1>3 DEF FlushTick, WaitsIdle
  <2> QED
    BY <2>1 DEF WaitsIdle, TaskOver
<1>4. CASE ChannelDrained
  <2>1. /\ cur' = NoBatch /\ pending' = pending /\ jobs' = FlushAll /\ drain' = "final"
        /\ pc' = IF FlushAll = <<>> THEN "ending" ELSE "work"
    BY <1>4 DEF ChannelDrained, WaitsIdle
  <2>2. /\ pc' \in {"ending", "work"} /\ ~TaskOver' /\ pc' # "select"
        /\ pc' \in {"select", "ending", "done", "failed", "off"} => jobs' = <<>>
    BY <2>1 DEF TaskOver
  <2> QED
    BY Zenon, <2>1, <2>2, FlushAllIs DEF WaitsIdle
<1>5. CASE \/ SkipWrite
           \/ \E s \in Sinks : WriteReal(s) \/ WriteRescue(s) \/ WriteDropped(s) \/ WriteTolerated(s)
  <2>1. /\ UNCHANGED <<drain, jobs, pending>> /\ cur' = NoBatch
        /\ pc' = Working(jobs, NoBatch) /\ pc = "work"
    BY Zenon, <1>5, WriteSettles DEF Settle
  <2>2. ~TaskOver
    BY <2>1 DEF TaskOver
  <2>3. drain = "final" =>
          /\ \A i \in DOMAIN jobs' : jobs'[i].recs = <<>>
          /\ \A s \in Sinks : pending'[s] # <<>> => \E i \in DOMAIN jobs' : jobs'[i].sink = s
    BY Zenon, <2>1, <2>2 DEF WaitsIdle
  <2> QED
    BY Zenon, <2>1, <2>3, WorkingIdle
<1>6. CASE StatFails \/ StopBackends \/ \E s \in Sinks : WriteThrown(s)
  <2>1. /\ pc' \in {"done", "failed"} /\ jobs' = <<>> /\ cur' = NoBatch
        /\ pending' = [s \in Sinks |-> <<>>]
    BY Zenon, <1>6 DEF StatFails, StopBackends, WriteThrown, Leave
  <2>2. TaskOver' /\ pc' # "select" /\ pc' # "ending"
    BY <2>1 DEF TaskOver
  <2> QED
    BY Zenon, <2>1, <2>2 DEF WaitsIdle
<1>7. CASE QueueBad \/ TakeBack \/ \E s \in Sinks : Swap(s)
  BY Zenon, <1>7, IdleKept DEF QueueBad, TakeBack, Swap, Trying
<1> QED
  BY Zenon, <1>1, <1>2, <1>3, <1>4, <1>5, <1>6, <1>7 DEF GroupTask, WriteError

\* A process that starts or dies has no work.
LEMMA FreshIdle == ASSUME NEW on, FreshMemory(on) PROVE WaitsIdle'
<1>1. /\ jobs' = <<>> /\ cur' = NoBatch /\ drain' = "no" /\ pending' = [s \in Sinks |-> <<>>]
      /\ pc' \in {"select", "off"}
  BY Zenon DEF FreshMemory
<1> QED
  BY <1>1 DEF WaitsIdle

-----------------------------------------------------------------------------
(* The types hold, and files disappear only after their replay *)

Whole == Inv /\ DownInv /\ WorkType /\ FileType /\ WaitsIdle

\* The initial states.
LEMMA InitWhole == Init => Whole
<1> SUFFICES ASSUME Init PROVE Whole
  OBVIOUS
<1>1. Inv /\ DownInv
  BY InitInv DEF Init, GroupInit, DownInv
<1>2. <<>> \in Seq(Records) /\ <<>> \in Seq(Fate)
  OBVIOUS
<1>3. /\ pending \in [Sinks -> Seq(Records)] /\ accepted \in [Sinks -> Seq(Records)]
      /\ settled \in [Sinks -> Seq(Fate)]
  BY Zenon, <1>2 DEF Init, GroupInit
<1>4. /\ phase = "engine" /\ fed \in 0 .. NRec /\ inbox \in Seq(Seq(Records))
      /\ Len(inbox) <= InboxCap /\ drain = "no" /\ jobs \in Seq(Jobs) /\ cur = NoBatch
  BY GroupAssumption DEF Init, GroupInit
<1>5. WorkType
  BY Zenon, <1>3, <1>4 DEF WorkType
<1>6. files \in Files
  BY DEF Init, GroupInit, Files
<1>7. rpc = "off" /\ sent = {} /\ ckpt = "ok" /\ rpc \notin Reading
  BY DEF Init, Reading
<1>8. primary = [s \in Sinks |-> 0] /\ retired = [s \in Sinks |-> 0]
  BY Zenon DEF Init, GroupInit, Real, NoFile
<1>9. \A s \in Sinks : {primary[s], retired[s]} \subseteq {0} \union DOMAIN files
  BY Zenon, <1>8
<1>10. FileType
  BY <1>6, <1>7, <1>9 DEF FileType
<1>11. WaitsIdle
  <2>1. jobs = <<>> /\ cur = NoBatch /\ pc = "select" /\ drain = "no"
    BY Zenon DEF Init, GroupInit
  <2> QED
    BY <2>1 DEF WaitsIdle, TaskOver
<1> QED
  BY Zenon, <1>1, <1>5, <1>10, <1>11 DEF Whole

\* Every step.
LEMMA NextWhole == ASSUME Whole, [Next]_vars PROVE Whole' /\ Removal
<1>1. Inv' /\ DownInv'
  BY Zenon, NextInv, NextDown DEF Whole
<1>2. Inv /\ WorkType /\ FileType /\ WaitsIdle
  BY Zenon DEF Whole
<1>3. CASE InGroup(GroupTask) \/ InGroup(WriteError)
  <2>1. (GroupTask \/ WriteError) /\ UNCHANGED recovery
    BY Zenon, <1>3 DEF InGroup
  <2>2. WorkType' /\ WaitsIdle'
    BY Zenon, <1>2, <2>1, GroupWork, GroupIdle
  <2>3. FileType' /\ FilesGrow
    BY Zenon, <1>2, <2>1, GroupFiles
  <2> QED
    BY Zenon, <1>1, <2>2, <2>3, GrowRemovesNone DEF Whole
<1>4. CASE Aside
  <2>1. UNCHANGED work /\ UNCHANGED <<pc, files, primary, retired, rpc, ckpt, rfile, rpos, sent>>
    BY Zenon, <1>4, AsideKeeps
  <2>2. WorkType' /\ FileType' /\ FilesGrow
    BY Zenon, <1>2, <2>1, WorkKept, SameFilesType
  <2>3. WaitsIdle'
    BY Zenon, <1>2, <2>1, IdleKept DEF work
  <2> QED
    BY Zenon, <1>1, <2>2, <2>3, GrowRemovesNone DEF Whole
<1>5. CASE InGroup(Feed)
  <2>1. UNCHANGED <<pc, drain, jobs, cur, pending, files, primary, retired,
                    rpc, ckpt, rfile, rpos, sent>>
    BY Zenon, <1>5 DEF InGroup, Feed, handles, recovery
  <2>2. WorkType' /\ FileType' /\ FilesGrow /\ WaitsIdle'
    BY Zenon, <1>2, <1>5, <2>1, FeedWork, SameFilesType, IdleKept DEF InGroup
  <2> QED
    BY Zenon, <1>1, <2>2, GrowRemovesNone DEF Whole
<1>6. CASE InGroup(MayStopTask /\ StopTask)
  <2>1. /\ UNCHANGED <<phase, fed, inbox, pc, jobs, cur, pending, accepted, settled,
                       files, primary, retired, rpc, ckpt, rfile, rpos, sent>>
        /\ pc = "select" /\ drain' = "draining"
    BY Zenon, <1>6 DEF InGroup, StopTask, control, history, handles, recovery
  <2>2. FileType' /\ FilesGrow
    BY Zenon, <1>2, <2>1, SameFilesType
  <2>3. WorkType'
    BY Zenon, <1>2, <2>1 DEF WorkType
  <2>4. WaitsIdle'
    BY <1>2, <2>1 DEF WaitsIdle, TaskOver
  <2> QED
    BY Zenon, <1>1, <2>2, <2>3, <2>4, GrowRemovesNone DEF Whole
<1>7. CASE InRecovery(R!Replay)
  <2>1. FileType' /\ WorkType' /\ Removal
    BY Zenon, <1>2, <1>7, ReplayFiles DEF InRecovery
  <2>2. WaitsIdle'
    BY Zenon, <1>2, <1>7, IdleKept DEF InRecovery, groupRest
  <2> QED
    BY Zenon, <1>1, <2>1, <2>2 DEF Whole
<1>8. CASE Crash
  <2>1. FreshMemory(FALSE) /\ phase' = "down" /\ fed' = NRec
    BY Zenon, <1>8 DEF Crash
  <2>2. WorkType' /\ WaitsIdle' /\ FileType' /\ FilesGrow
    BY Zenon, <1>2, <1>8, <2>1, FreshWork, FreshIdle, CrashFiles
  <2> QED
    BY Zenon, <1>1, <2>2, GrowRemovesNone DEF Whole
<1>9. CASE StartRescue
  <2>1. FreshMemory(TRUE) /\ phase' = "rescue" /\ fed' = NRec
    BY Zenon, <1>9 DEF StartRescue
  <2>2. WorkType' /\ WaitsIdle' /\ FileType' /\ FilesGrow
    BY Zenon, <1>2, <1>9, <2>1, FreshWork, FreshIdle, StartRescueFiles
  <2> QED
    BY Zenon, <1>1, <2>2, GrowRemovesNone DEF Whole
<1> QED
  BY Zenon, <1>3, <1>4, <1>5, <1>6, <1>7, <1>8, <1>9 DEF Next, Aside

\* It holds in every reachable state.
LEMMA WholeInvariance == Spec => []Whole
<1>1. Whole /\ [Next]_vars => Whole'
  BY Zenon, NextWhole
<1> QED
  BY InitWhole, <1>1, PTL DEF Spec

\* Every variable has its type in every reachable state: the jobs cut from any
\* package are for sinks of the group, a rescue file holds records, and the
\* replay reads finished files only.
THEOREM TypesHold == Spec => []TypeOK
<1>1. ASSUME Whole PROVE TypeOK
  <2>1. Inv /\ HandleType /\ WorkType /\ FileType
    BY Zenon, <1>1 DEF Whole, Inv
  <2>2. /\ phase \in {"engine", "rescue", "down"} /\ fed \in 0..NRec
        /\ inbox \in Seq(Seq(Records)) /\ Len(inbox) <= InboxCap
        /\ drain \in {"no", "draining", "final"}
        /\ jobs \in Seq([sink : Sinks, recs : Seq(Records)])
        /\ cur = NoBatch \/ cur \in [sink : Sinks, recs : Seq(Records) \ {<<>>}]
        /\ \A s \in Sinks : settled[s] \in Seq([rec : Records, by : Fates])
    BY Zenon, <2>1 DEF WorkType, Jobs, Batches, Fate
  <2>3. /\ pc \in {"select", "work", "hand", "ending", "done", "failed", "off"}
        /\ hand \in Sinks \union {0} /\ mh \in Sinks \union {0}
        /\ (hand # 0) = (pc = "hand") /\ (mh # 0) = (mpc \in {"hold", "fixed", "bad"})
        /\ badQ \in Seq(Sinks) /\ fixQ \in Seq(Sinks)
        /\ mpc \in {"poll", "hold", "fixed", "bad", "off"}
    BY <2>1 DEF HandleType, TaskPcs, MaintPcs
  <2>4. /\ \A s \in Sinks : {primary[s], retired[s]} \subseteq {0} \union DOMAIN files
        /\ files \in Seq([sink : Sinks, recs : Seq(Records), st : FileStates])
        /\ ckpt \in {"ok", "torn"} /\ sent \subseteq Records
    BY Zenon, <2>1 DEF FileType, Files, FileOf
  <2>5. rpc \in {"load", "scan", "line", "unit", "save", "pause", "saveLast"}
          => rfile = 0 \/ files[rfile].st = "dat"
    <3>1. rpc \in {"load", "scan"} => rfile = 0
      BY <2>1 DEF FileType
    <3>2. rpc \in Reading => files[rfile].st = "dat"
      BY Zenon, <2>1 DEF Inv, OpenInv, R!Finished
    <3> QED
      BY <3>1, <3>2 DEF Reading
  <2> QED
    BY Zenon, <2>2, <2>3, <2>4, <2>5 DEF TypeOK
<1>2. Whole => TypeOK
  BY Zenon, <1>1
<1> QED
  BY <1>2, WholeInvariance, PTL

\* A rescue file disappears only after every line of it was sent by the process
\* that removes it, for any files, unit, crashes and signals.
THEOREM RemovedOnlyAfterReplay == Spec => RemovedAfterReplay
<1>1. Whole /\ [Next]_vars =>
        [\A f \in DOMAIN files :
           (files[f].st # "gone" /\ files'[f].st = "gone")
             => files[f].st = "dat" /\ Queued(files[f].recs) \subseteq sent]_vars
  BY Zenon, NextWhole DEF Removal
<1> QED
  BY <1>1, WholeInvariance, PTL DEF Spec, RemovedAfterReplay

-----------------------------------------------------------------------------
(* Every sink settles what it was given, in order *)

\* What the sink writes of its records now.
Writing(s) == IF cur.sink = s THEN cur.recs ELSE <<>>

\* The records given are those settled, those being written, those pending.
Ordered(s) == accepted[s] = Recs(settled[s]) \o Writing(s) \o pending[s]

\* Fates side by side are records side by side.
LEMMA RecsConcat ==
  ASSUME NEW a \in Seq(Fate), NEW b \in Seq(Fate)
  PROVE  /\ Recs(a) \in Seq(Records) /\ Len(Recs(a)) = Len(a)
         /\ Recs(a \o b) = Recs(a) \o Recs(b)
<1>1. /\ Len(a) \in Nat /\ DOMAIN a = 1 .. Len(a) /\ \A i \in 1 .. Len(a) : a[i].rec \in Records
      /\ Len(b) \in Nat /\ DOMAIN b = 1 .. Len(b) /\ \A i \in 1 .. Len(b) : b[i].rec \in Records
  <2>1. /\ Len(a) \in Nat /\ DOMAIN a = 1 .. Len(a) /\ \A i \in 1 .. Len(a) : a[i] \in Fate
        /\ Len(b) \in Nat /\ DOMAIN b = 1 .. Len(b) /\ \A i \in 1 .. Len(b) : b[i] \in Fate
    OBVIOUS
  <2>2. \A x \in Fate : x.rec \in Records
    BY DEF Fate
  <2> QED
    BY Zenon, <2>1, <2>2
<1>2. Recs(a) = [i \in 1 .. Len(a) |-> a[i].rec] /\ Recs(b) = [i \in 1 .. Len(b) |-> b[i].rec]
  BY Zenon, <1>1 DEF Recs
<1>3. /\ Recs(a) \in Seq(Records) /\ Len(Recs(a)) = Len(a)
      /\ Recs(b) \in Seq(Records) /\ Len(Recs(b)) = Len(b)
  BY <1>1, <1>2
<1> DEFINE c == a \o b
           d == Recs(a) \o Recs(b)
<1>4. /\ c \in Seq(Fate) /\ Len(c) = Len(a) + Len(b) /\ DOMAIN c = 1 .. (Len(a) + Len(b))
      /\ \A i \in 1 .. (Len(a) + Len(b)) : c[i] = IF i <= Len(a) THEN a[i] ELSE b[i - Len(a)]
  BY <1>1
<1>5. /\ d \in Seq(Records) /\ Len(d) = Len(a) + Len(b)
      /\ \A i \in 1 .. (Len(a) + Len(b)) : d[i] = IF i <= Len(a) THEN Recs(a)[i] ELSE Recs(b)[i - Len(a)]
  <2> DEFINE x == Recs(a)
             y == Recs(b)
  <2> HIDE DEF x, y
  <2>1. x \in Seq(Records) /\ Len(x) = Len(a) /\ y \in Seq(Records) /\ Len(y) = Len(b)
    BY Zenon, <1>3 DEF x, y
  <2>2. /\ x \o y \in Seq(Records) /\ Len(x \o y) = Len(x) + Len(y)
        /\ \A i \in 1 .. (Len(x) + Len(y)) : (x \o y)[i] = IF i <= Len(x) THEN x[i] ELSE y[i - Len(x)]
    BY <2>1
  <2> QED
    BY Zenon, <2>1, <2>2 DEF x, y
<1> HIDE DEF c, d
<1>6. \A i \in 1 .. (Len(a) + Len(b)) : c[i].rec = d[i]
  <2> SUFFICES ASSUME NEW i \in 1 .. (Len(a) + Len(b)) PROVE c[i].rec = d[i]
    OBVIOUS
  <2>1. CASE i <= Len(a)
    <3>1. i \in 1 .. Len(a)
      BY <1>1, <2>1
    <3> QED
      BY Zenon, <1>2, <1>4, <1>5, <2>1, <3>1
  <2>2. CASE ~(i <= Len(a))
    <3>1. i - Len(a) \in 1 .. Len(b)
      BY <1>1, <2>2
    <3> QED
      BY Zenon, <1>2, <1>4, <1>5, <2>2, <3>1
  <2> QED
    BY <2>1, <2>2
<1>7. Recs(c) = [i \in 1 .. (Len(a) + Len(b)) |-> d[i]]
  BY Zenon, <1>4, <1>6 DEF Recs
<1>8. Recs(c) = d
  BY <1>1, <1>5, <1>7
<1> QED
  BY Zenon, <1>3, <1>8 DEF c, d

\* However send_record_segment cuts, batch and rest follow what is settled:
\* empty batches and rests do not show, and cuts may be made anywhere.
LEMMA CutInOrder ==
  ASSUME NEW done \in Seq(Records), NEW old \in Seq(Records), NEW recs \in Seq(Records)
  PROVE  /\ (done \o old) \o <<>> = done \o old
         /\ done \o <<>> = done
         /\ (done \o old) \o recs = done \o (old \o recs)
         /\ (done \o (old \o recs)) \o <<>> = done \o (old \o recs)
<1>1. done \o old \in Seq(Records) /\ old \o recs \in Seq(Records)
  OBVIOUS
<1>2. done \o (old \o recs) \in Seq(Records)
  BY <1>1
<1> QED
  BY <1>1, <1>2

\* Steps without a record of the history.
LEMMA OrderKept ==
  ASSUME SettlesInOrder, UNCHANGED <<phase, cur, pending, accepted, settled>>,
         (pc' = "failed") <=> (pc = "failed")
  PROVE  SettlesInOrder'
<1>1. CASE phase = "engine"
  <2>1. CASE pc = "failed"
    BY Zenon, <1>1, <2>1 DEF SettlesInOrder, Recs
  <2>2. CASE pc # "failed"
    BY Zenon, <1>1, <2>2 DEF SettlesInOrder, Recs
  <2> QED
    BY Zenon, <2>1, <2>2
<1>2. CASE phase # "engine"
  BY Zenon, <1>2 DEF SettlesInOrder
<1> QED
  BY Zenon, <1>1, <1>2

\* While the task has not failed, it is all of it; afterwards, a prefix.
LEMMA OrderedIs ==
  /\ (SettlesInOrder /\ phase = "engine" /\ pc # "failed") => \A s \in Sinks : Ordered(s)
  /\ (\A s \in Sinks : Ordered(s)) /\ pc # "failed" => SettlesInOrder
  BY Zenon DEF SettlesInOrder, Ordered, Writing

\* The types the history has.
LEMMA HistoryTyped ==
  ASSUME WorkType, NEW s \in Sinks
  PROVE  /\ accepted[s] \in Seq(Records) /\ pending[s] \in Seq(Records)
         /\ settled[s] \in Seq(Fate) /\ Recs(settled[s]) \in Seq(Records)
         /\ Len(Recs(settled[s])) = Len(settled[s]) /\ Writing(s) \in Seq(Records)
         /\ cur = NoBatch => Writing(s) = <<>>
<1>1. accepted[s] \in Seq(Records) /\ pending[s] \in Seq(Records) /\ settled[s] \in Seq(Fate)
  BY Zenon DEF WorkType
<1>2. Recs(settled[s]) \in Seq(Records) /\ Len(Recs(settled[s])) = Len(settled[s])
  BY Zenon, <1>1, RecsConcat
<1>3. cur = NoBatch => Writing(s) = <<>>
  BY SinkIsPositive DEF Writing, NoBatch
<1>4. <<>> \in Seq(Records)
  OBVIOUS
<1>5. Writing(s) \in Seq(Records)
  <2>1. CASE cur = NoBatch
    BY Zenon, <1>3, <1>4, <2>1
  <2>2. CASE cur # NoBatch
    <3>1. cur.recs \in Seq(Records)
      BY Zenon, <2>2, BatchIsNotNone DEF WorkType
    <3> QED
      BY Zenon, <1>4, <3>1 DEF Writing
  <2> QED
    BY Zenon, <2>1, <2>2
<1> QED
  BY Zenon, <1>1, <1>2, <1>3, <1>5

\* The next job: its records are given to the sink, once, and cut.
LEMMA NextJobOrdered ==
  ASSUME WorkType, NextJob, phase = "engine", \A s \in Sinks : Ordered(s)
  PROVE  \A s \in Sinks : Ordered(s)'
<1> DEFINE j == Head(jobs)
<1>1. PICK b \in Seq(Records), r \in Seq(Records), over \in BOOLEAN :
        CutStep(j.sink, j.recs, b, r, over)
  BY Zenon, NextJobCuts
<1>2. j.sink \in Sinks /\ j.recs \in Seq(Records) /\ cur = NoBatch /\ settled' = settled
  BY Zenon, NextJobCuts DEF NextJob
<1> HIDE DEF j
<1>3. \A s \in Sinks : Writing(s)' = IF s = j.sink THEN b ELSE <<>>
  <2> SUFFICES ASSUME NEW s \in Sinks PROVE Writing(s)' = IF s = j.sink THEN b ELSE <<>>
    BY Zenon
  <2>1. CASE b = <<>>
    <3>1. cur' = NoBatch
      BY Zenon, <1>1, <2>1 DEF CutStep
    <3>2. Writing(s)' = <<>>
      BY <3>1, SinkIsPositive DEF Writing, NoBatch
    <3> QED
      BY Zenon, <2>1, <3>2
  <2>2. CASE b # <<>>
    <3>1. cur' = Job(j.sink, b)
      BY Zenon, <1>1, <2>2 DEF CutStep
    <3>2. cur'.sink = j.sink /\ cur'.recs = b
      BY Zenon, <3>1 DEF Job
    <3> QED
      BY Zenon, <3>2 DEF Writing
  <2> QED
    BY Zenon, <2>1, <2>2
<1>4. ASSUME NEW s \in Sinks PROVE Ordered(s)'
  <2> DEFINE done == Recs(settled[s])
             old == pending[s]
  <2>1. /\ done \in Seq(Records) /\ old \in Seq(Records) /\ accepted[s] \in Seq(Records)
        /\ Writing(s) = <<>> /\ Recs(settled[s])' = done
    BY Zenon, <1>2, HistoryTyped DEF Recs
  <2>2. accepted[s] = done \o <<>> \o old
    BY Zenon, <2>1 DEF Ordered
  <2> HIDE DEF done, old
  <2>3. done \o <<>> = done
    BY <2>1
  <2>4. CASE s # j.sink
    <3>1. pending'[s] = old /\ accepted'[s] = accepted[s] /\ Writing(s)' = <<>>
      BY Zenon, <1>1, <1>2, <1>3, <2>4 DEF CutStep, WorkType, old
    <3> QED
      BY Zenon, <2>1, <2>2, <3>1 DEF Ordered
  <2>5. CASE s = j.sink
    <3>1. Recording
      BY Zenon DEF Recording
    <3>2. pending'[s] = r /\ Writing(s)' = b
      BY Zenon, <1>1, <1>2, <1>3, <2>5 DEF CutStep, WorkType
    <3>3. accepted'[s] = IF over THEN accepted[s] \o j.recs ELSE accepted[s]
      BY Zenon, <1>1, <1>2, <2>5, <3>1 DEF CutStep, WorkType
    <3>4. Cut(old, j.recs, b, r, over)
      BY Zenon, <1>1, <2>5 DEF CutStep, old
    <3>5. /\ over => (done \o old) \o j.recs = (done \o b) \o r
          /\ ~over => done \o old = (done \o b) \o r
      <4>1. /\ (done \o old) \o <<>> = done \o old
            /\ done \o <<>> = done
            /\ (done \o old) \o j.recs = done \o (old \o j.recs)
            /\ (done \o (old \o j.recs)) \o <<>> = done \o (old \o j.recs)
        <5> DEFINE recs == j.recs
        <5>1. done \in Seq(Records) /\ old \in Seq(Records) /\ recs \in Seq(Records)
          BY Zenon, <1>2, <2>1
        <5> HIDE DEF recs
        <5>2. /\ (done \o old) \o <<>> = done \o old
              /\ done \o <<>> = done
              /\ (done \o old) \o recs = done \o (old \o recs)
              /\ (done \o (old \o recs)) \o <<>> = done \o (old \o recs)
          BY <5>1, CutInOrder
        <5> QED
          BY Zenon, <5>2 DEF recs
      <4> QED
        BY Zenon, <3>4, <4>1 DEF Cut
    <3>6. accepted[s] = done \o old
      BY Zenon, <2>2, <2>3
    <3>7. accepted'[s] = (done \o b) \o r
      BY Zenon, <3>3, <3>5, <3>6
    <3> QED
      BY Zenon, <2>1, <3>2, <3>7 DEF Ordered
  <2> QED
    BY Zenon, <2>4, <2>5
<1> QED
  BY Zenon, <1>4

\* A batch that is over has moved, as a whole, from the one being written to
\* what is settled.
LEMMA SettleOrdered ==
  ASSUME WorkType, cur # NoBatch, NEW how \in Fates, Settle(cur.sink, cur.recs, how),
         phase = "engine", \A s \in Sinks : Ordered(s)
  PROVE  \A s \in Sinks : Ordered(s)'
<1> DEFINE q == [i \in DOMAIN cur.recs |-> [rec |-> cur.recs[i], by |-> how]]
<1>1. cur.sink \in Sinks /\ cur.recs \in Seq(Records)
  BY Zenon, BatchIsNotNone DEF WorkType
<1>2. q \in Seq(Fate) /\ Recs(q) = cur.recs
  BY Zenon, <1>1, FatesTyped
<1>3. /\ settled' = [settled EXCEPT ![cur.sink] = settled[cur.sink] \o q]
      /\ cur' = NoBatch /\ pending' = pending /\ accepted' = accepted
  BY Zenon DEF Settle, Recording
<1> HIDE DEF q
<1>4. ASSUME NEW s \in Sinks PROVE Ordered(s)'
  <2>1. Writing(s)' = <<>>
    BY <1>3, SinkIsPositive DEF Writing, NoBatch
  <2>2. /\ settled[s] \in Seq(Fate) /\ Recs(settled[s]) \in Seq(Records)
        /\ pending[s] \in Seq(Records)
    BY Zenon, HistoryTyped
  <2>3. accepted[s] = Recs(settled[s]) \o Writing(s) \o pending[s]
    BY Zenon DEF Ordered
  <2>4. CASE s # cur.sink
    <3>1. settled'[s] = settled[s] /\ Writing(s) = <<>>
      BY Zenon, <1>1, <1>3, <2>4 DEF WorkType, Writing
    <3>2. Recs(settled[s])' = Recs(settled[s])
      BY Zenon, <3>1 DEF Recs
    <3> QED
      BY Zenon, <1>3, <2>1, <2>3, <3>1, <3>2 DEF Ordered
  <2>5. CASE s = cur.sink
    <3>1. settled'[s] = settled[s] \o q /\ Writing(s) = cur.recs
      BY Zenon, <1>1, <1>3, <2>5 DEF WorkType, Writing
    <3>2. Recs(settled[s] \o q) = Recs(settled[s]) \o cur.recs
      BY Zenon, <1>2, <2>2, RecsConcat
    <3>3. Recs(settled[s])' = Recs(settled[s]) \o cur.recs
      BY Zenon, <3>1, <3>2 DEF Recs
    <3> DEFINE x == Recs(settled[s]) \o cur.recs
    <3>4. x \in Seq(Records)
      BY <1>1, <2>2
    <3> HIDE DEF x
    <3>5. x \o <<>> = x
      BY <3>4
    <3> QED
      BY Zenon, <1>3, <2>1, <2>3, <3>1, <3>3, <3>5 DEF Ordered, x
  <2> QED
    BY Zenon, <2>4, <2>5
<1> QED
  BY Zenon, <1>4

\* A task that fails has settled a prefix of what it was given.
LEMMA FailsWithPrefix ==
  ASSUME WorkType, NEW s \in Sinks, Ordered(s), UNCHANGED <<accepted, settled>>
  PROVE  /\ Len(settled'[s]) <= Len(accepted'[s])
         /\ Recs(settled[s])' = SubSeq(accepted'[s], 1, Len(settled'[s]))
<1> DEFINE a == Recs(settled[s])
           b == Writing(s)
           c == pending[s]
<1>1. /\ a \in Seq(Records) /\ b \in Seq(Records) /\ c \in Seq(Records)
      /\ Len(a) = Len(settled[s]) /\ accepted[s] = (a \o b) \o c /\ Recs(settled[s])' = a
  BY Zenon, HistoryTyped DEF Ordered, Recs
<1> HIDE DEF a, b, c
<1>2. Len((a \o b) \o c) = Len(a) + Len(b) + Len(c) /\ Len(a) \in Nat /\ Len(b) \in Nat /\ Len(c) \in Nat
  <2>1. a \o b \in Seq(Records) /\ Len(a \o b) = Len(a) + Len(b)
    BY <1>1
  <2> DEFINE d == a \o b
  <2> HIDE DEF d
  <2>2. d \in Seq(Records) /\ Len(d) = Len(a) + Len(b)
    BY Zenon, <2>1 DEF d
  <2>3. Len(d \o c) = Len(d) + Len(c)
    BY <1>1, <2>2
  <2>4. Len(a) \in Nat /\ Len(b) \in Nat /\ Len(c) \in Nat
    BY <1>1
  <2> QED
    BY Zenon, <2>2, <2>3, <2>4 DEF d
<1>3. Len(a) <= Len((a \o b) \o c)
  BY <1>2
<1>4. SubSeq((a \o b) \o c, 1, Len(a)) = a
  BY <1>1, <1>2, <1>3
<1> QED
  BY Zenon, <1>1, <1>3, <1>4

\* The group steps while its task lives, and no process ends by that.
LEMMA GroupLives == ASSUME GroupTask \/ WriteError PROVE phase' = phase /\ pc # "failed"
<1>1. CASE RecvPackage \/ NextJob \/ FlushTick \/ ChannelDrained \/ QueueBad \/ TakeBack
  BY Zenon, <1>1 DEF RecvPackage, NextJob, FlushTick, ChannelDrained, QueueBad, TakeBack, control
<1>2. CASE \/ SkipWrite
           \/ \E s \in Sinks : WriteReal(s) \/ WriteRescue(s) \/ WriteDropped(s) \/ WriteTolerated(s)
  BY Zenon, <1>2, WriteSettles DEF Settle, control
<1>3. CASE StatFails \/ StopBackends \/ \E s \in Sinks : WriteThrown(s) \/ Swap(s)
  BY Zenon, <1>3 DEF StatFails, StopBackends, WriteThrown, Swap, Trying, Leave, control
<1> QED
  BY Zenon, <1>1, <1>2, <1>3 DEF GroupTask, WriteError

\* Every step of the group task.
LEMMA GroupOrder ==
  ASSUME WorkType, WaitsIdle, SettlesInOrder, GroupTask \/ WriteError
  PROVE  SettlesInOrder'
<1>1. phase' = phase /\ pc # "failed"
  BY Zenon, GroupLives
<1>2. CASE phase # "engine"
  BY Zenon, <1>1, <1>2 DEF SettlesInOrder
<1>3. CASE phase = "engine"
  <2>1. \A s \in Sinks : Ordered(s)
    BY Zenon, <1>1, <1>3, OrderedIs
  <2>2. ASSUME pc' # "failed", \A s \in Sinks : Ordered(s)' PROVE SettlesInOrder'
    BY Zenon, <2>2 DEF SettlesInOrder, Ordered, Writing
  <2>3. CASE RecvPackage \/ FlushTick \/ ChannelDrained \/ QueueBad \/ TakeBack \/ \E s \in Sinks : Swap(s)
    <3>1. UNCHANGED <<phase, cur, pending, accepted, settled>>
      BY Zenon, <2>3 DEF RecvPackage, FlushTick, ChannelDrained, QueueBad, TakeBack, Swap,
           control, history
    <3>2. pc' # "failed"
      BY Zenon, <2>3 DEF RecvPackage, FlushTick, ChannelDrained, QueueBad, TakeBack, Swap, Working
    <3> QED
      BY Zenon, <1>1, <3>1, <3>2, OrderKept
  <2>4. CASE NextJob
    <3>1. pc' # "failed"
      BY Zenon, <2>4 DEF NextJob, Working
    <3> QED
      BY Zenon, <1>3, <2>1, <2>2, <2>4, <3>1, NextJobOrdered
  <2>5. CASE \/ SkipWrite
             \/ \E s \in Sinks : WriteReal(s) \/ WriteRescue(s) \/ WriteDropped(s) \/ WriteTolerated(s)
    <3>1. PICK how \in Fates : Settle(cur.sink, cur.recs, how)
      BY Zenon, <2>5, WriteSettles
    <3>2. cur # NoBatch /\ pc' # "failed"
      BY Zenon, <2>5, <3>1, WriteSettles DEF Settle, Working
    <3> QED
      BY Zenon, <1>3, <2>1, <2>2, <3>1, <3>2, SettleOrdered
  <2>6. CASE StatFails \/ \E s \in Sinks : WriteThrown(s)
    <3>1. pc' = "failed" /\ UNCHANGED <<accepted, settled>>
      BY Zenon, <2>6 DEF StatFails, WriteThrown, Leave, history
    <3>2. \A s \in Sinks : /\ Len(settled'[s]) <= Len(accepted'[s])
                           /\ Recs(settled[s])' = SubSeq(accepted'[s], 1, Len(settled'[s]))
      BY Zenon, <2>1, <3>1, FailsWithPrefix
    <3> QED
      BY Zenon, <3>1, <3>2 DEF SettlesInOrder
  <2>7. CASE StopBackends
    <3>1. /\ pc = "ending" /\ pc' = "done" /\ UNCHANGED <<accepted, settled>> /\ cur' = NoBatch
          /\ pending' = [s \in Sinks |-> <<>>]
      BY Zenon, <2>7 DEF StopBackends, Leave, history
    <3>2. cur = NoBatch /\ jobs = <<>> /\ drain = "final" /\ ~TaskOver
      BY <3>1 DEF WaitsIdle, TaskOver
    <3>3. DOMAIN jobs = {}
      BY <3>2
    <3>4. \A s \in Sinks : pending[s] = <<>>
      BY Zenon, <3>2, <3>3 DEF WaitsIdle
    <3>5. \A s \in Sinks : Ordered(s)'
      BY Zenon, <2>1, <3>1, <3>2, <3>4 DEF Ordered, Writing, Recs
    <3>6. pc' # "failed"
      BY <3>1
    <3> QED
      BY Zenon, <2>2, <3>5, <3>6
  <2> QED
    BY Zenon, <2>3, <2>4, <2>5, <2>6, <2>7 DEF GroupTask, WriteError
<1> QED
  BY Zenon, <1>2, <1>3

\* Through batching, fail-over and take-back, a sink settles the records it was
\* given in their order, none twice and none skipped: for any conditions,
\* batch size, packages and failures.
THEOREM SettledInOrder == Spec => []SettlesInOrder
<1>1. Init => SettlesInOrder
  <2> SUFFICES ASSUME Init PROVE SettlesInOrder
    OBVIOUS
  <2>1. /\ cur = NoBatch /\ pc = "select" /\ pending = [s \in Sinks |-> <<>>]
        /\ accepted = [s \in Sinks |-> <<>>] /\ settled = [s \in Sinks |-> <<>>]
    BY Zenon DEF Init, GroupInit
  <2>2. ASSUME NEW s \in Sinks PROVE Ordered(s)
    <3>1. accepted[s] = <<>> /\ settled[s] = <<>> /\ pending[s] = <<>>
      BY Zenon, <2>1
    <3>2. Writing(s) = <<>>
      BY <2>1, SinkIsPositive DEF Writing, NoBatch
    <3>3. Recs(<<>>) = <<>> /\ <<>> \o <<>> = <<>>
      BY DEF Recs
    <3> QED
      BY Zenon, <3>1, <3>2, <3>3 DEF Ordered
  <2>3. pc # "failed"
    BY <2>1
  <2> QED
    BY Zenon, <2>2, <2>3, OrderedIs
<1>2. ASSUME Whole, SettlesInOrder, [Next]_vars PROVE SettlesInOrder'
  <2>1. WorkType /\ WaitsIdle
    BY Zenon, <1>2 DEF Whole
  <2>2. CASE InGroup(GroupTask) \/ InGroup(WriteError)
    BY Zenon, <1>2, <2>1, <2>2, GroupOrder DEF InGroup
  <2>3. CASE Aside
    BY Zenon, <1>2, <2>3, AsideKeeps, OrderKept DEF work
  <2>4. CASE InGroup(Feed) \/ InGroup(MayStopTask /\ StopTask) \/ InRecovery(R!Replay)
    <3>1. UNCHANGED <<phase, pc, cur, pending, accepted, settled>>
      BY Zenon, <2>4 DEF InGroup, InRecovery, Feed, StopTask, control, history, groupRest
    <3> QED
      BY Zenon, <1>2, <3>1, OrderKept
  <2>5. CASE Crash \/ StartRescue
    <3>1. phase' # "engine"
      BY <2>5 DEF Crash, StartRescue
    <3> QED
      BY Zenon, <3>1 DEF SettlesInOrder
  <2> QED
    BY Zenon, <1>2, <2>2, <2>3, <2>4, <2>5 DEF Next, Aside
<1>3. Whole /\ SettlesInOrder /\ [Next]_vars => SettlesInOrder'
  BY Zenon, <1>2
<1> QED
  BY <1>1, <1>3, WholeInvariance, PTL DEF Spec

-----------------------------------------------------------------------------
(* What was sent is taken in turn *)

\* What the task has taken, and what waits in the channel.
Sent == taken \o Joined(inbox)

Turn(q, last) == Rising(q) /\ \A i \in 1 .. Len(q) : q[i] <= last

\* The parsers number the records as they send them; the channel keeps their
\* order.
InTurn == phase = "engine" => taken \in Seq(Records) /\ Turn(Sent, fed)

\* The first package of a channel, and the rest.
LEMMA JoinedHead ==
  ASSUME NEW S, NEW box \in Seq(Seq(S)), box # <<>>
  PROVE  /\ Head(box) \in Seq(S) /\ Tail(box) \in Seq(Seq(S))
         /\ Joined(box) = Head(box) \o Joined(Tail(box))
<1> DEFINE Q == Seq(S)
           p == Head(box)
           rest == Tail(box)
           one == <<p>>
<1>1. box \in Seq(Q)
  OBVIOUS
<1> HIDE DEF Q
<1>2. p \in Q /\ rest \in Seq(Q) /\ box = one \o rest
  BY <1>1
<1> HIDE DEF p, rest
<1>3. one \in Seq(Q) /\ Len(one) = 1 /\ one[1] = p /\ 1 \in 1 .. 1 /\ \A i \in 1 .. 1 : i = 1
  BY <1>2
<1> HIDE DEF one
<1>4. Joined(one) = p
  BY Zenon, <1>3, JoinedAtOne DEF Q
<1>5. Joined(one \o rest) = Joined(one) \o Joined(rest)
  BY <1>2, <1>3, JoinedConcat DEF Q
<1> QED
  BY Zenon, <1>2, <1>4, <1>5 DEF p, rest, Q

\* One more package.
LEMMA JoinedAppend ==
  ASSUME NEW S, NEW box \in Seq(Seq(S)), NEW p \in Seq(S)
  PROVE  Joined(Append(box, p)) = Joined(box) \o p
<1> DEFINE Q == Seq(S)
           one == <<p>>
<1>1. box \in Seq(Q) /\ p \in Q
  OBVIOUS
<1> HIDE DEF Q
<1>2. Append(box, p) = box \o one
  BY <1>1
<1>3. one \in Seq(Q) /\ Len(one) = 1 /\ one[1] = p /\ 1 \in 1 .. 1 /\ \A i \in 1 .. 1 : i = 1
  BY <1>1
<1> HIDE DEF one
<1>4. Joined(one) = p
  BY Zenon, <1>3, JoinedAtOne DEF Q
<1>5. Joined(box \o one) = Joined(box) \o Joined(one)
  BY <1>1, <1>3, JoinedConcat DEF Q
<1> QED
  BY Zenon, <1>2, <1>4, <1>5

\* A part of the records in turn is in turn.
LEMMA TurnFirst ==
  ASSUME NEW a \in Seq(Records), NEW b \in Seq(Records), NEW last, Turn(a \o b, last)
  PROVE  Turn(a, last)
<1>1. Rising(a)
  BY Zenon, RisingConcat DEF Turn
<1>2. \A i \in 1 .. Len(a) : i \in 1 .. Len(a \o b) /\ (a \o b)[i] = a[i]
  OBVIOUS
<1> QED
  BY Zenon, <1>1, <1>2 DEF Turn

\* The next n records follow.
LEMMA TurnNext ==
  ASSUME NEW a \in Seq(Records), NEW last \in Nat, Turn(a, last), NEW n \in Nat,
         [i \in 1 .. n |-> last + i] \in Seq(Records)
  PROVE  Turn(a \o [i \in 1 .. n |-> last + i], last + n)
<1> DEFINE p == [i \in 1 .. n |-> last + i]
           c == a \o p
<1>1. p \in Seq(Records) /\ Len(p) = n /\ \A i \in 1 .. n : p[i] = last + i
  OBVIOUS
<1> HIDE DEF p
<1>2. Rising(p)
  <2>1. \A i, j \in 1 .. n : i < j => last + i < last + j
    OBVIOUS
  <2> QED
    BY Zenon, <1>1, <2>1 DEF Rising
<1>3. \A i \in 1 .. Len(a) : a[i] <= last /\ a[i] \in Nat
  <2>1. \A i \in 1 .. Len(a) : a[i] \in Nat
    BY GroupAssumption DEF Records
  <2> QED
    BY Zenon, <2>1 DEF Turn
<1>4. \A x \in Nat, i \in 1 .. n : x <= last => x < last + i
  OBVIOUS
<1>5. Before(a, p)
  BY Zenon, <1>1, <1>3, <1>4 DEF Before
<1>6. Rising(c)
  BY Zenon, <1>1, <1>2, <1>5, RisingConcat DEF Turn
<1>7. \A i \in 1 .. Len(c) : (\E j \in 1 .. Len(a) : c[i] = a[j]) \/ \E j \in 1 .. n : c[i] = p[j]
  <2>1. \A i \in 1 .. Len(c) : (\E j \in 1 .. Len(a) : c[i] = a[j]) \/ \E j \in 1 .. Len(p) : c[i] = p[j]
    BY <1>1, ConcatHolds
  <2> QED
    BY Zenon, <1>1, <2>1
<1> HIDE DEF c
<1>8. \A x \in Nat : x <= last => x <= last + n
  OBVIOUS
<1>9. \A j \in 1 .. n : last + j <= last + n
  OBVIOUS
<1>10. \A i \in 1 .. Len(c) : c[i] <= last + n
  <2>1. ASSUME NEW i \in 1 .. Len(c) PROVE c[i] <= last + n
    <3>1. CASE \E j \in 1 .. Len(a) : c[i] = a[j]
      BY Zenon, <1>3, <1>8, <3>1
    <3>2. CASE \E j \in 1 .. n : c[i] = p[j]
      BY Zenon, <1>1, <1>9, <3>2
    <3> QED
      BY Zenon, <1>7, <3>1, <3>2
  <2> QED
    BY Zenon, <2>1
<1> QED
  BY Zenon, <1>6, <1>10 DEF Turn, c, p

\* Steps that neither send nor take.
LEMMA InTurnKept == ASSUME InTurn, UNCHANGED <<phase, fed, inbox, taken>> PROVE InTurn'
  BY Zenon DEF InTurn, Sent

\* The task takes a package.
LEMMA RecvInTurn == ASSUME WorkType, InTurn, RecvPackage, phase = "engine" PROVE InTurn'
<1> DEFINE p == Head(inbox)
           rest == Joined(Tail(inbox))
<1>1. inbox \in Seq(Seq(Records)) /\ inbox # <<>>
  BY Zenon DEF WorkType, RecvPackage
<1>2. p \in Seq(Records) /\ Tail(inbox) \in Seq(Seq(Records)) /\ Joined(inbox) = p \o rest
  BY Zenon, <1>1, JoinedHead
<1>3. rest \in Seq(Records)
  BY Zenon, <1>2, JoinedTyped
<1>4. taken \in Seq(Records) /\ Turn(Sent, fed)
  BY Zenon DEF InTurn
<1>5. taken' = taken \o p /\ inbox' = Tail(inbox) /\ fed' = fed
  BY Zenon DEF RecvPackage, Recording, control
<1> HIDE DEF p, rest
<1>6. taken \o p \in Seq(Records) /\ (taken \o p) \o rest = taken \o (p \o rest)
  <2>1. /\ \A a, b \in Seq(Records) : a \o b \in Seq(Records)
        /\ \A a, b, c \in Seq(Records) : (a \o b) \o c = a \o (b \o c)
    BY Zenon, ConcatLaws
  <2> QED
    BY Zenon, <1>2, <1>3, <1>4, <2>1
<1>7. Sent' = Sent
  BY Zenon, <1>2, <1>5, <1>6 DEF Sent, rest
<1> QED
  BY Zenon, <1>4, <1>5, <1>6, <1>7 DEF InTurn

\* A parser sends one.
LEMMA FeedInTurn == ASSUME WorkType, InTurn, Feed PROVE InTurn'
<1>1. phase = "engine" /\ taken' = taken
  BY Zenon DEF Feed, history
<1>2. PICK n \in 1 .. 2 : /\ fed + n <= NRec
                          /\ inbox' = Append(inbox, [i \in 1 .. n |-> fed + i])
                          /\ fed' = fed + n
  BY Zenon DEF Feed
<1> DEFINE p == [i \in 1 .. n |-> fed + i]
           box == Joined(inbox)
<1>3. fed \in Nat /\ n \in Nat
  BY DEF WorkType
<1>4. p \in Seq(Records)
  BY <1>2, <1>3, GroupAssumption DEF Records
<1>5. taken \in Seq(Records) /\ Turn(taken \o box, fed) /\ inbox \in Seq(Seq(Records))
  BY Zenon, <1>1 DEF InTurn, Sent, WorkType
<1>6. box \in Seq(Records) /\ Joined(inbox') = box \o p
  <2>1. box \in Seq(Records)
    BY Zenon, <1>5, JoinedTyped
  <2>2. inbox' = Append(inbox, p)
    BY Zenon, <1>2
  <2> HIDE DEF p
  <2>3. Joined(Append(inbox, p)) = box \o p
    BY <1>4, <1>5, JoinedAppend
  <2> QED
    BY Zenon, <2>1, <2>2, <2>3
<1> HIDE DEF box
<1>7. taken \o box \in Seq(Records) /\ (taken \o box) \o p = taken \o (box \o p)
  <2> HIDE DEF p
  <2>1. /\ \A a, b \in Seq(Records) : a \o b \in Seq(Records)
        /\ \A a, b, c \in Seq(Records) : (a \o b) \o c = a \o (b \o c)
    BY Zenon, ConcatLaws
  <2> QED
    BY Zenon, <1>4, <1>5, <1>6, <2>1
<1>8. Turn((taken \o box) \o p, fed + n)
  <2> DEFINE a == taken \o box
  <2>1. a \in Seq(Records) /\ Turn(a, fed)
    BY Zenon, <1>5, <1>7
  <2> HIDE DEF a
  <2>2. Turn(a \o p, fed + n)
    BY Zenon, <1>3, <1>4, <2>1, TurnNext
  <2> QED
    BY Zenon, <2>2 DEF a
<1>9. Sent' = (taken \o box) \o p
  BY Zenon, <1>1, <1>6, <1>7 DEF Sent
<1> QED
  BY Zenon, <1>1, <1>2, <1>5, <1>8, <1>9 DEF InTurn

\* A task that ends leaves its channel.
LEMMA LeaveInTurn == ASSUME WorkType, InTurn, NEW how, Leave(how) PROVE InTurn'
<1>1. UNCHANGED <<phase, fed, taken>> /\ inbox' = <<>>
  BY Zenon DEF Leave, control, history
<1>2. SUFFICES ASSUME phase = "engine" PROVE InTurn'
  BY Zenon, <1>1 DEF InTurn
<1>3. /\ taken \in Seq(Records) /\ Turn(taken \o Joined(inbox), fed)
      /\ inbox \in Seq(Seq(Records))
  BY Zenon, <1>2 DEF InTurn, Sent, WorkType
<1>4. Joined(inbox) \in Seq(Records)
  BY Zenon, <1>3, JoinedTyped
<1>5. Turn(taken, fed)
  BY Zenon, <1>3, <1>4, TurnFirst
<1>6. Joined(<<>>) = <<>>
  <2>1. Len(<<>>) \in Nat /\ \A i \in 1 .. Len(<<>>) : FALSE
    OBVIOUS
  <2> QED
    BY Zenon, <2>1, JoinedEmpty
<1>7. Sent' = taken
  BY Zenon, <1>1, <1>3, <1>6, ConcatLaws DEF Sent
<1> QED
  BY Zenon, <1>1, <1>3, <1>5, <1>7 DEF InTurn

-----------------------------------------------------------------------------
(* What was taken is given, or still owed *)

\* What a sink must be given: of the records of each rule those it wants; in
\* the infra task, of all records those it is the replica for.
Claim(s, S, T) ==
  /\ s \in Sinks
  /\ \/ /\ kind = "group"
        /\ \E m \in {MetaOf[r] : r \in Records} : S = OfRule(m) /\ T = OfRule(m) \intersect Wants[s]
     \/ kind # "group" /\ S = Records /\ T = Own(s)

Paid(s, S, T) == Among(accepted[s], S) \o Debt(jobs, s, S) = Among(taken, T)

\* Of what was taken, a sink has been given what the jobs do not owe it.
Served == (phase = "engine" /\ pc # "failed") => \A s, S, T : Claim(s, S, T) => Paid(s, S, T)

\* No jobs, no debts.
LEMMA NothingOwed == \A s, S : Debt(<<>>, s, S) = <<>>
<1>1. <<>> \in Seq(Jobs) /\ DOMAIN <<>> = {}
  OBVIOUS
<1> QED
  BY Zenon, <1>1, DebtNone

\* Steps that neither take nor give.
LEMMA ServedKept ==
  ASSUME Served, UNCHANGED <<kind, phase, jobs, accepted, taken>>, pc' # "failed" => pc # "failed"
  PROVE  Served'
  BY Zenon DEF Served, Claim, Paid

\* The package taken is owed.
LEMMA RecvServed ==
  ASSUME WorkType, WaitsIdle, InTurn, Served, RecvPackage, phase = "engine"
  PROVE  Served'
<1> DEFINE p == Head(inbox)
<1>1. inbox \in Seq(Seq(Records)) /\ inbox # <<>> /\ pc = "select" /\ pc # "failed"
  BY Zenon DEF WorkType, RecvPackage
<1>2. p \in Seq(Records) /\ taken \in Seq(Records)
  BY Zenon, <1>1, JoinedHead DEF InTurn
<1>3. jobs = <<>>
  BY <1>1 DEF WaitsIdle
<1>4. UNCHANGED <<kind, phase, accepted>> /\ taken' = taken \o p
  BY Zenon DEF RecvPackage, Recording, control
<1>5. ASSUME NEW s, NEW S, NEW T, Claim(s, S, T) PROVE Debt(jobs', s, S) = Among(p, T)
  <2>1. CASE kind = "group"
    <3>1. s \in Sinks
      BY Zenon, <1>5 DEF Claim
    <3>2. PICK m \in {MetaOf[r] : r \in Records} : S = OfRule(m) /\ T = OfRule(m) \intersect Wants[s]
      BY Zenon, <1>5, <2>1 DEF Claim
    <3>3. kind # "infra"
      BY <2>1
    <3>4. PICK rules \in Orders(p) : jobs' = NonEmpty(GroupJobs(p, rules))
      BY Zenon, <3>3 DEF RecvPackage
    <3> HIDE DEF p
    <3>5. Debt(NonEmpty(GroupJobs(p, rules)), s, OfRule(m)) = Among(p, OfRule(m) \intersect Wants[s])
      BY <1>2, <3>1, <3>4, GroupJobsOwe
    <3> QED
      BY Zenon, <3>2, <3>4, <3>5
  <2>2. CASE kind # "group"
    <3>1. s \in Sinks /\ S = Records /\ T = Own(s)
      BY Zenon, <1>5, <2>2 DEF Claim
    <3>2. jobs' = NonEmpty(InfraJobs(p))
      BY Zenon, <2>2 DEF RecvPackage
    <3> QED
      BY Zenon, <1>2, <3>1, <3>2, InfraJobsOwe
  <2> QED
    BY Zenon, <2>1, <2>2
<1> HIDE DEF p
<1>6. ASSUME NEW s, NEW S, NEW T, Claim(s, S, T) PROVE Paid(s, S, T)'
  <2> DEFINE a == Among(accepted[s], S)
  <2>1. accepted[s] \in Seq(Records)
    BY Zenon, <1>6 DEF Claim, WorkType
  <2>2. a \in Seq(Records)
    BY Zenon, <2>1, AmongIsJoined
  <2>3. a \o <<>> = Among(taken, T)
    BY Zenon, <1>1, <1>3, <1>6, NothingOwed DEF Served, Paid
  <2>4. a = Among(taken, T)
    <3> HIDE DEF a
    <3> QED
      BY Zenon, <2>2, <2>3, ConcatLaws
  <2>5. Among(taken \o p, T) = Among(taken, T) \o Among(p, T)
    BY <1>2, AmongConcat
  <2>6. Debt(jobs', s, S) = Among(p, T)
    BY Zenon, <1>5, <1>6
  <2> QED
    BY Zenon, <1>4, <2>4, <2>5, <2>6 DEF Paid
<1>7. \A s, S, T : Claim(s, S, T)' => Claim(s, S, T)
  BY Zenon, <1>4 DEF Claim
<1> QED
  BY Zenon, <1>6, <1>7 DEF Served

\* The next job gives what it owes, or is not over.
LEMMA NextJobServed ==
  ASSUME WorkType, InTurn, Served, NextJob, phase = "engine"
  PROVE  Served'
<1> DEFINE j == Head(jobs)
<1>1. PICK b \in Seq(Records), r \in Seq(Records), over \in BOOLEAN :
        CutStep(j.sink, j.recs, b, r, over)
  BY Zenon, NextJobCuts
<1>2. j.sink \in Sinks /\ j.recs \in Seq(Records)
  BY Zenon, NextJobCuts
<1>3. UNCHANGED <<kind, phase, taken>> /\ jobs # <<>> /\ pc = "work" /\ pc # "failed"
  BY Zenon DEF NextJob, control
<1>4. CASE ~over
  <2>1. jobs' = jobs /\ accepted' = accepted
    BY Zenon, <1>1, <1>4 DEF CutStep
  <2> QED
    BY Zenon, <1>3, <2>1, ServedKept
<1>5. CASE over
  <2>1. jobs' = Tail(jobs) /\ accepted' = [accepted EXCEPT ![j.sink] = accepted[j.sink] \o j.recs]
    BY Zenon, <1>1, <1>5 DEF CutStep, Recording
  <2>2. jobs \in Seq(Jobs)
    BY Zenon DEF WorkType
  <2>3. ASSUME NEW s, NEW S, NEW T, Claim(s, S, T) PROVE Paid(s, S, T)'
    <3> DEFINE acc == accepted[s]
               rest == Tail(jobs)
    <3>1. s \in Sinks /\ acc \in Seq(Records)
      BY Zenon, <2>3 DEF Claim, WorkType
    <3>2. Among(acc, S) \o Debt(jobs, s, S) = Among(taken, T)
      BY Zenon, <1>3, <2>3 DEF Served, Paid
    <3>3. /\ j \in Jobs /\ rest \in Seq(Jobs)
          /\ Debt(jobs, s, S) = Share(j, s, S) \o Debt(rest, s, S)
      BY <1>3, <2>2, DebtHead
    <3>4. Debt(rest, s, S) \in Seq(Records)
      BY Zenon, <3>3, SharesTyped
    <3>5. Share(j, s, S) \in Seq(Records) /\ Among(acc, S) \in Seq(Records)
      BY Zenon, <3>1, <3>3, ShareTyped, AmongIsJoined
    <3> HIDE DEF j, rest
    <3>6. (Among(acc, S) \o Share(j, s, S)) \o Debt(rest, s, S) = Among(taken, T)
      <4>1. \A x, y, z \in Seq(Records) : (x \o y) \o z = x \o (y \o z)
        BY Zenon, ConcatLaws
      <4>2. Among(acc, S) \o (Share(j, s, S) \o Debt(rest, s, S)) = Among(taken, T)
        BY Zenon, <3>2, <3>3
      <4> QED
        BY Zenon, <3>4, <3>5, <4>1, <4>2
    <3>7. Among(accepted'[s], S) = Among(acc, S) \o Share(j, s, S)
      <4>1. CASE s = j.sink
        <5>1. accepted'[s] = acc \o j.recs
          BY Zenon, <1>2, <2>1, <4>1 DEF WorkType
        <5>2. Among(acc \o j.recs, S) = Among(acc, S) \o Among(j.recs, S)
          <6>1. \A x, y \in Seq(Records) : Among(x \o y, S) = Among(x, S) \o Among(y, S)
            BY AmongConcat
          <6> QED
            BY Zenon, <1>2, <3>1, <6>1
        <5> QED
          BY Zenon, <4>1, <5>1, <5>2 DEF Share
      <4>2. CASE s # j.sink
        <5>1. accepted'[s] = acc
          BY Zenon, <1>2, <2>1, <3>1, <4>2 DEF WorkType
        <5>2. Share(j, s, S) = <<>>
          BY Zenon, <4>2 DEF Share
        <5> QED
          BY Zenon, <3>5, <5>1, <5>2, ConcatLaws
      <4> QED
        BY Zenon, <4>1, <4>2
    <3> QED
      BY Zenon, <1>3, <2>1, <3>6, <3>7 DEF Paid, rest
  <2>4. \A s, S, T : Claim(s, S, T)' => Claim(s, S, T)
    BY Zenon, <1>3 DEF Claim
  <2> QED
    BY Zenon, <2>3, <2>4 DEF Served
<1> QED
  BY Zenon, <1>4, <1>5

\* A flush owes nothing.
LEMMA FlushServed ==
  ASSUME WaitsIdle, Served, FlushTick \/ ChannelDrained
  PROVE  Served'
<1>1. UNCHANGED <<kind, phase, accepted, taken>> /\ jobs' = FlushAll /\ pc = "select"
  BY Zenon DEF FlushTick, ChannelDrained, control, history
<1>2. jobs = <<>> /\ pc # "failed"
  BY <1>1 DEF WaitsIdle
<1>3. \A s, S : Debt(FlushAll, s, S) = <<>>
  BY Zenon, FlushAllIs, DebtNone
<1>4. \A s, S : Debt(jobs', s, S) = Debt(jobs, s, S)
  BY Zenon, <1>1, <1>2, <1>3, NothingOwed
<1>5. \A s, S, T : Claim(s, S, T)' => Claim(s, S, T)
  BY Zenon, <1>1 DEF Claim
<1>6. \A s, S, T : Paid(s, S, T) => Paid(s, S, T)'
  BY Zenon, <1>1, <1>4 DEF Paid
<1> QED
  BY Zenon, <1>1, <1>2, <1>5, <1>6 DEF Served

-----------------------------------------------------------------------------
(* Every step *)

\* While the engine runs, nothing is replayed.
NoReplay == phase = "engine" => rpc = "off"

\* The steps of the group, as to what was sent.
LEMMA GroupInTurn ==
  ASSUME WorkType, InTurn, GroupTask \/ WriteError
  PROVE  InTurn'
<1>1. CASE phase # "engine"
  BY Zenon, <1>1, GroupLives DEF InTurn
<1>2. CASE phase = "engine"
  <2>1. CASE RecvPackage
    BY Zenon, <1>2, <2>1, RecvInTurn
  <2>2. CASE StatFails \/ StopBackends \/ \E s \in Sinks : WriteThrown(s)
    BY Zenon, <2>2, LeaveInTurn DEF StatFails, StopBackends, WriteThrown
  <2>3. CASE \/ SkipWrite
             \/ \E s \in Sinks : WriteReal(s) \/ WriteRescue(s) \/ WriteDropped(s) \/ WriteTolerated(s)
    <3>1. UNCHANGED <<phase, fed, inbox, taken>>
      BY Zenon, <2>3, WriteSettles DEF Settle, control
    <3> QED
      BY Zenon, <3>1, InTurnKept
  <2>4. CASE NextJob \/ FlushTick \/ ChannelDrained \/ QueueBad \/ TakeBack \/ \E s \in Sinks : Swap(s)
    <3>1. UNCHANGED <<phase, fed, inbox, taken>>
      BY Zenon, <2>4 DEF NextJob, FlushTick, ChannelDrained, QueueBad, TakeBack, Swap, control, history
    <3> QED
      BY Zenon, <3>1, InTurnKept
  <2> QED
    BY Zenon, <2>1, <2>2, <2>3, <2>4 DEF GroupTask, WriteError
<1> QED
  BY Zenon, <1>1, <1>2

\* The same steps, as to what is owed.
LEMMA GroupServed ==
  ASSUME WorkType, WaitsIdle, InTurn, Served, GroupTask \/ WriteError
  PROVE  Served'
<1>1. CASE phase # "engine"
  BY Zenon, <1>1, GroupLives DEF Served
<1>2. CASE phase = "engine"
  <2>1. CASE RecvPackage \/ NextJob \/ FlushTick \/ ChannelDrained
    BY Zenon, <1>2, <2>1, RecvServed, NextJobServed, FlushServed
  <2>2. CASE StatFails \/ \E s \in Sinks : WriteThrown(s)
    <3>1. pc' = "failed"
      BY Zenon, <2>2 DEF StatFails, WriteThrown, Leave
    <3> QED
      BY Zenon, <3>1 DEF Served
  <2>3. CASE \/ SkipWrite
             \/ \E s \in Sinks : WriteReal(s) \/ WriteRescue(s) \/ WriteDropped(s) \/ WriteTolerated(s)
    <3>1. UNCHANGED <<kind, phase, jobs, accepted, taken>>
      BY Zenon, <2>3, WriteSettles DEF Settle, control
    <3> QED
      BY Zenon, <3>1, GroupLives, ServedKept
  <2>4. CASE QueueBad \/ TakeBack \/ \E s \in Sinks : Swap(s)
    <3>1. UNCHANGED <<kind, phase, jobs, accepted, taken>>
      BY Zenon, <2>4 DEF QueueBad, TakeBack, Swap, control, history
    <3> QED
      BY Zenon, <3>1, GroupLives, ServedKept
  <2>5. CASE StopBackends
    <3>1. pc = "ending" /\ jobs' = <<>> /\ UNCHANGED <<kind, phase, accepted, taken>>
      BY Zenon, <2>5 DEF StopBackends, Leave, control, history
    <3>2. jobs = <<>>
      BY <3>1 DEF WaitsIdle
    <3> QED
      BY Zenon, <3>1, <3>2, GroupLives, ServedKept
  <2> QED
    BY Zenon, <2>1, <2>2, <2>3, <2>4, <2>5 DEF GroupTask, WriteError
<1> QED
  BY Zenon, <1>1, <1>2

\* Of the history, nothing changes aside.
LEMMA AsideHistory == Aside => UNCHANGED <<kind, taken>>
<1>1. CASE InGroup(Maintainer) \/ InGroup(MayStopMaintainer /\ MaintEnds)
  BY Zenon, <1>1 DEF InGroup, Maintainer, MaintTake, ReconnectOk, ReconnectErr, MaintSendFix,
       MaintSendBad, MaintEnds, task, control, history
<1>2. CASE InGroup(\E s \in Sinks : CooldownEnds(s)) \/ InGroup(MonitorDies)
  BY Zenon, <1>2 DEF InGroup, CooldownEnds, MonitorDies, control, history
<1>3. CASE Interrupt \/ UNCHANGED vars
  BY Zenon, <1>3 DEF Interrupt, vars, group, groupRest, history
<1> QED
  BY Zenon, <1>1, <1>2, <1>3 DEF Aside

\* No step of the replay starts where there is none.
LEMMA ReplayIsOn == R!Replay => rpc # "off"
<1>1. CASE R!LoadPoint \/ R!Open \/ R!NoAgent \/ R!NoRescueFile \/ R!IdleExit \/ R!SendLine
  BY <1>1 DEF R!LoadPoint, R!Open, R!NoAgent, R!NoRescueFile, R!IdleExit, R!SendLine
<1>2. CASE R!SendFails \/ R!EndOfFile \/ R!UnitEnd \/ R!SavePoint \/ R!UnitPause \/ R!Pause
  BY <1>2 DEF R!SendFails, R!EndOfFile, R!UnitEnd, R!SavePoint, R!UnitPause, R!Pause
<1> QED
  BY Zenon, <1>1, <1>2 DEF R!Replay

\* Every step of the system.
LEMMA NextDispatch ==
  ASSUME Whole, NoReplay, InTurn, Served, [Next]_vars
  PROVE  NoReplay' /\ InTurn' /\ Served'
<1>1. WorkType /\ WaitsIdle
  BY Zenon DEF Whole
<1>2. CASE InGroup(GroupTask) \/ InGroup(WriteError)
  <2>1. GroupTask \/ WriteError
    BY Zenon, <1>2 DEF InGroup
  <2>2. NoReplay'
    BY Zenon, <1>2, <2>1, GroupLives DEF InGroup, recovery, NoReplay
  <2> QED
    BY Zenon, <1>1, <2>1, <2>2, GroupInTurn, GroupServed
<1>3. CASE Aside
  <2>1. UNCHANGED <<kind, phase, fed, inbox, jobs, accepted, taken, pc, rpc>>
    BY Zenon, <1>3, AsideKeeps, AsideHistory DEF work
  <2>2. NoReplay'
    BY Zenon, <2>1 DEF NoReplay
  <2> QED
    BY Zenon, <2>1, <2>2, InTurnKept, ServedKept
<1>4. CASE InGroup(Feed)
  <2>1. Feed /\ UNCHANGED <<kind, phase, jobs, accepted, taken, pc, rpc>>
    BY Zenon, <1>4 DEF InGroup, Feed, history, recovery
  <2>2. NoReplay'
    BY Zenon, <2>1 DEF NoReplay
  <2> QED
    BY Zenon, <1>1, <2>1, <2>2, FeedInTurn, ServedKept
<1>5. CASE InGroup(MayStopTask /\ StopTask)
  <2>1. UNCHANGED <<kind, phase, fed, inbox, jobs, accepted, taken, pc, rpc>>
    BY Zenon, <1>5 DEF InGroup, StopTask, control, history, recovery
  <2>2. NoReplay'
    BY Zenon, <2>1 DEF NoReplay
  <2> QED
    BY Zenon, <2>1, <2>2, InTurnKept, ServedKept
<1>6. CASE InRecovery(R!Replay)
  <2>1. UNCHANGED <<kind, phase, jobs, accepted, taken, pc>> /\ R!Replay
    BY Zenon, <1>6 DEF InRecovery, groupRest, history
  <2>2. phase' # "engine"
    BY Zenon, <2>1, ReplayIsOn DEF NoReplay
  <2> QED
    BY Zenon, <2>2 DEF NoReplay, InTurn, Served
<1>7. CASE Crash \/ StartRescue
  <2>1. phase' # "engine"
    BY <1>7 DEF Crash, StartRescue
  <2> QED
    BY Zenon, <2>1 DEF NoReplay, InTurn, Served
<1> QED
  BY Zenon, <1>2, <1>3, <1>4, <1>5, <1>6, <1>7 DEF Next, Aside

\* An engine that starts.
LEMMA InitDispatch == Init => NoReplay /\ InTurn /\ Served
<1> SUFFICES ASSUME Init PROVE NoReplay /\ InTurn /\ Served
  OBVIOUS
<1>1. /\ rpc = "off" /\ inbox = <<>> /\ taken = <<>> /\ jobs = <<>> /\ fed = 0
      /\ accepted = [s \in Sinks |-> <<>>]
  BY Zenon DEF Init, GroupInit
<1>2. NoReplay
  BY Zenon, <1>1 DEF NoReplay
<1>3. /\ <<>> \in Seq(Records) /\ <<>> \o <<>> = <<>> /\ Len(<<>>) \in Nat
      /\ 1 .. Len(<<>>) = {} /\ DOMAIN <<>> = {}
  OBVIOUS
<1>4. InTurn
  <2>1. Joined(<<>>) = <<>>
    BY Zenon, <1>3, JoinedEmpty
  <2>2. Sent = <<>>
    BY Zenon, <1>1, <1>3, <2>1 DEF Sent
  <2>3. Turn(<<>>, fed)
    BY Zenon, <1>3 DEF Turn, Rising
  <2> QED
    BY Zenon, <1>1, <1>3, <2>2, <2>3 DEF InTurn
<1>5. \A T : Among(<<>>, T) = <<>>
  <2>1. \A T : Len(Parts(<<>>, T)) \in Nat /\ \A i \in 1 .. Len(Parts(<<>>, T)) : FALSE
    BY Zenon, <1>3, AmongIsJoined
  <2>2. \A T : Joined(Parts(<<>>, T)) = <<>>
    BY Zenon, <2>1, JoinedEmpty
  <2> QED
    BY Zenon, <1>3, <2>2, AmongIsJoined
<1>6. ASSUME NEW s, NEW S, NEW T, Claim(s, S, T) PROVE Paid(s, S, T)
  <2>1. accepted[s] = <<>>
    BY Zenon, <1>1, <1>6 DEF Claim
  <2>2. Debt(jobs, s, S) = <<>>
    BY Zenon, <1>1, NothingOwed
  <2> QED
    BY Zenon, <1>1, <1>3, <1>5, <2>1, <2>2 DEF Paid
<1> QED
  BY Zenon, <1>2, <1>4, <1>6 DEF Served

-----------------------------------------------------------------------------
(* The replicas of a sink *)

\* A record has one replica among the sinks of a name.
LEMMA ReplicaIs ==
  ASSUME NEW r \in Records, NEW t \in Sinks
  PROVE  ReplicaOf(r, NameOf[t]) \in Sinks /\ NameOf[ReplicaOf(r, NameOf[t])] = NameOf[t]
<1> DEFINE ids == [s \in Sinks |-> s]
           at == {s \in Sinks : NameOf[s] = NameOf[t]}
           same == Picked(ids, at)
<1>1. ids \in Seq(Sinks) /\ DOMAIN ids = Sinks /\ \A s \in Sinks : ids[s] = s
  BY GroupAssumption DEF Sinks
<1>2. ReplicaOf(r, NameOf[t]) = same[(r % Len(same)) + 1]
  BY Zenon DEF ReplicaOf
<1> HIDE DEF ids
<1>3. same \in Seq(Sinks) /\ Queued(same) = {ids[k] : k \in at \intersect DOMAIN ids}
  <2> HIDE DEF at
  <2>1. \A T : \A seq \in Seq(Sinks) :
          /\ Picked(seq, T) \in Seq(Sinks)
          /\ Queued(Picked(seq, T)) = {seq[k] : k \in T \intersect DOMAIN seq}
    BY PickedHolds
  <2>2. ids \in Seq(Sinks)
    BY <1>1
  <2>3. Picked(ids, at) \in Seq(Sinks)
    BY <2>1, <2>2
  <2>4. Queued(Picked(ids, at)) = {ids[k] : k \in at \intersect DOMAIN ids}
    BY <2>1, <2>2
  <2> QED
    BY <2>3, <2>4
<1>4. t \in Queued(same) /\ \A s \in Queued(same) : s \in at
  BY Zenon, <1>1, <1>3
<1> HIDE DEF same
<1>5. /\ Len(same) \in Nat /\ DOMAIN same = 1 .. Len(same)
      /\ 1 .. Len(same) # {}
  BY <1>3, <1>4 DEF Queued
<1>6. r \in Nat
  BY GroupAssumption DEF Records
<1>7. (r % Len(same)) + 1 \in 1 .. Len(same)
  <2> DEFINE n == Len(same)
  <2>1. n \in Nat /\ 1 .. n # {}
    BY <1>5
  <2> HIDE DEF n
  <2>2. (r % n) + 1 \in 1 .. n
    BY <1>6, <2>1
  <2> QED
    BY Zenon, <2>2 DEF n
<1>8. same[(r % Len(same)) + 1] \in at
  BY Zenon, <1>4, <1>5, <1>7 DEF Queued
<1> QED
  BY Zenon, <1>2, <1>8

\* What is in a part of a sequence.
LEMMA AmongHolds ==
  ASSUME NEW S, NEW seq \in Seq(S), NEW T, NEW i \in DOMAIN seq
  PROVE  seq[i] \in Queued(Among(seq, T)) <=> seq[i] \in T
<1> DEFINE at == {k \in DOMAIN seq : seq[k] \in T}
<1>1. Queued(Picked(seq, at)) = {seq[k] : k \in at \intersect DOMAIN seq}
  BY Zenon, PickedHolds
<1> QED
  BY Zenon, <1>1 DEF Among

\* Between two packages, every record taken from the channel has been given to
\* every sink that wants it, in the order of its rule, and in the infra task to
\* one replica of every name: for any conditions, rules, names and packages,
\* and whatever fails on the way.
THEOREM RecordsAreDispatched == Spec => []EveryRecordDispatched
<1>1. ASSUME Whole, InTurn, Served, phase = "engine", pc \in {"select", "ending", "done"}
      PROVE  IF kind = "group"
             THEN \A s \in Sinks, m \in {MetaOf[r] : r \in Records} :
                    Among(accepted[s], OfRule(m)) = Among(taken, OfRule(m) \intersect Wants[s])
             ELSE /\ \A s \in Sinks : Increasing(accepted[s])
                  /\ \A i \in DOMAIN taken, n \in {NameOf[s] : s \in Sinks} :
                       \E s \in Sinks : {t \in Sinks : NameOf[t] = n /\ taken[i] \in Given(t)} = {s}
  <2>1. jobs = <<>> /\ pc # "failed"
    BY <1>1 DEF Whole, WaitsIdle
  <2>2. taken \in Seq(Records) /\ Turn(Sent, fed) /\ \A s \in Sinks : accepted[s] \in Seq(Records)
    BY Zenon, <1>1 DEF InTurn, Whole, WorkType
  <2>3. ASSUME NEW s, NEW S, NEW T, Claim(s, S, T) PROVE Among(accepted[s], S) = Among(taken, T)
    <3>1. Among(accepted[s], S) \o <<>> = Among(taken, T)
      BY Zenon, <1>1, <2>1, <2>3, NothingOwed DEF Served, Paid
    <3>2. Among(accepted[s], S) \in Seq(Records)
      BY Zenon, <2>2, <2>3, AmongIsJoined DEF Claim
    <3> QED
      BY Zenon, <3>1, <3>2, ConcatLaws
  <2>4. CASE kind = "group"
    <3>1. ASSUME NEW s \in Sinks, NEW m \in {MetaOf[r] : r \in Records}
          PROVE  Among(accepted[s], OfRule(m)) = Among(taken, OfRule(m) \intersect Wants[s])
      <4>1. Claim(s, OfRule(m), OfRule(m) \intersect Wants[s])
        BY Zenon, <2>4 DEF Claim
      <4> QED
        BY Zenon, <2>3, <4>1
    <3> QED
      BY Zenon, <2>4, <3>1
  <2>5. CASE kind # "group"
    <3>1. ASSUME NEW s \in Sinks PROVE accepted[s] = Among(taken, Own(s))
      <4>1. Claim(s, Records, Own(s))
        BY Zenon, <2>5 DEF Claim
      <4>2. Among(accepted[s], Records) = accepted[s]
        BY Zenon, <2>2, AmongAll
      <4> QED
        BY Zenon, <2>3, <4>1, <4>2
    <3>2. Rising(taken)
      <4>1. Joined(inbox) \in Seq(Records)
        BY Zenon, <1>1, JoinedTyped DEF Whole, WorkType
      <4>2. Turn(taken, fed)
        BY Zenon, <2>2, <4>1, TurnFirst DEF Sent
      <4> QED
        BY Zenon, <4>2 DEF Turn
    <3>3. ASSUME NEW s \in Sinks PROVE Increasing(accepted[s])
      <4>1. Rising(Among(taken, Own(s))) /\ Among(taken, Own(s)) \in Seq(Records)
        BY Zenon, <2>2, <3>2, AmongRises, AmongIsJoined
      <4> QED
        BY Zenon, <3>1, <4>1, RisingIncreases
    <3>4. ASSUME NEW i \in DOMAIN taken, NEW n \in {NameOf[s] : s \in Sinks}
          PROVE  \E s \in Sinks : {t \in Sinks : NameOf[t] = n /\ taken[i] \in Given(t)} = {s}
      <4> DEFINE r == taken[i]
                 own == ReplicaOf(r, n)
                 Owners == {s \in Sinks : NameOf[s] = n /\ r \in Given(s)}
      <4>1. r \in Records
        BY <2>2
      <4>2. PICK t \in Sinks : n = NameOf[t]
        BY Zenon
      <4>3. own \in Sinks /\ NameOf[own] = n
        BY Zenon, <4>1, <4>2, ReplicaIs
      <4>4. \A s \in Sinks : r \in Given(s) <=> r \in Own(s)
        BY Zenon, <2>2, <3>1, AmongHolds DEF Given
      <4> HIDE DEF r
      <4>5. \A s \in Sinks : r \in Own(s) <=> ReplicaOf(r, NameOf[s]) = s
        BY Zenon, <4>1 DEF Own
      <4>6. Owners = {own}
        BY Zenon, <4>3, <4>4, <4>5
      <4> HIDE DEF Owners, own
      <4>7. \E s \in Sinks : Owners = {s}
        BY Zenon, <4>3, <4>6
      <4> QED
        BY Zenon, <4>7 DEF Owners, r
    <3> QED
      BY Zenon, <2>5, <3>3, <3>4
  <2> QED
    BY Zenon, <2>4, <2>5
<1>2. Whole /\ InTurn /\ Served => EveryRecordDispatched
  BY Zenon, <1>1 DEF EveryRecordDispatched
<1>3. Whole /\ (NoReplay /\ InTurn /\ Served) /\ [Next]_vars => (NoReplay /\ InTurn /\ Served)'
  BY Zenon, NextDispatch
<1> QED
  BY <1>2, <1>3, InitDispatch, WholeInvariance, PTL DEF Spec

-----------------------------------------------------------------------------
(* Room in the queues *)

LOCAL INSTANCE FiniteSetTheorems

\* A queue of sinks without repetition that misses one has room for it.
LEMMA RoomForOne ==
  ASSUME NEW q \in Seq(Sinks), NoRepeat(q), NEW x \in Sinks, x \notin Queued(q)
  PROVE  Len(q) < QueueCap
<1>1. NSinks \in Nat /\ QueueCap \in Nat /\ NSinks <= QueueCap
  BY GroupAssumption
<1>2. IsFiniteSet(Sinks) /\ Cardinality(Sinks) = NSinks
  BY <1>1, FS_Interval DEF Sinks
<1>3. IsFiniteSet(Sinks \ {x}) /\ Cardinality(Sinks \ {x}) = NSinks - 1
  BY <1>2, FS_RemoveElement
<1>4. Len(q) \in Nat /\ q \in [1..Len(q) -> Sinks \ {x}]
  BY DEF Queued
<1>5. IsFiniteSet(1..Len(q)) /\ Cardinality(1..Len(q)) = Len(q)
  <2>1. 1 \in Int /\ Len(q) \in Int
    BY <1>4
  <2>2. /\ IsFiniteSet(1..Len(q))
        /\ Cardinality(1..Len(q)) = IF 1 > Len(q) THEN 0 ELSE Len(q) - 1 + 1
    BY ONLY <2>1, FS_Interval
  <2> QED
    BY <2>2, <1>4
<1>6. CASE NSinks - 1 < Len(q)
  <2>1. \E i, j \in 1..Len(q) : i # j /\ q[i] = q[j]
    BY <1>3, <1>4, <1>5, <1>6, FS_PigeonHole
  <2> QED
    BY <2>1, <1>4 DEF NoRepeat
<1> QED
  BY <1>1, <1>4, <1>6

\* With queues that have room for every sink (100 in fix_channel), neither the
\* task nor the maintainer ever waits to hand a backend over.
THEOREM HandOverIsImmediate == Spec => []HandleSendsNeverWait
<1>1. ASSUME Inv PROVE HandleSendsNeverWait
  <2>1. pc = "hand" => Len(badQ) < QueueCap
    BY Zenon, <1>1, SinkIsPositive, RoomForOne DEF Inv, HandleType, OneOwner, InHand
  <2>2. mpc = "bad" => Len(badQ) < QueueCap
    BY Zenon, <1>1, SinkIsPositive, RoomForOne DEF Inv, HandleType, OneOwner, InHand
  <2>3. mpc = "fixed" => Len(fixQ) < QueueCap
    BY <1>1, SinkIsPositive, RoomForOne DEF Inv, HandleType, OneOwner, InHand
  <2> QED
    BY Zenon, <2>1, <2>2, <2>3 DEF HandleSendsNeverWait
<1>2. Inv => HandleSendsNeverWait
  BY Zenon, <1>1
<1> QED
  BY <1>2, Invariance, PTL

=============================================================================

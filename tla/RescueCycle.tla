----------------------------- MODULE RescueCycle -----------------------------
(***************************************************************************)
(* The life of the rescue directory: the engine's sink group writes rescue *)
(* files, ends or crashes, and then wprescue (recover_main) replays them   *)
(* through a group of the same kind, which may fail and write new ones.    *)
(***************************************************************************)
EXTENDS SinkGroup

CONSTANTS
  Unit,      \* lines between two looks at the commands
  MaxReplayFaults, \* bound: write errors and monitor deaths in wprescue
  MaxInterrupts    \* bound: crashes of a process and signals to wprescue

VARIABLES rpc, ckpt, rfile, rpos, idle, sig, outer, inner, agents, sent, interrupts

R == INSTANCE Recovery

recovery == <<rpc, ckpt, rfile, rpos, idle, sig, outer, inner, agents, sent>>
groupRest == <<kind, phase, fed, closed, pc, drain, jobs, cur, handles, pending, open,
               mon, faults, history, made>>
group == <<groupRest, inbox, files>>
vars == <<group, recovery, interrupts>>

FreshRecovery(at) ==
  /\ rpc' = at /\ rfile' = 0 /\ rpos' = 0 /\ idle' = FALSE /\ sig' = FALSE
  /\ outer' = FALSE /\ inner' = FALSE /\ sent' = {}

Init ==
  /\ GroupInit
  /\ rpc = "off" /\ rfile = 0 /\ rpos = 0 /\ idle = FALSE /\ sig = FALSE
  /\ outer = FALSE /\ inner = FALSE /\ sent = {} /\ agents = TRUE /\ ckpt = "ok"
  /\ interrupts = MaxInterrupts

-----------------------------------------------------------------------------
(* The process dies between any two steps.  A rescue file that was open keeps
   its .lock name; how much of it had left the write buffer is left open, as
   nobody reads the file again. *)

Crash ==
  /\ interrupts > 0 /\ phase # "down"
  /\ interrupts' = interrupts - 1
  /\ phase' = "down" /\ fed' = NRec
  /\ files' = [f \in DOMAIN files |->
       IF f \in OpenFiles THEN [files[f] EXCEPT !.recs = <<>>, !.st = "orphan"] ELSE files[f]]
  /\ FreshMemory(FALSE) /\ FreshRecovery("off")
  /\ UNCHANGED <<kind, faults, agents, ckpt>>

\* recover_main; whether the sinks of the files are still configured is a
\* matter of the configuration it finds.
StartRescue ==
  /\ kind = "group"
  /\ phase = "down" \/ (phase = "engine" /\ TaskOver /\ mpc = "off")
  /\ phase' = "rescue" /\ fed' = NRec
  /\ agents' \in BOOLEAN
  /\ FreshMemory(TRUE) /\ FreshRecovery("load")
  /\ faults' = IF faults > MaxReplayFaults THEN MaxReplayFaults ELSE faults
  /\ UNCHANGED <<kind, files, ckpt, interrupts>>

-----------------------------------------------------------------------------
(* Who stops whom.  The engine stops the maintainer before the sinks on exit
   and after them in a reload; wprescue, once its picker has ended, stops the
   maintainer, then the sinks. *)

MayStopMaintainer == phase = "engine" \/ rpc = "over"
MayStopTask == phase = "engine" \/ (rpc = "over" /\ mpc = "off")

InGroup(A) == A /\ UNCHANGED <<recovery, interrupts>>
InRecovery(A) == A /\ UNCHANGED <<groupRest, interrupts>>

Interrupt ==
  /\ interrupts > 0 /\ interrupts' = interrupts - 1
  /\ R!Signal /\ UNCHANGED groupRest

Next ==
  \/ InGroup(GroupTask)
  \/ InGroup(WriteError)
  \/ InGroup(Maintainer)
  \/ InGroup(\E s \in Sinks : CooldownEnds(s))
  \/ InGroup(Feed)
  \/ InGroup(MonitorDies)
  \/ InGroup(MayStopMaintainer /\ MaintEnds)
  \/ InGroup(MayStopTask /\ StopTask)
  \/ InRecovery(R!Replay)
  \/ Interrupt
  \/ Crash
  \/ StartRescue

Fairness ==
  /\ WF_vars(InGroup(GroupTask))
  /\ WF_vars(InGroup(Maintainer))
  /\ SF_vars(InGroup(ReconnectOk))
  /\ SF_vars(InGroup(phase = "rescue" /\ MayStopMaintainer /\ MaintEnds))
  /\ WF_vars(InRecovery(R!Replay)) /\ SF_vars(InRecovery(R!IdleExit))
  /\ SF_vars(InGroup(phase = "rescue" /\ MayStopTask /\ StopTask))

Spec == Init /\ [][Next]_vars /\ Fairness

-----------------------------------------------------------------------------
(* Properties *)

Fates == {"sink", "file", "drop", "tolerated"}
FileStates == {"lock", "dat", "gone", "orphan"}

\* Every variable has its type; the replay only ever reads a finished file.
TypeOK ==
  /\ phase \in {"engine", "rescue", "down"} /\ fed \in 0..NRec
  /\ inbox \in Seq(Seq(Records)) /\ Len(inbox) <= InboxCap
  /\ pc \in {"select", "work", "hand", "ending", "done", "failed", "off"}
  /\ drain \in {"no", "draining", "final"}
  /\ jobs \in Seq([sink : Sinks, recs : Seq(Records)])
  /\ cur = NoBatch \/ cur \in [sink : Sinks, recs : Seq(Records) \ {<<>>}]
  /\ hand \in Sinks \union {0} /\ mh \in Sinks \union {0}
  /\ (hand # 0) = (pc = "hand") /\ (mh # 0) = (mpc \in {"hold", "fixed", "bad"})
  /\ \A s \in Sinks : {primary[s], retired[s]} \subseteq {0} \union DOMAIN files
  /\ badQ \in Seq(Sinks) /\ fixQ \in Seq(Sinks)
  /\ mpc \in {"poll", "hold", "fixed", "bad", "off"}
  /\ files \in Seq([sink : Sinks, recs : Seq(Records), st : FileStates])
  /\ \A s \in Sinks : settled[s] \in Seq([rec : Records, by : Fates])
  /\ rpc \in {"load", "scan", "line", "unit", "save", "pause", "saveLast"}
       => rfile = 0 \/ files[rfile].st = "dat"
  /\ ckpt \in {"ok", "torn"} /\ sent \subseteq Records

Queued(q) == {q[i] : i \in DOMAIN q}
NoRepeat(q) == \A i, j \in DOMAIN q : q[i] = q[j] => i = j
InHand == {hand, mh} \ {0}
Travelling == Queued(badQ) \union Queued(fixQ) \union InHand

\* The real backend of a sink has one owner: it never travels twice, it does
\* not travel while it is the primary, and it is not lost by the switch as long
\* as task and maintainer live.  This is what use_back_sink, the maintainer and
\* recover_sink (which accepts a handle only in rescue state) add up to.
OneOwner ==
  /\ NoRepeat(badQ) /\ NoRepeat(fixQ)
  /\ Queued(badQ) \intersect Queued(fixQ) = {}
  /\ InHand \intersect (Queued(badQ) \union Queued(fixQ)) = {}
  /\ hand # 0 => hand # mh
  /\ \A s \in Travelling : primary[s] # Real
  /\ (~TaskOver /\ mpc # "off") => \A s \in Sinks : primary[s] # Real => s \in Travelling

\* No send into the two handle queues ever has to wait, so the task (which
\* queues a bad sink from inside its write) and the maintainer (which puts a
\* sink back into the queue it reads itself) cannot block each other.
HandleSendsNeverWait ==
  /\ pc = "hand" => Len(badQ) < QueueCap
  /\ mpc = "bad" => Len(badQ) < QueueCap
  /\ (mpc = "fixed" /\ ~TaskOver) => Len(fixQ) < QueueCap

\* "One outage produces exactly one rescue file": between two deliveries by the
\* real sink at most one file is made, and the files being written are those
\* the sinks have as primary or keep as retired.
OneFilePerOutage ==
  /\ \A s \in Sinks : made[s] <= 1
  /\ \A s \in Sinks : backup[s] => retired[s] = NoFile
  /\ ~TaskOver => OpenFiles = (UNION {{primary[s], retired[s]} : s \in Sinks}) \ {0}

Recs(fates) == [i \in DOMAIN fates |-> fates[i].rec]

\* Through segments, pending buffer, fail-over and take-back a sink settles
\* the records it was given in their order, none twice and none skipped: what
\* is not settled is in the batch being written or pending.  A task that ends
\* normally has settled all, one that fails a prefix.
SettlesInOrder ==
  phase = "engine" =>
    \A s \in Sinks :
      IF pc = "failed"
      THEN /\ Len(settled[s]) <= Len(accepted[s])
           /\ Recs(settled[s]) = SubSeq(accepted[s], 1, Len(settled[s]))
      ELSE accepted[s] = Recs(settled[s])
                           \o (IF cur.sink = s THEN cur.recs ELSE <<>>) \o pending[s]

\* The records of a sequence that are in a set, in their order.
Among(seq, S) == Picked(seq, {i \in DOMAIN seq : seq[i] \in S})
OfRule(m) == {r \in Records : MetaOf[r] = m}
Increasing(seq) == \A i \in 2..Len(seq) : seq[i - 1] < seq[i]
Given(s) == Queued(accepted[s])

\* Between two packages, every record taken from the channel has been given to
\* every sink whose condition it satisfies, in the order of its rule; in the
\* infra task to exactly one replica of every name.
EveryRecordDispatched ==
  (phase = "engine" /\ pc \in {"select", "ending", "done"}) =>
    IF kind = "group"
    THEN \A s \in Sinks, m \in {MetaOf[r] : r \in Records} :
           Among(accepted[s], OfRule(m)) = Among(taken, OfRule(m) \intersect Wants[s])
    ELSE /\ \A s \in Sinks : Increasing(accepted[s])
         /\ \A i \in DOMAIN taken, n \in {NameOf[s] : s \in Sinks} :
              \E s \in Sinks : {t \in Sinks : NameOf[t] = n /\ taken[i] \in Given(t)} = {s}

\* A rescue file of a live task is "finalized only after a real delivery
\* succeeds": the step that renames it is a delivery by the sink it belongs to
\* (which ends the outage), or the end of the task.
FinalizedByDelivery ==
  [][\A f \in OpenFiles :
       files'[f].st = "dat" => made'[files[f].sink] = 0 \/ TaskOver']_vars

\* A rescue file disappears only when it was finished and every line of it was
\* sent to the dispatcher by the process that removes it, whatever an earlier
\* process had sent or noted in the check point before it crashed.
RemovedAfterReplay ==
  [][\A f \in DOMAIN files :
       (files[f].st # "gone" /\ files'[f].st = "gone")
         => files[f].st = "dat" /\ Queued(files[f].recs) \subseteq sent]_vars

\* A failed sink comes back: as long as task and maintainer run, a reconnect
\* that succeeds when tried again and again leads to the switch back.
SinkComesBack ==
  \A s \in Sinks :
    backup[s] ~> (~backup[s] \/ TaskOver \/ drain # "no" \/ mpc = "off")

\* wprescue comes to an end by itself, even when sinks fail again, as long as
\* the files belong to sinks that are configured.
RescueEnds ==
  (phase = "rescue" /\ agents) ~> (phase = "down" \/ (rpc = "over" /\ TaskOver))

=============================================================================

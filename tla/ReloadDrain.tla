----------------------------- MODULE ReloadDrain -----------------------------
(***************************************************************************)
(* The drain handshake of a hot reload.  Every parser, sink and infra      *)
(* worker of one processing epoch owns a ReloadDrainReporter; the engine's *)
(* ReloadDrainTracker counts the reports while wait_processing_drained     *)
(* runs.  Each epoch has a bus and a channel of its own, so the epoch and  *)
(* unsupported-role checks of observe() never fire and are left out.       *)
(***************************************************************************)
EXTENDS Integers, Sequences, FiniteSets

CONSTANTS Parsers, Sinks, Infras   \* the workers of the epoch, by role

ASSUME DrainAssumption ==
  /\ IsFiniteSet(Parsers) /\ IsFiniteSet(Sinks) /\ IsFiniteSet(Infras)
  /\ Parsers \cap Sinks = {} /\ Parsers \cap Infras = {} /\ Sinks \cap Infras = {}

VARIABLES
  reporter, \* what each worker's reporter still holds or has sent
  bus,      \* the unbounded channel of ReloadDrainEvents
  pending,  \* parser_pending, sink_pending, infra_pending
  wait      \* wait_processing_drained: not called, waiting, or its result

vars == <<reporter, bus, pending, wait>>

Workers == Parsers \cup Sinks \cup Infras
Roles == {"Parser", "Sink", "Infra"}
WorkersOf(role) ==
  CASE role = "Parser" -> Parsers [] role = "Sink" -> Sinks [] role = "Infra" -> Infras
Role(w) == CHOOSE role \in Roles : w \in WorkersOf(role)
Events == [worker : Workers, outcome : {"Drained", "Aborted"}]

is_fully_quiesced == \A role \in Roles : pending[role] = 0

\* Reporters and tracker are built together: one count per spawned worker.
Init ==
  /\ reporter = [w \in Workers |-> "armed"]
  /\ bus = <<>>
  /\ pending = [role \in Roles |-> Cardinality(WorkersOf(role))]
  /\ wait = "idle"

-----------------------------------------------------------------------------
(* The workers *)

\* Mutant: the pending event is cloned, not taken, so a worker can report twice.
send_pending_Cloned(w, outcome) ==
  /\ reporter[w] = "armed"
  /\ UNCHANGED reporter
  /\ bus' = Append(bus, [worker |-> w, outcome |-> outcome])
  /\ Len(bus) < 4

\* send_pending: take() makes a second call, and the drop after a notify, void.
send_pending(w, outcome) ==
  /\ reporter[w] = "armed"
  /\ reporter' = [reporter EXCEPT ![w] = outcome]
  /\ bus' = Append(bus, [worker |-> w, outcome |-> outcome])

\* The worker's loop ended normally.
notify(w) ==
  /\ send_pending(w, "Drained")
  /\ UNCHANGED <<pending, wait>>

\* The worker returned an error, panicked or was aborted: its reporter drops.
drop(w) ==
  /\ send_pending(w, "Aborted")
  /\ UNCHANGED <<pending, wait>>

-----------------------------------------------------------------------------
(* EngineRuntime::wait_processing_drained *)

\* Called by each reload.  After a reload that failed, the next one waits on
\* the same tracker again, with the counts and the channel as they were left.
StartWait ==
  /\ wait \in {"idle", "failed"}
  /\ wait' = "waiting"
  /\ UNCHANGED <<reporter, bus, pending>>

\* Mutant: the outcome of an event is not looked at.
observe_AnyOutcome ==
  /\ wait = "waiting" /\ ~is_fully_quiesced
  /\ bus # <<>>
  /\ LET role == Role(Head(bus).worker)
     IN  pending' = [pending EXCEPT ![role] = IF @ = 0 THEN 0 ELSE @ - 1]
  /\ bus' = Tail(bus)
  /\ UNCHANGED <<reporter, wait>>

\* Mutant: every report is charged to the parsers, whose count is not checked.
observe_WrongRole ==
  /\ wait = "waiting" /\ ~is_fully_quiesced
  /\ bus # <<>>
  /\ pending' = [pending EXCEPT !["Parser"] = @ - 1]
  /\ bus' = Tail(bus)
  /\ UNCHANGED <<reporter, wait>>

\* recv() and observe(): a report beyond the role's count is ignored, an
\* abort fails the wait, a drained worker is counted off.
observe ==
  /\ wait = "waiting" /\ ~is_fully_quiesced
  /\ bus # <<>>
  /\ LET role == Role(Head(bus).worker)
         aborted == Head(bus).outcome = "Aborted"
     IN  /\ wait' = IF pending[role] # 0 /\ aborted THEN "failed" ELSE wait
         /\ pending' = IF pending[role] # 0 /\ ~aborted
                         THEN [pending EXCEPT ![role] = @ - 1] ELSE pending
  /\ bus' = Tail(bus)
  /\ UNCHANGED reporter

\* Mutant: a closed channel is not an error and the loop goes on.
ChannelClosed_Ignored ==
  /\ wait = "waiting" /\ ~is_fully_quiesced
  /\ bus = <<>>
  /\ \A w \in Workers : reporter[w] # "armed"
  /\ UNCHANGED vars

\* recv() returned None: every reporter is gone and nothing is queued.
ChannelClosed ==
  /\ wait = "waiting" /\ ~is_fully_quiesced
  /\ bus = <<>>
  /\ \A w \in Workers : reporter[w] # "armed"
  /\ wait' = "failed"
  /\ UNCHANGED <<reporter, bus, pending>>

\* The reload deadline passed, in remaining_timeout or in the timed recv().
Timeout ==
  /\ wait = "waiting" /\ ~is_fully_quiesced
  /\ wait' = "failed"
  /\ UNCHANGED <<reporter, bus, pending>>

\* The while loop ends.
Quiesced ==
  /\ wait = "waiting" /\ is_fully_quiesced
  /\ wait' = "quiesced"
  /\ UNCHANGED <<reporter, bus, pending>>

Next ==
  \/ \E w \in Workers : notify(w) \/ drop(w)
  \/ StartWait \/ observe \/ ChannelClosed \/ Timeout \/ Quiesced

\* The engine task runs; workers need not end and the deadline need not pass.
Fairness == WF_vars(observe \/ ChannelClosed \/ Quiesced)

Spec == Init /\ [][Next]_vars /\ Fairness

-----------------------------------------------------------------------------
TypeOK ==
  /\ reporter \in [Workers -> {"armed", "Drained", "Aborted"}]
  /\ bus \in Seq(Events)
  /\ pending \in [Roles -> Nat]
  /\ wait \in {"idle", "waiting", "quiesced", "failed"}

Reported == {bus[i].worker : i \in DOMAIN bus}

\* The workers the tracker has counted off.
Seen == {w \in Workers : reporter[w] = "Drained" /\ w \notin Reported}

\* Each role's count is exactly the number of its workers not yet counted
\* off, at every moment and over any number of retried waits: no report is
\* counted twice, charged to another role or lost.
CountsExact ==
  \A role \in Roles : pending[role] = Cardinality(WorkersOf(role) \ Seen)

\* The reload takes the graceful branch only if every parser, sink and infra
\* worker of the old epoch reported that its loop ended normally.
QuiescedMeansDrained ==
  wait = "quiesced" => \A w \in Workers : reporter[w] = "Drained"

\* Once every worker has ended, the wait ends without help from the deadline.
WaitEndsWithWorkers ==
  (wait = "waiting" /\ \A w \in Workers : reporter[w] # "armed") ~> wait # "waiting"

=============================================================================

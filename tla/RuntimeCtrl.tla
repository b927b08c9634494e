----------------------------- MODULE RuntimeCtrl -----------------------------
(***************************************************************************)
(* The runtime control bus of the daemon: RuntimeCommandSender::request,   *)
(* called concurrently by the admin endpoint, and the command branch of    *)
(* the engine loop that answers it.  Every call is one member of Reqs; a   *)
(* step ends where another thread can observe the shared state (the state  *)
(* mutex, the reload semaphore, the command channel).                      *)
(***************************************************************************)
EXTENDS Integers, Sequences

CONSTANTS Reqs,     \* calls of request(LoadModel), one request id each
          Results,  \* RuntimeCommandResult: done, done with force, failed
          NoReq,    \* None of current_request_id / last_reload_request_id
          NoResult, \* None of last_reload_result
          Buffer    \* capacity of the command channel, buffer.max(1)

ASSUME CtrlAssumption ==
  /\ NoReq \notin Reqs
  /\ NoResult \notin Results
  /\ Results # {}
  /\ Buffer \in Nat \ {0}

VARIABLES
  accepting,  \* RuntimeControlState.accepting_commands
  current,    \* .current_request_id
  lastReq,    \* .last_reload_request_id
  lastResult, \* .last_reload_result
  started,    \* .last_reload_started_at is Some
  finished,   \* .last_reload_finished_at is Some
  permits,    \* permits left in reload_gate
  queue,      \* the command channel
  rxOpen,     \* the engine still owns cmd_recv
  call,       \* where each call of request() is
  answer,     \* what each caller's reply_rx yielded
  engine,     \* where the engine loop is
  working     \* the request handle_runtime_command is serving

status == <<current, lastReq, lastResult, started, finished>>
ctrlVars == <<accepting, status, permits, queue, rxOpen, call, answer, engine, working>>

CallStates == {"new", "ready", "permit", "marked", "rolledback", "sent",
               "not_ready", "busy", "closed", "answered", "dropped"}
EngineStates == {"starting", "select", "received", "running", "finished",
                 "replied", "ended"}

\* The results after which a call of request(), or its reply_rx, is over.
Terminal == {"not_ready", "busy", "closed", "answered", "dropped"}

CtrlInit ==
  /\ accepting = FALSE
  /\ current = NoReq /\ lastReq = NoReq /\ lastResult = NoResult
  /\ started = FALSE /\ finished = FALSE
  /\ permits = 1
  /\ queue = <<>> /\ rxOpen = TRUE
  /\ call = [r \in Reqs |-> "new"]
  /\ answer = [r \in Reqs |-> NoResult]
  /\ engine = "starting" /\ working = NoReq

-----------------------------------------------------------------------------
(* RuntimeCommandSender::request *)

\* The readiness check under the state mutex; a refusal is RuntimeNotReady.
CheckReady(r) ==
  /\ call[r] = "new"
  /\ call' = [call EXCEPT ![r] = IF accepting THEN "ready" ELSE "not_ready"]
  /\ UNCHANGED <<accepting, status, permits, queue, rxOpen, answer, engine, working>>

\* Mutant: the permit is looked at but not taken out of the semaphore.
Acquire_NotTaken(r) ==
  /\ call[r] = "ready"
  /\ call' = [call EXCEPT ![r] = IF permits > 0 THEN "permit" ELSE "busy"]
  /\ UNCHANGED <<accepting, status, permits, queue, rxOpen, answer, engine, working>>

\* Mutant: the permit is taken without asking whether one is left.
Acquire_Unchecked(r) ==
  /\ call[r] = "ready"
  /\ call' = [call EXCEPT ![r] = "permit"]
  /\ permits' = permits - 1
  /\ UNCHANGED <<accepting, status, queue, rxOpen, answer, engine, working>>

\* reload_gate.try_acquire_owned(); a refusal is ReloadBusy.
Acquire(r) ==
  /\ call[r] = "ready"
  /\ call' = [call EXCEPT ![r] = IF permits > 0 THEN "permit" ELSE "busy"]
  /\ permits' = IF permits > 0 THEN permits - 1 ELSE permits
  /\ UNCHANGED <<accepting, status, queue, rxOpen, answer, engine, working>>

\* mark_reload_submitted, in a second critical section of the state mutex.
MarkSubmitted(r) ==
  /\ call[r] = "permit"
  /\ call' = [call EXCEPT ![r] = "marked"]
  /\ current' = r /\ started' = TRUE /\ finished' = FALSE
  /\ UNCHANGED <<accepting, lastReq, lastResult, permits, queue, rxOpen, answer,
                 engine, working>>

\* tx.send(req).await succeeds once the channel has room.
Send(r) ==
  /\ call[r] = "marked"
  /\ rxOpen
  /\ Len(queue) < Buffer
  /\ queue' = Append(queue, r)
  /\ call' = [call EXCEPT ![r] = "sent"]
  /\ UNCHANGED <<accepting, status, permits, rxOpen, answer, engine, working>>

\* Mutant: the failed send leaves the submission marked.
SendFails_NoRollback(r) ==
  /\ call[r] = "marked"
  /\ ~rxOpen
  /\ call' = [call EXCEPT ![r] = "rolledback"]
  /\ UNCHANGED <<accepting, status, permits, queue, rxOpen, answer, engine, working>>

\* tx.send fails because the receiver is gone; the submission is rolled back
\* while the SendError still owns the request and its permit.
SendFails(r) ==
  /\ call[r] = "marked"
  /\ ~rxOpen
  /\ call' = [call EXCEPT ![r] = "rolledback"]
  /\ IF current = r
       THEN current' = NoReq /\ started' = FALSE /\ finished' = FALSE
       ELSE UNCHANGED <<current, started, finished>>
  /\ UNCHANGED <<accepting, lastReq, lastResult, permits, queue, rxOpen, answer,
                 engine, working>>

\* The SendError goes out of scope: the permit returns, the caller sees
\* ChannelClosed.
ReturnClosed(r) ==
  /\ call[r] = "rolledback"
  /\ call' = [call EXCEPT ![r] = "closed"]
  /\ permits' = permits + 1
  /\ UNCHANGED <<accepting, status, queue, rxOpen, answer, engine, working>>

-----------------------------------------------------------------------------
(* engine_working (daemon) and handle_runtime_command *)

\* The services are up: activate(), then the select loop.
Activate ==
  /\ engine = "starting"
  /\ engine' = "select" /\ accepting' = TRUE
  /\ UNCHANGED <<status, permits, queue, rxOpen, call, answer, working>>

\* Mutant: the command branch is only polled while commands are accepted.
Receive_OnlyAccepting ==
  /\ engine = "select" /\ accepting
  /\ queue # <<>>
  /\ working' = Head(queue) /\ queue' = Tail(queue)
  /\ engine' = "received"
  /\ UNCHANGED <<accepting, status, permits, rxOpen, call, answer>>

\* The command branch of the select takes the next request.
Receive ==
  /\ engine = "select"
  /\ queue # <<>>
  /\ working' = Head(queue) /\ queue' = Tail(queue)
  /\ engine' = "received"
  /\ UNCHANGED <<accepting, status, permits, rxOpen, call, answer>>

\* mark_running: only a request that is not already the current one resets
\* the started / finished times.
MarkRunning ==
  /\ engine = "received"
  /\ engine' = "running"
  /\ IF current # working
       THEN current' = working /\ started' = TRUE /\ finished' = FALSE
       ELSE UNCHANGED <<current, started, finished>>
  /\ UNCHANGED <<accepting, lastReq, lastResult, permits, queue, rxOpen, call,
                 answer, working>>

\* Mutant: the result is published without the id it belongs to.
Finish_KeepsLastId(res) ==
  /\ engine = "running"
  /\ engine' = "finished"
  /\ current' = NoReq /\ lastResult' = res /\ finished' = TRUE
  /\ UNCHANGED <<accepting, started, lastReq, permits, queue, rxOpen, call, answer, working>>

\* reload_processing_p0 returned: finish() publishes the result.
Finish(res) ==
  /\ engine = "running"
  /\ engine' = "finished"
  /\ current' = NoReq /\ lastReq' = working /\ lastResult' = res /\ finished' = TRUE
  /\ UNCHANGED <<accepting, started, permits, queue, rxOpen, call, answer, working>>

\* respond(): the reply is sent ...
Reply ==
  /\ engine = "finished"
  /\ engine' = "replied"
  /\ call' = [call EXCEPT ![working] = "answered"]
  /\ answer' = [answer EXCEPT ![working] = lastResult]
  /\ UNCHANGED <<accepting, status, permits, queue, rxOpen, working>>

\* ... and then the request is dropped, and with it the permit.
ReleasePermit ==
  /\ engine = "replied"
  /\ engine' = "select" /\ working' = NoReq
  /\ permits' = permits + 1
  /\ UNCHANGED <<accepting, status, queue, rxOpen, call, answer>>

\* The exit policy asks for quiescing: commands are refused from here on, but
\* the loop still serves what is queued.
Deactivate ==
  /\ engine = "select" /\ accepting
  /\ accepting' = FALSE
  /\ UNCHANGED <<status, permits, queue, rxOpen, call, answer, engine, working>>

\* The exit policy asks for stopping: deactivate() and leave the loop.
LeaveLoop ==
  /\ engine = "select"
  /\ accepting' = FALSE /\ engine' = "ended"
  /\ UNCHANGED <<status, permits, queue, rxOpen, call, answer, working>>

\* next_exit_policy_action returned Err, and `?` leaves engine_working without
\* deactivate().
LoopFails ==
  /\ engine = "select"
  /\ engine' = "ended"
  /\ UNCHANGED <<accepting, status, permits, queue, rxOpen, call, answer, working>>

Queued == {queue[i] : i \in DOMAIN queue}

\* The engine is dropped: the channel closes, queued requests are dropped
\* with their reply senders and their permits.
DropReceiver ==
  /\ engine = "ended" /\ rxOpen
  /\ rxOpen' = FALSE /\ queue' = <<>>
  /\ call' = [r \in Reqs |-> IF r \in Queued THEN "dropped" ELSE call[r]]
  /\ permits' = IF queue = <<>> THEN permits ELSE permits + 1
  /\ UNCHANGED <<accepting, status, answer, engine, working>>

Caller(r) ==
  \/ CheckReady(r) \/ Acquire(r) \/ MarkSubmitted(r)
  \/ Send(r) \/ SendFails(r) \/ ReturnClosed(r)

EngineStep ==
  \/ Activate \/ Receive \/ MarkRunning
  \/ \E res \in Results : Finish(res)
  \/ Reply \/ ReleasePermit \/ DropReceiver

CtrlNext ==
  \/ \E r \in Reqs : Caller(r)
  \/ EngineStep
  \/ Deactivate \/ LeaveLoop \/ LoopFails

\* Callers and the engine are tasks of a fair runtime and a reload returns
\* (its waits are bounded by reload_timeout).  Nothing makes an exit happen.
CtrlFairness ==
  /\ \A r \in Reqs : WF_ctrlVars(Caller(r))
  /\ WF_ctrlVars(EngineStep)

CtrlSpec == CtrlInit /\ [][CtrlNext]_ctrlVars /\ CtrlFairness

-----------------------------------------------------------------------------
CtrlTypeOK ==
  /\ accepting \in BOOLEAN /\ rxOpen \in BOOLEAN
  /\ started \in BOOLEAN /\ finished \in BOOLEAN
  /\ current \in Reqs \cup {NoReq} /\ lastReq \in Reqs \cup {NoReq}
  /\ working \in Reqs \cup {NoReq}
  /\ lastResult \in Results \cup {NoResult}
  /\ permits \in Nat
  /\ queue \in Seq(Reqs)
  /\ call \in [Reqs -> CallStates]
  /\ answer \in [Reqs -> Results \cup {NoResult}]
  /\ engine \in EngineStates

Serving == engine \in {"received", "running", "finished", "replied"}

\* The calls that own the permit of the reload gate.
Holds(r) ==
  \/ call[r] \in {"permit", "marked", "rolledback", "sent"}
  \/ Serving /\ working = r

\* "reload already in progress": however the callers interleave with the
\* engine, the gate admits one reload at a time and never leaks its permit.
SingleFlight ==
  /\ \A r, s \in Reqs : Holds(r) /\ Holds(s) => r = s
  /\ permits = IF \E r \in Reqs : Holds(r) THEN 0 ELSE 1

\* tx.send(req).await of an admitted reload never has to wait for room,
\* whatever the channel's capacity: a caller cannot be parked while it owns
\* the permit.
SendNeverBlocks ==
  \A r \in Reqs : call[r] = "marked" => Len(queue) < Buffer

\* While the engine owns the channel, the status snapshot names a reload only
\* while that very request is admitted and unfinished; in particular a late
\* finish() never wipes the status of a newer submission, and a rolled-back
\* submission leaves nothing behind.
StatusTruthful ==
  /\ rxOpen /\ current # NoReq =>
       /\ call[current] \in {"marked", "sent"}
       /\ started /\ ~finished
  /\ engine \in {"received", "running"} => current = working
  /\ \A r \in Reqs : call[r] \in {"rolledback", "closed"} => current # r

\* A caller is answered with the outcome of its own reload, once, and only
\* after that reload ended: the answer agrees with the last result published
\* for its id and is never changed afterwards.
AnswerIsFinal ==
  [][\A r \in Reqs :
       /\ answer[r] # NoResult => answer'[r] = answer[r]
       /\ answer'[r] # answer[r] => lastReq = r /\ answer'[r] = lastResult
                                    /\ call[r] = "sent"]_ctrlVars

\* Every call of request() returns, and every accepted request gets a reply
\* or, when the engine goes away, sees its reply channel dropped.
EveryCallEnds ==
  \A r \in Reqs : call[r] # "new" ~> call[r] \in Terminal

=============================================================================

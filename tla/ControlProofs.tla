---------------------------- MODULE ControlProofs ----------------------------
(***************************************************************************)
(* Proofs about the two protocols of a reload request.  RuntimeCtrl, for   *)
(* any number of concurrent callers, any set of results and any capacity   *)
(* of the command channel; ReloadDrain, for any finite sets of parser,     *)
(* sink and infra workers and any number of retried waits.                 *)
(***************************************************************************)
EXTENDS RuntimeCtrl, ReloadDrain, FiniteSetTheorems, TLAPS

-----------------------------------------------------------------------------
(* The control bus: the inductive invariant *)

\* At most one request is queued, it was sent by its caller, and nothing is
\* queued while the engine serves a request.
QueueOwned ==
  \/ queue = <<>>
  \/ \E r \in Reqs : queue = <<r>> /\ call[r] = "sent" /\ ~Serving

\* A call that was sent is in the queue or in the engine's hands.
SentIsSomewhere ==
  \A r \in Reqs : call[r] = "sent" => queue = <<r>> \/ (Serving /\ working = r)

\* The request the engine serves is one that was sent, until it is answered.
ServedIsSent ==
  /\ ~Serving => working = NoReq
  /\ Serving => working \in Reqs
  /\ engine \in {"received", "running", "finished"} => call[working] = "sent"
  /\ engine = "replied" => call[working] = "answered"

\* The channel is closed only after the engine loop has ended.
ClosedIsEnded == ~rxOpen => engine = "ended" /\ queue = <<>>

\* A submission that was marked stays the current one until it is finished.
MarkedIsCurrent ==
  \A r \in Reqs :
    call[r] = "marked" \/ (call[r] = "sent" /\ engine # "finished") =>
      current = r /\ started /\ ~finished

\* Between finish() and the release of the permit there is no current reload.
FinishedHasNoCurrent == engine \in {"finished", "replied"} => current = NoReq

CtrlInv ==
  /\ CtrlTypeOK /\ SingleFlight /\ QueueOwned /\ SentIsSomewhere /\ ServedIsSent
  /\ ClosedIsEnded /\ MarkedIsCurrent /\ FinishedHasNoCurrent /\ StatusTruthful

-----------------------------------------------------------------------------
(* Initial states *)

\* The control state, the gate and the channel as runtime_command_bus makes
\* them satisfy the invariant.
LEMMA CtrlInitInv == CtrlInit => CtrlInv
<1> SUFFICES ASSUME CtrlInit PROVE CtrlInv
  OBVIOUS
<1>1. CtrlTypeOK
  <2>1. queue \in Seq(Reqs)
    BY DEF CtrlInit
  <2>2. call \in [Reqs -> CallStates] /\ answer \in [Reqs -> Results \cup {NoResult}]
    BY DEF CtrlInit, CallStates
  <2>3. permits \in Nat /\ engine \in EngineStates
    BY DEF CtrlInit, EngineStates
  <2> QED
    BY <2>1, <2>2, <2>3 DEF CtrlInit, CtrlTypeOK
<1>2. ~Serving
  BY DEF CtrlInit, Serving
<1>3. \A r \in Reqs : call[r] = "new" /\ ~Holds(r)
  BY <1>2 DEF CtrlInit, Holds
<1>4. SingleFlight
  BY <1>3 DEF CtrlInit, SingleFlight
<1>5. QueueOwned /\ SentIsSomewhere /\ MarkedIsCurrent
  BY <1>3 DEF CtrlInit, QueueOwned, SentIsSomewhere, MarkedIsCurrent
<1>6. ServedIsSent /\ ClosedIsEnded /\ FinishedHasNoCurrent
  BY <1>2 DEF CtrlInit, ServedIsSent, ClosedIsEnded, FinishedHasNoCurrent
<1>7. StatusTruthful
  BY <1>3 DEF CtrlInit, StatusTruthful
<1> QED
  BY <1>1, <1>4, <1>5, <1>6, <1>7 DEF CtrlInv

-----------------------------------------------------------------------------
(* The steps *)

\* Who has been admitted and not sent yet finds the channel empty and the
\* engine free: the holder of a queued or served request is someone else.
LEMMA MarkedFindsRoom ==
  ASSUME CtrlInv, NEW r \in Reqs, call[r] = "marked"
  PROVE  queue = <<>> /\ ~Serving
<1>1. Holds(r)
  BY DEF Holds
<1>2. \A q \in Reqs : Holds(q) => q = r
  BY <1>1 DEF CtrlInv, SingleFlight
<1>3. queue = <<>>
  <2>1. ASSUME NEW q \in Reqs, call[q] = "sent" PROVE FALSE
    BY <1>2, <2>1 DEF Holds
  <2> QED
    BY <2>1 DEF CtrlInv, QueueOwned
<1>4. ~Serving
  <2>1. ASSUME Serving PROVE working = r
    BY <1>2, <2>1 DEF CtrlInv, ServedIsSent, Holds
  <2> QED
    BY <2>1 DEF CtrlInv, ServedIsSent, Serving
<1> QED
  BY <1>3, <1>4

\* The readiness check moves one call that holds nothing.
LEMMA CheckReadyInv ==
  ASSUME CtrlInv, NEW r \in Reqs, CheckReady(r)
  PROVE  CtrlInv'
<1>1. CtrlTypeOK'
  BY DEF CheckReady, CtrlInv, CtrlTypeOK, CallStates, EngineStates, status
<1>2. SingleFlight'
  BY DEF CheckReady, CtrlInv, SingleFlight, Holds, Serving, status
<1>3. QueueOwned'
  BY DEF CheckReady, CtrlInv, QueueOwned, Serving, status
<1>4. SentIsSomewhere'
  BY DEF CheckReady, CtrlInv, SentIsSomewhere, Serving, status
<1>5. ServedIsSent'
  BY DEF CheckReady, CtrlInv, ServedIsSent, Serving, status
<1>6. ClosedIsEnded'
  BY DEF CheckReady, CtrlInv, ClosedIsEnded, status
<1>7. MarkedIsCurrent'
  BY DEF CheckReady, CtrlInv, MarkedIsCurrent, status
<1>8. FinishedHasNoCurrent'
  BY DEF CheckReady, CtrlInv, FinishedHasNoCurrent, status
<1>9. StatusTruthful'
  BY DEF CheckReady, CtrlInv, StatusTruthful, status
<1> QED
  BY <1>1, <1>2, <1>3, <1>4, <1>5, <1>6, <1>7, <1>8, <1>9 DEF CtrlInv

\* A caller gets the permit only if nobody holds it.
LEMMA AcquireInv ==
  ASSUME CtrlInv, NEW r \in Reqs, Acquire(r)
  PROVE  CtrlInv'
<1>1. CtrlTypeOK'
  BY DEF Acquire, CtrlInv, CtrlTypeOK, CallStates, EngineStates, status
<1>2. SingleFlight'
  BY DEF Acquire, CtrlInv, SingleFlight, Holds, Serving, status, CtrlTypeOK
<1>3. QueueOwned'
  BY DEF Acquire, CtrlInv, QueueOwned, Serving, status
<1>4. SentIsSomewhere'
  BY DEF Acquire, CtrlInv, SentIsSomewhere, Serving, status
<1>5. ServedIsSent'
  BY DEF Acquire, CtrlInv, ServedIsSent, Serving, status
<1>6. ClosedIsEnded'
  BY DEF Acquire, CtrlInv, ClosedIsEnded, status
<1>7. MarkedIsCurrent'
  BY DEF Acquire, CtrlInv, MarkedIsCurrent, status
<1>8. FinishedHasNoCurrent'
  BY DEF Acquire, CtrlInv, FinishedHasNoCurrent, status
<1>9. StatusTruthful'
  BY DEF Acquire, CtrlInv, StatusTruthful, status
<1> QED
  BY <1>1, <1>2, <1>3, <1>4, <1>5, <1>6, <1>7, <1>8, <1>9 DEF CtrlInv

\* The submission is marked by the holder of the permit, so no other is
\* marked, queued or served.
LEMMA MarkSubmittedInv ==
  ASSUME CtrlInv, NEW r \in Reqs, MarkSubmitted(r)
  PROVE  CtrlInv'
<1>1. CtrlTypeOK'
  BY DEF MarkSubmitted, CtrlInv, CtrlTypeOK, CallStates, EngineStates, status
<1>2. SingleFlight'
  BY DEF MarkSubmitted, CtrlInv, SingleFlight, Holds, Serving, status
<1>3. QueueOwned'
  BY DEF MarkSubmitted, CtrlInv, QueueOwned, Serving, status
<1>4. SentIsSomewhere'
  BY DEF MarkSubmitted, CtrlInv, SentIsSomewhere, Serving, status
<1>5. ServedIsSent'
  BY DEF MarkSubmitted, CtrlInv, ServedIsSent, Serving, status
<1>6. ClosedIsEnded'
  BY DEF MarkSubmitted, CtrlInv, ClosedIsEnded, status
<1>7. MarkedIsCurrent'
  BY CtrlAssumption DEF MarkSubmitted, CtrlInv, MarkedIsCurrent, status, CtrlTypeOK,
         Serving, ServedIsSent, SingleFlight, Holds
<1>8. FinishedHasNoCurrent'
  BY CtrlAssumption DEF MarkSubmitted, CtrlInv, FinishedHasNoCurrent, status, CtrlTypeOK,
         Serving, ServedIsSent, SingleFlight, Holds
<1>9. StatusTruthful'
  BY CtrlAssumption DEF MarkSubmitted, CtrlInv, StatusTruthful, status, CtrlTypeOK,
         Serving, ServedIsSent, SingleFlight, Holds
<1> QED
  BY <1>1, <1>2, <1>3, <1>4, <1>5, <1>6, <1>7, <1>8, <1>9 DEF CtrlInv

\* The channel is empty, so the request is queued alone.
LEMMA SendInv ==
  ASSUME CtrlInv, NEW r \in Reqs, Send(r)
  PROVE  CtrlInv'
<1>a. queue = <<>> /\ ~Serving
  BY MarkedFindsRoom DEF Send
<1>b. Append(<<>>, r) = <<r>>
  OBVIOUS
<1>0. queue = <<>> /\ ~Serving /\ queue' = <<r>>
  BY <1>a, <1>b DEF Send
<1>1. CtrlTypeOK'
  BY DEF Send, CtrlInv, CtrlTypeOK, CallStates, EngineStates, status
<1>2. SingleFlight'
  BY DEF Send, CtrlInv, SingleFlight, Holds, Serving, status
<1>3. QueueOwned'
  BY <1>0 DEF Send, CtrlInv, CtrlTypeOK, QueueOwned, Serving
<1>4. SentIsSomewhere'
  BY <1>0 DEF Send, CtrlInv, CtrlTypeOK, SentIsSomewhere
<1>5. ServedIsSent'
  BY DEF Send, CtrlInv, ServedIsSent, Serving, status
<1>6. ClosedIsEnded'
  BY DEF Send, CtrlInv, ClosedIsEnded, status
<1>7. MarkedIsCurrent'
  BY DEF Send, CtrlInv, MarkedIsCurrent, status
<1>8. FinishedHasNoCurrent'
  BY DEF Send, CtrlInv, FinishedHasNoCurrent, status
<1>9. StatusTruthful'
  BY DEF Send, CtrlInv, StatusTruthful, status
<1> QED
  BY <1>1, <1>2, <1>3, <1>4, <1>5, <1>6, <1>7, <1>8, <1>9 DEF CtrlInv

\* The roll-back clears the caller's own submission: the status still names it.
LEMMA SendFailsInv ==
  ASSUME CtrlInv, NEW r \in Reqs, SendFails(r)
  PROVE  CtrlInv'
<1>1. CtrlTypeOK'
  BY DEF SendFails, CtrlInv, CtrlTypeOK, CallStates, EngineStates, status
<1>2. SingleFlight'
  BY DEF SendFails, CtrlInv, SingleFlight, Holds, Serving, status
<1>3. QueueOwned'
  BY DEF SendFails, CtrlInv, QueueOwned, Serving, status
<1>4. SentIsSomewhere'
  BY DEF SendFails, CtrlInv, SentIsSomewhere, Serving, status
<1>5. ServedIsSent'
  BY DEF SendFails, CtrlInv, ServedIsSent, Serving, status
<1>6. ClosedIsEnded'
  BY DEF SendFails, CtrlInv, ClosedIsEnded, status
<1>7. MarkedIsCurrent'
  BY DEF SendFails, CtrlInv, MarkedIsCurrent, status, CtrlTypeOK, Serving
<1>8. FinishedHasNoCurrent'
  BY DEF SendFails, CtrlInv, FinishedHasNoCurrent, status
<1>9. StatusTruthful'
  BY CtrlAssumption DEF SendFails, CtrlInv, StatusTruthful, status, CtrlTypeOK, Serving,
         ServedIsSent
<1> QED
  BY <1>1, <1>2, <1>3, <1>4, <1>5, <1>6, <1>7, <1>8, <1>9 DEF CtrlInv

\* The permit that comes back is the caller's, the only one there is.
LEMMA ReturnClosedInv ==
  ASSUME CtrlInv, NEW r \in Reqs, ReturnClosed(r)
  PROVE  CtrlInv'
<1>1. CtrlTypeOK'
  BY DEF ReturnClosed, CtrlInv, CtrlTypeOK, CallStates, EngineStates, status
<1>2. SingleFlight'
  BY CtrlAssumption DEF ReturnClosed, CtrlInv, SingleFlight, Holds, Serving, status,
         CtrlTypeOK, ServedIsSent
<1>3. QueueOwned'
  BY DEF ReturnClosed, CtrlInv, QueueOwned, Serving, status
<1>4. SentIsSomewhere'
  BY DEF ReturnClosed, CtrlInv, SentIsSomewhere, Serving, status
<1>5. ServedIsSent'
  BY DEF ReturnClosed, CtrlInv, ServedIsSent, Serving, status
<1>6. ClosedIsEnded'
  BY DEF ReturnClosed, CtrlInv, ClosedIsEnded, status
<1>7. MarkedIsCurrent'
  BY DEF ReturnClosed, CtrlInv, MarkedIsCurrent, status
<1>8. FinishedHasNoCurrent'
  BY DEF ReturnClosed, CtrlInv, FinishedHasNoCurrent, status
<1>9. StatusTruthful'
  BY DEF ReturnClosed, CtrlInv, StatusTruthful, status
<1> QED
  BY <1>1, <1>2, <1>3, <1>4, <1>5, <1>6, <1>7, <1>8, <1>9 DEF CtrlInv

\* The engine starts with nothing queued or served.
LEMMA ActivateInv ==
  ASSUME CtrlInv, Activate
  PROVE  CtrlInv'
<1>1. CtrlTypeOK'
  BY DEF Activate, CtrlInv, CtrlTypeOK, CallStates, EngineStates, status
<1>2. SingleFlight'
  BY DEF Activate, CtrlInv, SingleFlight, Holds, Serving, status
<1>3. QueueOwned'
  BY DEF Activate, CtrlInv, QueueOwned, Serving, status
<1>4. SentIsSomewhere'
  BY DEF Activate, CtrlInv, SentIsSomewhere, Serving, status
<1>5. ServedIsSent'
  BY DEF Activate, CtrlInv, ServedIsSent, Serving, status
<1>6. ClosedIsEnded'
  BY DEF Activate, CtrlInv, ClosedIsEnded, status
<1>7. MarkedIsCurrent'
  BY DEF Activate, CtrlInv, MarkedIsCurrent, status
<1>8. FinishedHasNoCurrent'
  BY DEF Activate, CtrlInv, FinishedHasNoCurrent, status
<1>9. StatusTruthful'
  BY DEF Activate, CtrlInv, StatusTruthful, status
<1> QED
  BY <1>1, <1>2, <1>3, <1>4, <1>5, <1>6, <1>7, <1>8, <1>9 DEF CtrlInv

\* The request received is the one that was sent; its caller's hold on the
\* permit goes over to the engine.
LEMMA ReceiveInv ==
  ASSUME CtrlInv, Receive
  PROVE  CtrlInv'
<1>1. CtrlTypeOK'
  BY DEF Receive, CtrlInv, CtrlTypeOK, CallStates, EngineStates, status
<1>2. SingleFlight'
  BY CtrlAssumption DEF Receive, CtrlInv, SingleFlight, Holds, Serving, status,
         CtrlTypeOK, ServedIsSent, QueueOwned, SentIsSomewhere
<1>3. QueueOwned'
  BY DEF Receive, CtrlInv, QueueOwned, Serving, status, CtrlTypeOK
<1>4. SentIsSomewhere'
  BY DEF Receive, CtrlInv, SentIsSomewhere, Serving, status
<1>5. ServedIsSent'
  BY CtrlAssumption DEF Receive, CtrlInv, ServedIsSent, Serving, status, CtrlTypeOK,
         SingleFlight, Holds, QueueOwned, SentIsSomewhere
<1>6. ClosedIsEnded'
  BY DEF Receive, CtrlInv, ClosedIsEnded, status
<1>7. MarkedIsCurrent'
  BY DEF Receive, CtrlInv, MarkedIsCurrent, status
<1>8. FinishedHasNoCurrent'
  BY DEF Receive, CtrlInv, FinishedHasNoCurrent, status
<1>9. StatusTruthful'
  BY CtrlAssumption DEF Receive, CtrlInv, StatusTruthful, status, CtrlTypeOK, Serving,
         ServedIsSent, SingleFlight, Holds, QueueOwned, SentIsSomewhere,
         MarkedIsCurrent, FinishedHasNoCurrent, ClosedIsEnded
<1> QED
  BY <1>1, <1>2, <1>3, <1>4, <1>5, <1>6, <1>7, <1>8, <1>9 DEF CtrlInv

\* The request served is already the current one: nothing is reset.
LEMMA MarkRunningInv ==
  ASSUME CtrlInv, MarkRunning
  PROVE  CtrlInv'
<1>1. CtrlTypeOK'
  BY DEF MarkRunning, CtrlInv, CtrlTypeOK, CallStates, EngineStates, status
<1>2. SingleFlight'
  BY DEF MarkRunning, CtrlInv, SingleFlight, Holds, Serving, status
<1>3. QueueOwned'
  BY DEF MarkRunning, CtrlInv, QueueOwned, Serving, status
<1>4. SentIsSomewhere'
  BY DEF MarkRunning, CtrlInv, SentIsSomewhere, Serving, status
<1>5. ServedIsSent'
  BY DEF MarkRunning, CtrlInv, ServedIsSent, Serving, status
<1>6. ClosedIsEnded'
  BY DEF MarkRunning, CtrlInv, ClosedIsEnded, status
<1>7. MarkedIsCurrent'
  BY CtrlAssumption DEF MarkRunning, CtrlInv, MarkedIsCurrent, status, CtrlTypeOK,
         Serving, ServedIsSent
<1>8. FinishedHasNoCurrent'
  BY DEF MarkRunning, CtrlInv, FinishedHasNoCurrent, status
<1>9. StatusTruthful'
  BY DEF MarkRunning, CtrlInv, StatusTruthful, status
<1> QED
  BY <1>1, <1>2, <1>3, <1>4, <1>5, <1>6, <1>7, <1>8, <1>9 DEF CtrlInv

\* The result of the request served is published, and no reload is current.
LEMMA FinishInv ==
  ASSUME CtrlInv, NEW res \in Results, Finish(res)
  PROVE  CtrlInv'
<1>1. CtrlTypeOK'
  BY DEF Finish, CtrlInv, CtrlTypeOK, CallStates, EngineStates, status
<1>2. SingleFlight'
  BY DEF Finish, CtrlInv, SingleFlight, Holds, Serving, status
<1>3. QueueOwned'
  BY DEF Finish, CtrlInv, QueueOwned, Serving, status
<1>4. SentIsSomewhere'
  BY DEF Finish, CtrlInv, SentIsSomewhere, Serving, status
<1>5. ServedIsSent'
  BY DEF Finish, CtrlInv, ServedIsSent, Serving, status
<1>6. ClosedIsEnded'
  BY DEF Finish, CtrlInv, ClosedIsEnded, status
<1>7. MarkedIsCurrent'
  BY CtrlAssumption DEF Finish, CtrlInv, MarkedIsCurrent, status, CtrlTypeOK, Serving,
         ServedIsSent
<1>8. FinishedHasNoCurrent'
  BY DEF Finish, CtrlInv, FinishedHasNoCurrent, status
<1>9. StatusTruthful'
  BY CtrlAssumption DEF Finish, CtrlInv, StatusTruthful, status, CtrlTypeOK, Serving,
         ServedIsSent
<1> QED
  BY <1>1, <1>2, <1>3, <1>4, <1>5, <1>6, <1>7, <1>8, <1>9 DEF CtrlInv

\* The caller is answered while the engine still holds the permit.
LEMMA ReplyInv ==
  ASSUME CtrlInv, Reply
  PROVE  CtrlInv'
<1>1. CtrlTypeOK'
  BY DEF Reply, CtrlInv, CtrlTypeOK, CallStates, EngineStates, status
<1>2. SingleFlight'
  BY DEF Reply, CtrlInv, SingleFlight, Holds, Serving, status
<1>3. QueueOwned'
  BY DEF Reply, CtrlInv, QueueOwned, Serving, status
<1>4. SentIsSomewhere'
  BY DEF Reply, CtrlInv, SentIsSomewhere, Serving, status
<1>5. ServedIsSent'
  BY DEF Reply, CtrlInv, ServedIsSent, Serving, status, CtrlTypeOK
<1>6. ClosedIsEnded'
  BY DEF Reply, CtrlInv, ClosedIsEnded, status
<1>7. MarkedIsCurrent'
  BY CtrlAssumption DEF Reply, CtrlInv, MarkedIsCurrent, status, CtrlTypeOK, Serving,
         ServedIsSent, SingleFlight, Holds
<1>8. FinishedHasNoCurrent'
  BY DEF Reply, CtrlInv, FinishedHasNoCurrent, status
<1>9. StatusTruthful'
  BY CtrlAssumption DEF Reply, CtrlInv, StatusTruthful, status, CtrlTypeOK, Serving,
         ServedIsSent, SingleFlight, Holds, QueueOwned, SentIsSomewhere,
         MarkedIsCurrent, FinishedHasNoCurrent, ClosedIsEnded
<1> QED
  BY <1>1, <1>2, <1>3, <1>4, <1>5, <1>6, <1>7, <1>8, <1>9 DEF CtrlInv

\* The answered request gives back the only permit.
LEMMA ReleasePermitInv ==
  ASSUME CtrlInv, ReleasePermit
  PROVE  CtrlInv'
<1>1. CtrlTypeOK'
  BY DEF ReleasePermit, CtrlInv, CtrlTypeOK, CallStates, EngineStates, status
<1>2. SingleFlight'
  BY CtrlAssumption DEF ReleasePermit, CtrlInv, SingleFlight, Holds, Serving, status,
         CtrlTypeOK, ServedIsSent
<1>3. QueueOwned'
  BY DEF ReleasePermit, CtrlInv, QueueOwned, Serving, status
<1>4. SentIsSomewhere'
  BY CtrlAssumption DEF ReleasePermit, CtrlInv, SentIsSomewhere, Serving, status,
         CtrlTypeOK, ServedIsSent
<1>5. ServedIsSent'
  BY DEF ReleasePermit, CtrlInv, ServedIsSent, Serving, status
<1>6. ClosedIsEnded'
  BY DEF ReleasePermit, CtrlInv, ClosedIsEnded, status
<1>7. MarkedIsCurrent'
  BY DEF ReleasePermit, CtrlInv, MarkedIsCurrent, status
<1>8. FinishedHasNoCurrent'
  BY DEF ReleasePermit, CtrlInv, FinishedHasNoCurrent, status
<1>9. StatusTruthful'
  BY DEF ReleasePermit, CtrlInv, StatusTruthful, status
<1> QED
  BY <1>1, <1>2, <1>3, <1>4, <1>5, <1>6, <1>7, <1>8, <1>9 DEF CtrlInv

\* At most one request is dropped with the channel, and with it the permit.
LEMMA DropReceiverInv ==
  ASSUME CtrlInv, DropReceiver
  PROVE  CtrlInv'
<1>0. ~Serving /\ ~Serving' /\ \A r \in Reqs : r # NoReq
  BY CtrlAssumption DEF DropReceiver, Serving
<1>q. queue' \in Seq(Reqs)
  BY DEF DropReceiver
<1>a. ASSUME queue = <<>>
      PROVE  CtrlTypeOK' /\ SingleFlight' /\ SentIsSomewhere'
  <2>1. call' = call /\ permits' = permits
    BY <1>a DEF DropReceiver, Queued, CtrlInv, CtrlTypeOK
  <2>2. \A r \in Reqs : Holds(r)' <=> Holds(r)
    BY <1>0, <2>1 DEF Holds
  <2>3. CtrlTypeOK'
    BY <1>q, <2>1 DEF DropReceiver, CtrlInv, CtrlTypeOK, status
  <2>4. SingleFlight'
    BY <2>1, <2>2 DEF CtrlInv, SingleFlight
  <2>5. SentIsSomewhere'
    BY <1>0, <1>a, <2>1 DEF DropReceiver, CtrlInv, SentIsSomewhere
  <2> QED
    BY <2>3, <2>4, <2>5
<1>b. ASSUME NEW q \in Reqs, queue = <<q>>, call[q] = "sent"
      PROVE  CtrlTypeOK' /\ SingleFlight' /\ SentIsSomewhere'
  <2>1. Queued = {q}
    BY <1>b DEF Queued
  <2>2. call' = [call EXCEPT ![q] = "dropped"]
    BY <2>1 DEF DropReceiver, CtrlInv, CtrlTypeOK
  <2>3. Holds(q) /\ \A r \in Reqs : Holds(r) => r = q
    BY <1>b DEF Holds, CtrlInv, SingleFlight
  <2>4. permits = 0 /\ permits' = 1
    BY <1>b, <2>3 DEF DropReceiver, CtrlInv, SingleFlight
  <2>5. \A r \in Reqs : ~Holds(r)'
    BY <1>0, <2>2, <2>3 DEF Holds, CtrlInv, CtrlTypeOK
  <2>6. CtrlTypeOK'
    <3>1. call' \in [Reqs -> CallStates] /\ permits' \in Nat
      BY <2>2, <2>4 DEF CtrlInv, CtrlTypeOK, CallStates
    <3> QED
      BY <1>q, <3>1 DEF DropReceiver, CtrlInv, CtrlTypeOK, status
  <2>7. SingleFlight'
    BY <2>4, <2>5 DEF SingleFlight
  <2>8. SentIsSomewhere'
    BY <2>5 DEF SentIsSomewhere, Holds
  <2> QED
    BY <2>6, <2>7, <2>8
<1>c. CtrlTypeOK' /\ SingleFlight' /\ SentIsSomewhere'
  BY <1>a, <1>b DEF CtrlInv, QueueOwned
<1>1. QueueOwned'
  BY DEF DropReceiver, CtrlInv, QueueOwned, Serving, status
<1>2. ServedIsSent'
  BY DEF DropReceiver, CtrlInv, ServedIsSent, Serving, status
<1>3. ClosedIsEnded'
  BY DEF DropReceiver, CtrlInv, ClosedIsEnded, status
<1>4. MarkedIsCurrent'
  BY DEF DropReceiver, CtrlInv, MarkedIsCurrent, status
<1>5. FinishedHasNoCurrent'
  BY DEF DropReceiver, CtrlInv, FinishedHasNoCurrent, status
<1>6. StatusTruthful'
  BY DEF DropReceiver, CtrlInv, StatusTruthful, status
<1> QED
  BY <1>c, <1>1, <1>2, <1>3, <1>4, <1>5, <1>6 DEF CtrlInv

\* Refusing commands touches only the flag.
LEMMA DeactivateInv ==
  ASSUME CtrlInv, Deactivate
  PROVE  CtrlInv'
<1>1. CtrlTypeOK'
  BY DEF Deactivate, CtrlInv, CtrlTypeOK, CallStates, EngineStates, status
<1>2. SingleFlight'
  BY DEF Deactivate, CtrlInv, SingleFlight, Holds, Serving, status
<1>3. QueueOwned'
  BY DEF Deactivate, CtrlInv, QueueOwned, Serving, status
<1>4. SentIsSomewhere'
  BY DEF Deactivate, CtrlInv, SentIsSomewhere, Serving, status
<1>5. ServedIsSent'
  BY DEF Deactivate, CtrlInv, ServedIsSent, Serving, status
<1>6. ClosedIsEnded'
  BY DEF Deactivate, CtrlInv, ClosedIsEnded, status
<1>7. MarkedIsCurrent'
  BY DEF Deactivate, CtrlInv, MarkedIsCurrent, status
<1>8. FinishedHasNoCurrent'
  BY DEF Deactivate, CtrlInv, FinishedHasNoCurrent, status
<1>9. StatusTruthful'
  BY DEF Deactivate, CtrlInv, StatusTruthful, status
<1> QED
  BY <1>1, <1>2, <1>3, <1>4, <1>5, <1>6, <1>7, <1>8, <1>9 DEF CtrlInv

\* The loop is left between two requests.
LEMMA LeaveLoopInv ==
  ASSUME CtrlInv, LeaveLoop
  PROVE  CtrlInv'
<1>1. CtrlTypeOK'
  BY DEF LeaveLoop, CtrlInv, CtrlTypeOK, CallStates, EngineStates, status
<1>2. SingleFlight'
  BY DEF LeaveLoop, CtrlInv, SingleFlight, Holds, Serving, status
<1>3. QueueOwned'
  BY DEF LeaveLoop, CtrlInv, QueueOwned, Serving, status
<1>4. SentIsSomewhere'
  BY DEF LeaveLoop, CtrlInv, SentIsSomewhere, Serving, status
<1>5. ServedIsSent'
  BY DEF LeaveLoop, CtrlInv, ServedIsSent, Serving, status
<1>6. ClosedIsEnded'
  BY DEF LeaveLoop, CtrlInv, ClosedIsEnded, status
<1>7. MarkedIsCurrent'
  BY DEF LeaveLoop, CtrlInv, MarkedIsCurrent, status
<1>8. FinishedHasNoCurrent'
  BY DEF LeaveLoop, CtrlInv, FinishedHasNoCurrent, status
<1>9. StatusTruthful'
  BY DEF LeaveLoop, CtrlInv, StatusTruthful, status
<1> QED
  BY <1>1, <1>2, <1>3, <1>4, <1>5, <1>6, <1>7, <1>8, <1>9 DEF CtrlInv

\* The same when the exit policy fails.
LEMMA LoopFailsInv ==
  ASSUME CtrlInv, LoopFails
  PROVE  CtrlInv'
<1>1. CtrlTypeOK'
  BY DEF LoopFails, CtrlInv, CtrlTypeOK, CallStates, EngineStates, status
<1>2. SingleFlight'
  BY DEF LoopFails, CtrlInv, SingleFlight, Holds, Serving, status
<1>3. QueueOwned'
  BY DEF LoopFails, CtrlInv, QueueOwned, Serving, status
<1>4. SentIsSomewhere'
  BY DEF LoopFails, CtrlInv, SentIsSomewhere, Serving, status
<1>5. ServedIsSent'
  BY DEF LoopFails, CtrlInv, ServedIsSent, Serving, status
<1>6. ClosedIsEnded'
  BY DEF LoopFails, CtrlInv, ClosedIsEnded, status
<1>7. MarkedIsCurrent'
  BY DEF LoopFails, CtrlInv, MarkedIsCurrent, status
<1>8. FinishedHasNoCurrent'
  BY DEF LoopFails, CtrlInv, FinishedHasNoCurrent, status
<1>9. StatusTruthful'
  BY DEF LoopFails, CtrlInv, StatusTruthful, status
<1> QED
  BY <1>1, <1>2, <1>3, <1>4, <1>5, <1>6, <1>7, <1>8, <1>9 DEF CtrlInv

\* Every step of the system, and every stuttering step, keeps the invariant.
LEMMA CtrlNextInv == CtrlInv /\ [CtrlNext]_ctrlVars => CtrlInv'
<1> SUFFICES ASSUME CtrlInv, [CtrlNext]_ctrlVars PROVE CtrlInv'
  OBVIOUS
<1>1. ASSUME NEW r \in Reqs, Caller(r) PROVE CtrlInv'
  BY <1>1, CheckReadyInv, AcquireInv, MarkSubmittedInv, SendInv, SendFailsInv,
     ReturnClosedInv DEF Caller
<1>2. CASE EngineStep
  BY <1>2, ActivateInv, ReceiveInv, MarkRunningInv, FinishInv, ReplyInv,
     ReleasePermitInv, DropReceiverInv DEF EngineStep
<1>3. CASE Deactivate \/ LeaveLoop \/ LoopFails
  BY <1>3, DeactivateInv, LeaveLoopInv, LoopFailsInv
<1>4. CASE UNCHANGED ctrlVars
  BY <1>4 DEF ctrlVars, status, CtrlInv, CtrlTypeOK, SingleFlight, Holds, Serving, QueueOwned,
         SentIsSomewhere, ServedIsSent, ClosedIsEnded, MarkedIsCurrent,
         FinishedHasNoCurrent, StatusTruthful
<1> QED
  BY <1>1, <1>2, <1>3, <1>4 DEF CtrlNext

-----------------------------------------------------------------------------
(* The theorems *)

\* Every reachable state of the control bus satisfies the invariant.
THEOREM CtrlInvariance == CtrlSpec => []CtrlInv
  BY CtrlInitInv, CtrlNextInv, PTL DEF CtrlSpec

\* The control state, the gate and the channel keep their types; the gate
\* never holds a negative number of permits.
THEOREM CtrlTypeCorrect == CtrlSpec => []CtrlTypeOK
<1>1. CtrlInv => CtrlTypeOK
  BY DEF CtrlInv
<1> QED
  BY <1>1, CtrlInvariance, PTL

\* However many callers race, the reload gate admits one request at a time,
\* from try_acquire_owned to the drop of the answered request, and its permit
\* is never lost or doubled.
THEOREM OneReloadAtATime == CtrlSpec => []SingleFlight
<1>1. CtrlInv => SingleFlight
  BY DEF CtrlInv
<1> QED
  BY <1>1, CtrlInvariance, PTL

\* tx.send(req).await of an admitted reload finds room at once, for every
\* capacity of the command channel.
THEOREM AdmittedSendsAtOnce == CtrlSpec => []SendNeverBlocks
<1>1. CtrlInv => SendNeverBlocks
  <2> SUFFICES ASSUME CtrlInv, NEW r \in Reqs, call[r] = "marked"
               PROVE  Len(queue) < Buffer
    BY DEF SendNeverBlocks
  <2>1. queue = <<>>
    BY MarkedFindsRoom
  <2> QED
    BY <2>1, CtrlAssumption
<1> QED
  BY <1>1, CtrlInvariance, PTL

\* The status snapshot never names a request that is not admitted and
\* unfinished while the engine lives.
THEOREM SnapshotIsTruthful == CtrlSpec => []StatusTruthful
<1>1. CtrlInv => StatusTruthful
  BY DEF CtrlInv
<1> QED
  BY <1>1, CtrlInvariance, PTL

-----------------------------------------------------------------------------
(* Answers *)

\* Only an answered call has an answer, and the result the engine is about to
\* send is the one it published for the request it serves.
AnswerInv ==
  /\ \A r \in Reqs : answer[r] # NoResult => call[r] = "answered"
  /\ engine = "finished" => lastReq = working

\* A step that does not answer anybody, and leaves answered calls alone, keeps
\* the answers.
LEMMA AnswerInvKept ==
  ASSUME AnswerInv, UNCHANGED answer,
         \A r \in Reqs : call[r] = "answered" => call'[r] = "answered",
         engine' = "finished" => lastReq' = working'
  PROVE  AnswerInv'
  BY DEF AnswerInv

\* The answers keep their meaning in every step.
LEMMA AnswerInvNext == CtrlInv /\ AnswerInv /\ [CtrlNext]_ctrlVars => AnswerInv'
<1> SUFFICES ASSUME CtrlInv, AnswerInv, [CtrlNext]_ctrlVars PROVE AnswerInv'
  OBVIOUS
<1>1. ASSUME NEW r \in Reqs, Caller(r) PROVE AnswerInv'
  <2>1. UNCHANGED <<answer, engine, lastReq, working>>
    BY <1>1 DEF Caller, CheckReady, Acquire, MarkSubmitted, Send, SendFails, ReturnClosed,
                status
  <2>2. \A s \in Reqs : call[s] = "answered" => call'[s] = "answered"
    BY <1>1 DEF Caller, CheckReady, Acquire, MarkSubmitted, Send, SendFails, ReturnClosed,
                CtrlInv, CtrlTypeOK
  <2> QED
    BY <2>1, <2>2, AnswerInvKept DEF AnswerInv
<1>2. CASE Reply
  BY <1>2 DEF Reply, AnswerInv, CtrlInv, CtrlTypeOK, ServedIsSent, Serving
<1>3. CASE DropReceiver
  <2>1. \A s \in Reqs : s \in Queued => call[s] = "sent"
    BY DEF CtrlInv, QueueOwned, Queued
  <2> QED
    BY <1>3, <2>1, AnswerInvKept DEF DropReceiver, AnswerInv, status
<1>4. ASSUME NEW res \in Results, Finish(res) PROVE AnswerInv'
  BY <1>4 DEF Finish, AnswerInv
<1>5. CASE Activate \/ Receive \/ MarkRunning \/ ReleasePermit
  BY <1>5 DEF Activate, Receive, MarkRunning, ReleasePermit, AnswerInv, status
<1>6. CASE Deactivate \/ LeaveLoop \/ LoopFails
  BY <1>6 DEF Deactivate, LeaveLoop, LoopFails, AnswerInv, status
<1>7. CASE UNCHANGED ctrlVars
  BY <1>7 DEF ctrlVars, status, AnswerInv
<1> QED
  BY <1>1, <1>2, <1>3, <1>4, <1>5, <1>6, <1>7 DEF CtrlNext, EngineStep

\* A caller is answered once, with the result published for its own request,
\* and the answer stands: respond() cannot reach another caller.
THEOREM AnswersAreFinal == CtrlSpec => AnswerIsFinal
<1> DEFINE A == \A r \in Reqs :
                  /\ answer[r] # NoResult => answer'[r] = answer[r]
                  /\ answer'[r] # answer[r] => lastReq = r /\ answer'[r] = lastResult
                                               /\ call[r] = "sent"
<1>1. CtrlInit => AnswerInv
  BY DEF CtrlInit, AnswerInv
<1>2. CtrlInv /\ AnswerInv /\ [CtrlNext]_ctrlVars => [A]_ctrlVars
  <2> SUFFICES ASSUME CtrlInv, AnswerInv, CtrlNext PROVE A
    OBVIOUS
  <2>1. CASE Reply
    BY <2>1 DEF Reply, CtrlInv, CtrlTypeOK, AnswerInv, ServedIsSent, Serving
  <2>2. CASE UNCHANGED answer
    BY <2>2
  <2>3. Reply \/ UNCHANGED answer
    BY DEF CtrlNext, Caller, EngineStep, CheckReady, Acquire, MarkSubmitted, Send, SendFails,
           ReturnClosed, Activate, Receive, MarkRunning, Finish, ReleasePermit, DropReceiver,
           Deactivate, LeaveLoop, LoopFails
  <2> QED
    BY <2>1, <2>2, <2>3
<1>3. CtrlSpec => []AnswerInv
  BY <1>1, AnswerInvNext, CtrlInvariance, PTL DEF CtrlSpec
<1> HIDE DEF A
<1>4. CtrlSpec => [][A]_ctrlVars
  BY <1>2, <1>3, CtrlInvariance, PTL DEF CtrlSpec
<1> QED
  BY <1>4 DEF A, AnswerIsFinal

-----------------------------------------------------------------------------
(* The drain handshake: the inductive invariant *)

\* A queued report says what its reporter has sent, and is the worker's only
\* one.
BusFaithful ==
  /\ \A i \in DOMAIN bus : bus[i].outcome = reporter[bus[i].worker]
  /\ \A i, j \in DOMAIN bus : bus[i].worker = bus[j].worker => i = j

DrainInv == TypeOK /\ BusFaithful /\ CountsExact /\ QuiescedMeansDrained

-----------------------------------------------------------------------------
(* Roles and the sets of workers *)

\* Every worker has one role: the sets of the three roles are disjoint.
LEMMA RoleFacts ==
  ASSUME NEW w \in Workers
  PROVE  /\ Role(w) \in Roles
         /\ w \in WorkersOf(Role(w))
         /\ \A role \in Roles : w \in WorkersOf(role) => role = Role(w)
<1>1. \E role \in Roles : w \in WorkersOf(role)
  BY DEF Workers, Roles, WorkersOf
<1>2. Role(w) \in Roles /\ w \in WorkersOf(Role(w))
  BY <1>1 DEF Role
<1>3. \A r, s \in Roles : w \in WorkersOf(r) /\ w \in WorkersOf(s) => r = s
  BY DrainAssumption DEF Roles, WorkersOf
<1> QED
  BY <1>2, <1>3

\* The workers of a role are finitely many, and so are those still counted.
LEMMA CountedFinite ==
  ASSUME NEW role \in Roles, NEW S
  PROVE  /\ IsFiniteSet(WorkersOf(role) \ S)
         /\ Cardinality(WorkersOf(role) \ S) \in Nat
         /\ Cardinality(WorkersOf(role) \ S) = 0 <=> WorkersOf(role) \ S = {}
<1>1. IsFiniteSet(WorkersOf(role))
  BY DrainAssumption DEF Roles, WorkersOf
<1>2. IsFiniteSet(WorkersOf(role) \ S)
  BY <1>1, FS_Subset
<1> QED
  BY <1>2, FS_CardinalityType, FS_EmptySet

\* Counting off one more worker takes one from its role and nothing from the
\* others.
LEMMA CountOff ==
  ASSUME NEW w \in Workers, NEW S, w \notin S, NEW role \in Roles
  PROVE  Cardinality(WorkersOf(role) \ (S \cup {w})) =
           IF role = Role(w) THEN Cardinality(WorkersOf(role) \ S) - 1
                             ELSE Cardinality(WorkersOf(role) \ S)
<1> DEFINE T == WorkersOf(role) \ S
<1>1. WorkersOf(role) \ (S \cup {w}) = T \ {w}
  OBVIOUS
<1>2. IsFiniteSet(T)
  BY CountedFinite
<1>3. CASE role = Role(w)
  <2>1. w \in T
    BY <1>3, RoleFacts
  <2> QED
    BY <1>1, <1>2, <1>3, <2>1, FS_RemoveElement
<1>4. CASE role # Role(w)
  <2>1. w \notin T
    BY <1>4, RoleFacts
  <2>2. T \ {w} = T
    BY <2>1
  <2> QED
    BY <1>1, <1>4, <2>2
<1> QED
  BY <1>3, <1>4

-----------------------------------------------------------------------------
(* Init and the steps *)

\* Armed reporters, an empty bus and one count per worker satisfy the invariant.
LEMMA DrainInitInv == Init => DrainInv
<1> SUFFICES ASSUME Init PROVE DrainInv
  OBVIOUS
<1>1. \A role \in Roles : Cardinality(WorkersOf(role)) \in Nat
  BY CountedFinite, \A role : WorkersOf(role) \ {} = WorkersOf(role)
<1>2. TypeOK
  BY <1>1 DEF Init, TypeOK
<1>3. BusFaithful
  BY DEF Init, BusFaithful
<1>4. Seen = {}
  BY DEF Init, Seen
<1>5. CountsExact
  BY <1>4 DEF Init, CountsExact
<1>6. QuiescedMeansDrained
  BY DEF Init, QuiescedMeansDrained
<1> QED
  BY <1>2, <1>3, <1>5, <1>6 DEF DrainInv

\* A report, of either outcome, is queued: the worker is no longer armed and
\* not counted off yet, so the counts stay exact.
LEMMA SendPendingInv ==
  ASSUME DrainInv, NEW w \in Workers, NEW outcome \in {"Drained", "Aborted"},
         send_pending(w, outcome), UNCHANGED <<pending, wait>>
  PROVE  DrainInv'
<1> DEFINE ev == [worker |-> w, outcome |-> outcome]
<1>1. ev \in Events /\ bus \in Seq(Events) /\ bus' = Append(bus, ev)
  BY DEF DrainInv, TypeOK, Events, send_pending
<1>2. /\ DOMAIN bus = 1 .. Len(bus) /\ DOMAIN bus' = 1 .. (Len(bus) + 1)
      /\ Len(bus) \in Nat
      /\ \A i \in 1 .. Len(bus) : bus'[i] = bus[i]
      /\ bus'[Len(bus) + 1] = ev
  BY <1>1
<1>3. \A i \in DOMAIN bus : bus[i].worker # w
  <2>1. SUFFICES ASSUME NEW i \in DOMAIN bus PROVE bus[i].worker # w
    OBVIOUS
  <2>2. bus[i] \in Events
    BY <1>1, <1>2
  <2>3. bus[i].outcome # "armed"
    BY <2>2 DEF Events
  <2> QED
    BY <2>3 DEF DrainInv, BusFaithful, send_pending
<1>4. TypeOK'
  BY <1>1 DEF DrainInv, TypeOK, send_pending
<1>5. BusFaithful'
  BY <1>2, <1>3 DEF DrainInv, TypeOK, BusFaithful, Events, send_pending
<1>6. Reported' = Reported \cup {w}
  BY <1>2 DEF Reported
<1>7. Seen' = Seen
  BY <1>6 DEF DrainInv, TypeOK, Seen, send_pending
<1>8. CountsExact'
  BY <1>7 DEF DrainInv, CountsExact
<1>9. QuiescedMeansDrained'
  BY DEF DrainInv, QuiescedMeansDrained, send_pending
<1> QED
  BY <1>4, <1>5, <1>8, <1>9 DEF DrainInv

\* A report is taken from the bus.  Its worker was not counted off yet, so
\* its role's count is not zero, and the worker is counted off exactly if it
\* drained; the report of an aborted worker is spent without counting.
LEMMA ObserveInv ==
  ASSUME DrainInv, observe
  PROVE  DrainInv'
<1> DEFINE w == Head(bus).worker
           role == Role(w)
<1>1. /\ bus \in Seq(Events) /\ bus # <<>> /\ bus' = Tail(bus)
      /\ reporter' = reporter
  BY DEF DrainInv, TypeOK, observe
<1>2. /\ DOMAIN bus = 1 .. Len(bus) /\ DOMAIN bus' = 1 .. (Len(bus) - 1)
      /\ Len(bus) \in Nat /\ Len(bus) > 0
      /\ \A i \in 1 .. (Len(bus) - 1) : bus'[i] = bus[i + 1]
      /\ Head(bus) = bus[1]
  BY <1>1
<1>3. bus[1] \in Events /\ w \in Workers /\ bus[1].outcome = reporter[w]
  <2>1. 1 \in DOMAIN bus /\ bus[1] \in Events
    BY <1>1, <1>2
  <2>2. w = bus[1].worker
    BY <1>2
  <2> QED
    BY <2>1, <2>2 DEF DrainInv, BusFaithful, Events
<1>4. role \in Roles
  BY <1>3, RoleFacts
<1>5. w \in Reported /\ w \notin Seen
  BY <1>2 DEF Reported, Seen
<1>6. pending[role] # 0
  <2>1. w \in WorkersOf(role) \ Seen
    BY <1>3, <1>5, RoleFacts
  <2> QED
    BY <1>4, <2>1, CountedFinite DEF DrainInv, CountsExact
<1>7. Reported' = Reported \ {w}
  <2>1. w = bus[1].worker
    BY <1>2
  <2>2. ASSUME NEW i \in DOMAIN bus'
        PROVE  i + 1 \in DOMAIN bus /\ bus'[i] = bus[i + 1] /\ bus'[i].worker # w
    <3>1. i + 1 \in DOMAIN bus /\ 1 \in DOMAIN bus /\ i + 1 # 1
      BY <1>2
    <3>2. bus'[i] = bus[i + 1]
      BY <1>2
    <3> QED
      BY <2>1, <3>1, <3>2 DEF DrainInv, BusFaithful
  <2>3. ASSUME NEW i \in DOMAIN bus, bus[i].worker # w
        PROVE  i - 1 \in DOMAIN bus' /\ bus'[i - 1] = bus[i]
    <3>1. i # 1
      BY <2>1, <2>3
    <3>2. i - 1 \in 1 .. (Len(bus) - 1) /\ (i - 1) + 1 = i
      BY <1>2, <3>1
    <3> QED
      BY <1>2, <3>2
  <2>4. Reported' \subseteq Reported \ {w}
    BY <2>2 DEF Reported
  <2>5. Reported \ {w} \subseteq Reported'
    BY <2>3 DEF Reported
  <2> QED
    BY <2>4, <2>5
<1>8. TypeOK'
  <2>1. bus' \in Seq(Events)
    BY <1>1
  <2>2. pending' \in [Roles -> Nat]
    BY <1>3, <1>4, <1>6 DEF DrainInv, TypeOK, observe
  <2> QED
    BY <2>1, <2>2 DEF DrainInv, TypeOK, observe
<1>9. BusFaithful'
  BY <1>1, <1>2 DEF DrainInv, BusFaithful
<1>10. CountsExact'
  <2>1. CASE bus[1].outcome = "Aborted"
    <3>1. Seen' = Seen
      BY <1>1, <1>3, <1>7, <2>1 DEF Seen
    <3>2. pending' = pending
      BY <1>2, <2>1 DEF observe
    <3> QED
      BY <3>1, <3>2 DEF DrainInv, CountsExact
  <2>2. CASE bus[1].outcome = "Drained"
    <3>1. Seen' = Seen \cup {w}
      BY <1>1, <1>3, <1>7, <2>2 DEF Seen
    <3>2. pending' = [pending EXCEPT ![role] = @ - 1]
      BY <1>2, <1>6, <2>2 DEF observe
    <3>3. ASSUME NEW r \in Roles
          PROVE  pending'[r] = Cardinality(WorkersOf(r) \ Seen')
      <4>1. pending[r] = Cardinality(WorkersOf(r) \ Seen)
        BY DEF DrainInv, CountsExact
      <4>2. pending'[r] = IF r = role THEN pending[r] - 1 ELSE pending[r]
        BY <3>2 DEF DrainInv, TypeOK
      <4> HIDE DEF w, role
      <4>3. Cardinality(WorkersOf(r) \ (Seen \cup {w})) =
              IF r = Role(w) THEN Cardinality(WorkersOf(r) \ Seen) - 1
                             ELSE Cardinality(WorkersOf(r) \ Seen)
        BY <1>3, <1>5, CountOff
      <4> QED
        BY <3>1, <4>1, <4>2, <4>3 DEF role
    <3> QED
      BY <3>3 DEF CountsExact
  <2> QED
    BY <1>3, <2>1, <2>2 DEF Events
<1>11. QuiescedMeansDrained'
  BY DEF DrainInv, QuiescedMeansDrained, observe
<1> QED
  BY <1>8, <1>9, <1>10, <1>11 DEF DrainInv

\* The wait may end as quiesced only if no count is left: every worker of
\* every role has been counted off, so each of them drained.
LEMMA QuiescedInv ==
  ASSUME DrainInv, Quiesced
  PROVE  DrainInv'
<1>1. TypeOK'
  BY DEF DrainInv, TypeOK, Quiesced
<1>2. BusFaithful'
  BY DEF DrainInv, BusFaithful, Quiesced
<1>3. CountsExact'
  BY DEF DrainInv, CountsExact, Seen, Reported, Quiesced
<1>4. ASSUME NEW w \in Workers PROVE reporter[w] = "Drained"
  <2>1. Role(w) \in Roles /\ w \in WorkersOf(Role(w))
    BY RoleFacts
  <2>2. Cardinality(WorkersOf(Role(w)) \ Seen) = 0
    BY <2>1 DEF DrainInv, CountsExact, Quiesced, is_fully_quiesced
  <2>3. WorkersOf(Role(w)) \ Seen = {}
    BY <2>1, <2>2, CountedFinite
  <2> QED
    BY <2>1, <2>3 DEF Seen
<1>5. QuiescedMeansDrained'
  BY <1>4 DEF QuiescedMeansDrained, Quiesced
<1> QED
  BY <1>1, <1>2, <1>3, <1>5 DEF DrainInv

\* Starting a wait, or failing it, moves nothing but the wait.
LEMMA WaitMovesInv ==
  ASSUME DrainInv, UNCHANGED <<reporter, bus, pending>>,
         wait' \in {"waiting", "failed"} \/ wait' = wait
  PROVE  DrainInv'
<1>1. TypeOK'
  BY DEF DrainInv, TypeOK
<1>2. BusFaithful'
  BY DEF DrainInv, BusFaithful
<1>3. CountsExact'
  BY DEF DrainInv, CountsExact, Seen, Reported
<1>4. QuiescedMeansDrained'
  BY DEF DrainInv, QuiescedMeansDrained
<1> QED
  BY <1>1, <1>2, <1>3, <1>4 DEF DrainInv

\* Every step of the handshake, and every stuttering step, keeps the invariant.
LEMMA DrainNextInv == DrainInv /\ [Next]_vars => DrainInv'
<1> SUFFICES ASSUME DrainInv, [Next]_vars PROVE DrainInv'
  OBVIOUS
<1>1. ASSUME NEW w \in Workers, notify(w) PROVE DrainInv'
  BY <1>1, SendPendingInv DEF notify
<1>2. ASSUME NEW w \in Workers, drop(w) PROVE DrainInv'
  BY <1>2, SendPendingInv DEF drop
<1>3. CASE StartWait
  BY <1>3, WaitMovesInv DEF StartWait
<1>4. CASE observe
  BY <1>4, ObserveInv
<1>5. CASE ChannelClosed
  BY <1>5, WaitMovesInv DEF ChannelClosed
<1>6. CASE Timeout
  BY <1>6, WaitMovesInv DEF Timeout
<1>7. CASE Quiesced
  BY <1>7, QuiescedInv
<1>8. CASE UNCHANGED vars
  BY <1>8, WaitMovesInv DEF vars
<1> QED
  BY <1>1, <1>2, <1>3, <1>4, <1>5, <1>6, <1>7, <1>8 DEF Next

-----------------------------------------------------------------------------
(* The theorems *)

\* Every reachable state of the handshake satisfies the inductive invariant.
THEOREM DrainInvariance == Spec => []DrainInv
  BY DrainInitInv, DrainNextInv, PTL DEF Spec

\* The counts of the tracker never leave the naturals: `*pending -= 1` in
\* observe() does not underflow, and the channel holds only reports of the
\* epoch's workers.
THEOREM DrainTypeCorrect == Spec => []TypeOK
<1>1. DrainInv => TypeOK
  BY DEF DrainInv
<1> QED
  BY <1>1, DrainInvariance, PTL

\* parser_pending, sink_pending and infra_pending are exact: each counts the
\* workers of its role whose drained report has not been observed.
THEOREM CountsAreExact == Spec => []CountsExact
<1>1. DrainInv => CountsExact
  BY DEF DrainInv
<1> QED
  BY <1>1, DrainInvariance, PTL

\* wait_processing_drained returns Ok only if every worker of the epoch
\* reported that its loop ended normally.
THEOREM GracefulMeansDrained == Spec => []QuiescedMeansDrained
<1>1. DrainInv => QuiescedMeansDrained
  BY DEF DrainInv
<1> QED
  BY <1>1, DrainInvariance, PTL

=============================================================================

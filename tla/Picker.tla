-------------------------------- MODULE Picker --------------------------------
(***************************************************************************)
(* One realtime picker task (SourceWorker::run_dispatch_loop around        *)
(* JMActPicker::round_pick): it takes batches from its source into a       *)
(* pending queue and posts them to the parse channels, under the pull      *)
(* watermarks, the byte cap, the post back-off, coalescing and the control *)
(* commands.  The parse router is seen through its four answers; what      *)
(* happens inside it during a reload is the subject of HotReload.          *)
(***************************************************************************)
EXTENDS Integers, Sequences

CONSTANTS
  Script,          \* the batches the source yields, each a sequence of events
  Bytes,           \* payload length of each event
  Burst,           \* picker_burst_max()
  MaxBytes,        \* picker_pending_max_bytes()
  CoalesceTrigger, \* picker_coalesce_trigger(), in batches
  CoalesceMax,     \* picker_coalesce_max_events()
  MaxBackoff,      \* PICKER_POST_BACKOFF_MAX_ROUNDS
  ChanCap,         \* batches the parse channels hold
  Limits,          \* values of max_line tried; one beyond the script is "none"
  MaxCmds,         \* bound: commands broadcast to the picker
  MaxReloads       \* bound: times the router goes into reload

ASSUME PickerAssumption ==
  /\ Bytes \in [DOMAIN Bytes -> Nat] /\ Script \in Seq(Seq(DOMAIN Bytes))
  /\ Burst \in Nat \ {0} /\ MaxBytes \in Nat \ {0} /\ ChanCap \in Nat \ {0}
  /\ CoalesceTrigger \in Nat \ {0} /\ CoalesceMax \in Nat \ {0}
  /\ MaxBackoff \in Nat \ {0}
  /\ Limits \subseteq Nat /\ MaxCmds \in Nat /\ MaxReloads \in Nat

VARIABLES
  mode,         \* [blocking, fixed, limit]: source kind, rate lease, max_line
  srcPos,       \* batches of Script already taken
  pending,      \* the pending deque, front first
  pendingBytes, \* its byte counter
  skip,         \* PostPolicy.skip_rounds_left
  backoff,      \* PostPolicy.backoff_rounds
  workCmd,      \* TaskController.work_cmd
  cmdq,         \* commands broadcast and not yet received
  taken,        \* events of the batches taken so far (history)
  posted,       \* events a parse channel accepted (history)
  pc,           \* where the round is: poll, fetch, plan, post, end, exited
  budget,       \* batches this fetch may still take
  left,         \* batches this post may still send
  round,        \* RoundStat: src_status, dist_status, send_cnt
  inChan,       \* batches in the parse channels
  router,       \* what the router answers: up, reloading, closed
  cmdsLeft, reloadsLeft

picker == <<srcPos, taken, pending, pendingBytes, skip, backoff, workCmd, posted, pc,
            budget, left, round>>
env == <<inChan, router, reloadsLeft>>
vars == <<mode, picker, cmdq, cmdsLeft, env>>

Hi == 3 * Burst       \* PullPolicy.hi, burst x PICKER_PULL_HI_MULTIPLIER
MinOf(a, b) == IF a < b THEN a ELSE b

\* The events of a sequence of batches, in order.
EventsOf(batches) ==
  LET upto[i \in 0 .. Len(batches)] == IF i = 0 THEN <<>> ELSE upto[i - 1] \o batches[i]
  IN  upto[Len(batches)]

batch_bytes(batch) ==
  LET sum[i \in 0 .. Len(batch)] == IF i = 0 THEN 0 ELSE sum[i - 1] + Bytes[batch[i]]
  IN  sum[Len(batch)]
pending_bytes_at_capacity == pendingBytes >= MaxBytes

\* TaskController::not_alone, for the commands the manager sends.
not_alone(cmd) == cmd \notin {"Isolate", "Stop"}

NewRound == [src |-> "Ready", dist |-> "Ready", sent |-> 0]

Init ==
  /\ mode \in [blocking : BOOLEAN, fixed : BOOLEAN, limit : Limits]
  /\ srcPos = 0 /\ taken = <<>> /\ pending = <<>> /\ pendingBytes = 0
  /\ skip = 0 /\ backoff = 1
  /\ workCmd = "Execute" /\ cmdq = <<>> /\ cmdsLeft = MaxCmds
  /\ posted = <<>> /\ pc = "poll" /\ budget = 0 /\ left = 0 /\ round = NewRound
  /\ inChan = 0 /\ router = "up" /\ reloadsLeft = MaxReloads

-----------------------------------------------------------------------------
(* Head of the inner loop: poll_cmd_now, reached_limits, and the pull plan of
   round_pick *)

CmdAfterPoll == IF cmdq = <<>> THEN workCmd ELSE Head(cmdq)

\* plan_pull / plan_pull_fixed_rate: how many batches this round may fetch.
PullBudget ==
  IF mode.fixed THEN Burst
  ELSE IF Len(pending) >= Hi THEN 0 ELSE MinOf(Hi - Len(pending), Burst)

\* max_line events were posted.
reached_limits == Len(posted) >= mode.limit

\* A command ends the loop, or a limit does, or the round starts.
PollStops ==
  /\ pc = "poll"
  /\ CmdAfterPoll = "Stop" \/ reached_limits
  /\ workCmd' = CmdAfterPoll
  /\ cmdq' = IF cmdq = <<>> THEN cmdq ELSE Tail(cmdq)
  /\ pc' = "exited"
  /\ UNCHANGED <<mode, srcPos, taken, pending, pendingBytes, skip, backoff, posted, budget,
                 left, round, cmdsLeft, env>>

\* Mutant: the pull plan ignores the watermark.
StartRound_NoWatermark ==
  /\ pc = "poll"
  /\ CmdAfterPoll # "Stop" /\ ~reached_limits
  /\ workCmd' = CmdAfterPoll
  /\ cmdq' = IF cmdq = <<>> THEN cmdq ELSE Tail(cmdq)
  /\ LET pull == ~pending_bytes_at_capacity
     IN  /\ pc' = IF pull /\ not_alone(CmdAfterPoll) THEN "fetch" ELSE "plan"
         /\ budget' = Burst
         /\ round' = [NewRound EXCEPT !.src =
                        IF pull /\ ~not_alone(CmdAfterPoll) THEN "Miss" ELSE "Ready"]
  /\ UNCHANGED <<mode, srcPos, taken, pending, pendingBytes, skip, backoff, posted, left,
                 cmdsLeft, env>>

StartRound ==
  /\ pc = "poll"
  /\ CmdAfterPoll # "Stop" /\ ~reached_limits
  /\ workCmd' = CmdAfterPoll
  /\ cmdq' = IF cmdq = <<>> THEN cmdq ELSE Tail(cmdq)
  /\ LET pull == PullBudget > 0 /\ ~pending_bytes_at_capacity
     IN  /\ pc' = IF pull /\ not_alone(CmdAfterPoll) THEN "fetch" ELSE "plan"
         /\ budget' = PullBudget
         /\ round' = [NewRound EXCEPT !.src =
                        IF pull /\ ~not_alone(CmdAfterPoll) THEN "Miss" ELSE "Ready"]
  /\ UNCHANGED <<mode, srcPos, taken, pending, pendingBytes, skip, backoff, posted, left,
                 cmdsLeft, env>>

-----------------------------------------------------------------------------
(* fetch_into_pending: read_batch_nonblocking / read_batch_blocking *)

\* In blocking mode the select is biased towards the command channel.
MayRead == pc = "fetch" /\ (mode.blocking => cmdq = <<>>)

FetchEnds(status) ==
  /\ pc' = "plan"
  /\ round' = [round EXCEPT !.src = status]

\* A batch arrives: extend_pending, then go on unless the budget is used up
\* or the byte cap is reached.
FetchBatch ==
  /\ MayRead
  /\ srcPos < Len(Script)
  /\ LET batch == Script[srcPos + 1]
     IN  /\ mode.blocking \/ batch # <<>>
         /\ pending' = Append(pending, batch)
         /\ pendingBytes' = pendingBytes + batch_bytes(batch)
         /\ taken' = taken \o batch
  /\ srcPos' = srcPos + 1
  /\ budget' = budget - 1
  /\ IF budget = 1 \/ pendingBytes' >= MaxBytes
       THEN FetchEnds("Ready") ELSE UNCHANGED <<pc, round>>
  /\ UNCHANGED <<mode, skip, backoff, workCmd, posted, left, cmdq, cmdsLeft, env>>

\* A non-blocking source handed out an empty batch: it counts as a miss.
FetchEmpty ==
  /\ MayRead /\ ~mode.blocking
  /\ srcPos < Len(Script) /\ Script[srcPos + 1] = <<>>
  /\ srcPos' = srcPos + 1
  /\ FetchEnds("Miss")
  /\ UNCHANGED <<mode, taken, pending, pendingBytes, skip, backoff, workCmd, posted, budget,
                 left, cmdq, cmdsLeft, env>>

\* Nothing to read now: try_receive gave None, or the fetch timeout passed.
FetchMiss ==
  /\ pc = "fetch"
  /\ FetchEnds("Miss")
  /\ UNCHANGED <<mode, srcPos, taken, pending, pendingBytes, skip, backoff, workCmd, posted,
                 budget, left, cmdq, cmdsLeft, env>>

\* A blocking source reports an error: EOF ends the source, a tolerated error
\* ends the fetch, any other is thrown out of the loop by `?`.
FetchError ==
  /\ MayRead /\ mode.blocking
  /\ \/ /\ srcPos = Len(Script)
        /\ FetchEnds("Terminal")
     \/ FetchEnds("Ready")
     \/ pc' = "exited" /\ round' = [round EXCEPT !.src = "Thrown"]
  /\ UNCHANGED <<mode, srcPos, taken, pending, pendingBytes, skip, backoff, workCmd, posted,
                 budget, left, cmdq, cmdsLeft, env>>

\* A command interrupts a blocking fetch.
FetchCmd ==
  /\ pc = "fetch" /\ mode.blocking /\ cmdq # <<>>
  /\ workCmd' = Head(cmdq) /\ cmdq' = Tail(cmdq)
  /\ CASE Head(cmdq) = "Stop" -> FetchEnds("Terminal")
       [] Head(cmdq) = "Isolate" -> FetchEnds("Miss")
       [] OTHER -> UNCHANGED <<pc, round>>
  /\ UNCHANGED <<mode, srcPos, taken, pending, pendingBytes, skip, backoff, posted, budget,
                 left, cmdsLeft, env>>

-----------------------------------------------------------------------------
(* The post half of round_pick *)

\* Mutant: a skipped round does not use up the cooldown.
SkipPost_Forever ==
  /\ pc = "plan"
  /\ pending = <<>> \/ skip > 0
  /\ pc' = "end"
  /\ UNCHANGED <<mode, srcPos, taken, pending, pendingBytes, skip, backoff, workCmd, posted,
                 budget, left, round, cmdq, cmdsLeft, env>>

\* Nothing pending, or in cooldown (which uses up one skipped round): the
\* round ends with the source status it has.
SkipPost ==
  /\ pc = "plan"
  /\ pending = <<>> \/ skip > 0
  /\ skip' = IF pending # <<>> THEN skip - 1 ELSE skip
  /\ pc' = "end"
  /\ UNCHANGED <<mode, srcPos, taken, pending, pendingBytes, backoff, workCmd, posted, budget,
                 left, round, cmdq, cmdsLeft, env>>

\* plan_post: everything when the source has ended, a burst otherwise.
PlanPost ==
  /\ pc = "plan"
  /\ pending # <<>> /\ skip = 0
  /\ left' = IF round.src = "Terminal" THEN Len(pending) ELSE MinOf(Len(pending), Burst)
  /\ pc' = "post"
  /\ UNCHANGED <<mode, srcPos, taken, pending, pendingBytes, skip, backoff, workCmd, posted,
                 budget, round, cmdq, cmdsLeft, env>>

\* Events in the first k pending batches.
FirstEvents(k) == EventsOf(SubSeq(pending, 1, k))

\* coalesce_pending_front takes batches until CoalesceMax events are merged.
Merging ==
  LET full == {k \in 1 .. Len(pending) : Len(FirstEvents(k)) >= CoalesceMax}
  IN  IF full = {} THEN Len(pending) ELSE CHOOSE k \in full : \A j \in full : k <= j

Merged ==
  SubSeq(FirstEvents(Merging), 1, MinOf(Len(FirstEvents(Merging)), CoalesceMax))

SplitOff ==
  SubSeq(FirstEvents(Merging), Len(Merged) + 1, Len(FirstEvents(Merging)))

\* Mutant: the split-off tail goes back without being added to the byte count.
coalesce_pending_front_Uncounted ==
  [payload |-> Merged,
   rest |-> (IF SplitOff = <<>> THEN <<>> ELSE <<SplitOff>>)
            \o SubSeq(pending, Merging + 1, Len(pending)),
   bytes |-> pendingBytes - batch_bytes(FirstEvents(Merging))]

\* Mutant: the split-off tail goes behind the queue.
coalesce_pending_front_TailLast ==
  [payload |-> Merged,
   rest |-> SubSeq(pending, Merging + 1, Len(pending))
            \o (IF SplitOff = <<>> THEN <<>> ELSE <<SplitOff>>),
   bytes |-> pendingBytes - batch_bytes(FirstEvents(Merging)) + batch_bytes(SplitOff)]

\* What exceeds CoalesceMax returns to the front as a batch of its own.
coalesce_pending_front ==
  [payload |-> Merged,
   rest |-> (IF SplitOff = <<>> THEN <<>> ELSE <<SplitOff>>)
            \o SubSeq(pending, Merging + 1, Len(pending)),
   bytes |-> pendingBytes - batch_bytes(FirstEvents(Merging)) + batch_bytes(SplitOff)]

\* pop_next_payload_for_post, on a non-empty queue.
pop_next_payload_for_post ==
  IF Len(pending) >= CoalesceTrigger
    THEN coalesce_pending_front
    ELSE [payload |-> Head(pending), rest |-> Tail(pending),
          bytes |-> pendingBytes - batch_bytes(Head(pending))]

\* Coalescing took every pending batch and all of them were empty.
OnlyEmptyBatches == Len(pending) >= CoalesceTrigger /\ Merged = <<>>

\* There is no payload after all: the empty batches are gone and the loop
\* returns.
PostNothing ==
  /\ pc = "post" /\ left > 0 /\ pending # <<>> /\ OnlyEmptyBatches
  /\ pending' = coalesce_pending_front.rest /\ pendingBytes' = coalesce_pending_front.bytes
  /\ left' = 0
  /\ UNCHANGED <<mode, srcPos, taken, skip, backoff, workCmd, posted, pc, budget, round, cmdq,
                 cmdsLeft, env>>

\* The loop of handle_pending_batch goes round: the router took the payload.
PostSent ==
  /\ pc = "post" /\ left > 0 /\ pending # <<>> /\ ~OnlyEmptyBatches
  /\ router = "up" /\ inChan < ChanCap
  /\ LET next == pop_next_payload_for_post
     IN  /\ pending' = next.rest /\ pendingBytes' = next.bytes
         /\ posted' = posted \o next.payload
  /\ inChan' = inChan + 1
  /\ left' = left - 1
  /\ round' = [round EXCEPT !.sent = @ + 1]
  /\ UNCHANGED <<mode, srcPos, taken, skip, backoff, workCmd, pc, budget, cmdq, cmdsLeft,
                 router, reloadsLeft>>

\* Full, Reloading or Closed: the payload returns to the front and the loop
\* breaks; only Closed ends the picker.
PostRefused ==
  /\ pc = "post" /\ left > 0 /\ pending # <<>> /\ ~OnlyEmptyBatches
  /\ router = "up" => inChan = ChanCap
  /\ LET next == pop_next_payload_for_post
     IN  /\ pending' = <<next.payload>> \o next.rest
         /\ pendingBytes' = next.bytes + batch_bytes(next.payload)
  /\ left' = 0
  /\ round' = [round EXCEPT !.dist = IF router = "closed" THEN "Terminal" ELSE "Pending"]
  /\ UNCHANGED <<mode, srcPos, taken, skip, backoff, workCmd, posted, pc, budget, cmdq,
                 cmdsLeft, env>>

\* on_post_result sets the back-off, and merging the post's own RoundStat
\* overwrites the source status of the round with Ready.
PostDone ==
  /\ pc = "post" /\ (left = 0 \/ pending = <<>>)
  /\ skip' = IF round.sent > 0 THEN 0 ELSE backoff
  /\ backoff' = IF round.sent > 0 THEN 1 ELSE MinOf(2 * backoff, MaxBackoff)
  /\ round' = [round EXCEPT !.src = "Ready"]
  /\ pc' = "end"
  /\ UNCHANGED <<mode, srcPos, taken, pending, pendingBytes, workCmd, posted, budget, left,
                 cmdq, cmdsLeft, env>>

\* is_stop of the merged RoundStat leaves the loop, with whatever is pending.
EndRound ==
  /\ pc = "end"
  /\ pc' = IF "Terminal" \in {round.src, round.dist} THEN "exited" ELSE "poll"
  /\ UNCHANGED <<mode, srcPos, taken, pending, pendingBytes, skip, backoff, workCmd, posted,
                 budget, left, round, cmdq, cmdsLeft, env>>

-----------------------------------------------------------------------------
(* The picker's surroundings *)

\* The manager broadcasts a command to the picker group.
Broadcast(cmd) ==
  /\ cmdsLeft > 0
  /\ cmdq' = Append(cmdq, cmd) /\ cmdsLeft' = cmdsLeft - 1
  /\ UNCHANGED <<mode, picker, env>>

\* A parser takes a batch out of its channel.
ParserTakes ==
  /\ inChan > 0
  /\ inChan' = inChan - 1
  /\ UNCHANGED <<mode, picker, cmdq, cmdsLeft, router, reloadsLeft>>

\* begin_reload ... replace, and the loss of every parser.
RouterReloads ==
  /\ router = "up" /\ reloadsLeft > 0
  /\ router' = "reloading" /\ reloadsLeft' = reloadsLeft - 1
  /\ UNCHANGED <<mode, picker, cmdq, cmdsLeft, inChan>>

RouterReplaced ==
  /\ router = "reloading"
  /\ router' = "up" /\ inChan' = 0
  /\ UNCHANGED <<mode, picker, cmdq, cmdsLeft, reloadsLeft>>

ParsersGone ==
  /\ router = "up" /\ reloadsLeft > 0
  /\ router' = "closed" /\ reloadsLeft' = reloadsLeft - 1
  /\ UNCHANGED <<mode, picker, cmdq, cmdsLeft, inChan>>

PickerStep ==
  \/ PollStops \/ StartRound
  \/ FetchBatch \/ FetchEmpty \/ FetchMiss \/ FetchError \/ FetchCmd
  \/ SkipPost \/ PlanPost \/ PostNothing \/ PostSent \/ PostRefused \/ PostDone \/ EndRound

Next ==
  \/ PickerStep
  \/ \E cmd \in {"Isolate", "Execute", "Stop"} : Broadcast(cmd)
  \/ ParserTakes \/ RouterReloads \/ RouterReplaced \/ ParsersGone

\* The picker task and the parsers run, and a reload ends.
Fairness ==
  /\ WF_vars(PickerStep) /\ WF_vars(ParserTakes) /\ WF_vars(RouterReplaced)

Spec == Init /\ [][Next]_vars /\ Fairness

-----------------------------------------------------------------------------
Handoff == INSTANCE OrderedHandoff WITH accepted <- taken, handed <- posted

\* The picker implements OrderedHandoff: through refusals, put-backs,
\* coalescing and splitting, the parse channels receive the source's events
\* in order, without a gap and without a repetition.
HandsOverInOrder == Handoff!Spec

\* What was taken from the source and not accepted by a parse channel is in
\* the pending queue, and pending_bytes is the size of exactly that.
NothingLeaksFromPending ==
  /\ posted \o EventsOf(pending) = taken
  /\ pendingBytes = batch_bytes(EventsOf(pending))

\* Backpressure is bounded: without a fixed rate the queue never exceeds the
\* high watermark, but for one batch when the source gave one too long for a
\* payload, whose split-off head was refused; in every mode a fetch passes the
\* byte cap by less than the batch that reached it, and a post is put off by at
\* most MaxBackoff rounds, one at least after every round that sent nothing.
PendingBounded ==
  /\ ~mode.fixed => \/ Len(pending) <= Hi
                    \/ /\ Len(pending) = Hi + 1
                       /\ \E i \in 1 .. srcPos : Len(Script[i]) > CoalesceMax
  /\ backoff \in 1 .. MaxBackoff /\ skip \in 0 .. MaxBackoff
  /\ \/ pendingBytes < MaxBytes
     \/ \E i \in 1 .. srcPos : pendingBytes - batch_bytes(Script[i]) < MaxBytes

\* An event that was taken reaches a parse channel, whatever the channel
\* fullness, back-off, isolation and reloads on the way, unless the picker
\* ends: again and again nothing is outstanding.
TakenIsPosted == []<>(posted = taken \/ pc = "exited")

\* "When the source has ended, empty pending as far as possible": a picker
\* that ends because its source did leaves nothing behind while the parsers
\* are there.
EofPostsPending ==
  (pc = "exited" /\ round.src = "Terminal" /\ workCmd # "Stop" /\ router # "closed")
    => EventsOf(pending) = <<>>

=============================================================================

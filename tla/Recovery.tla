------------------------------- MODULE Recovery -------------------------------
(***************************************************************************)
(* ActCovPicker, the task of wprescue that plays finalized rescue files    *)
(* back into the dispatcher's channel: the newest .dat file, from its      *)
(* first line, in units of lines between which it looks at commands; a     *)
(* file read to its end is removed.                                        *)
(*                                                                         *)
(* rescue/recover.lock, the check point, is loaded at the start and written *)
(* between units, but where a file is resumed does not depend on it: only  *)
(* whether it can be read matters here.                                    *)
(***************************************************************************)
EXTENDS Naturals, Sequences

CONSTANTS
  Unit,     \* lines between two looks at the commands, 100 in pick_file
  InboxCap  \* capacity of the dispatcher's channel

VARIABLES
  files,  \* the rescue directory, oldest file first
  inbox, closed, mon, \* the dispatcher's channel, the monitor's channel
  rpc,    \* load, scan, line, unit, save, pause, saveLast, wait, over, off
  ckpt,   \* recover.lock on disk: ok, or torn by a write that has not ended
  rfile, rpos, \* the file being replayed, lines of it sent
  idle,   \* idle_since is set
  sig,    \* Stop was broadcast
  outer, inner, \* pick_data and pick_file have received it
  agents, \* the route table knows the sinks of the files
  sent    \* history: records sent since the process started

\* CheckPoint::load_point: a file that does not parse ends pick_data.
LoadPoint ==
  /\ rpc = "load"
  /\ rpc' = IF ckpt = "ok" THEN "scan" ELSE "over"
  /\ UNCHANGED <<files, inbox, ckpt, rfile, rpos, idle, sig, outer, inner, agents, sent>>

\* Mutant: files still being written are picked, too.
Finished_OrOpen == {f \in DOMAIN files : files[f].st \in {"dat", "lock"}}

\* tack_lasts_file("dat"): files still being written have the suffix .lock.
Finished == {f \in DOMAIN files : files[f].st = "dat"}
Newest == {f \in Finished : \A g \in Finished : g <= f}

\* Mutant: the file is resumed where the check point says, here: anywhere.
Open_AtPoint ==
  /\ rpc = "scan" /\ agents
  /\ rfile' \in Newest /\ rpos' \in 0..Len(files[rfile'].recs) /\ inner' = FALSE
  /\ rpc' = "line" /\ idle' = FALSE
  /\ UNCHANGED <<files, inbox, ckpt, sig, outer, agents, sent>>

\* recov_file, pick_file: the newest file is opened.
Open ==
  /\ rpc = "scan" /\ agents
  /\ rfile' \in Newest /\ rpos' = 0 /\ inner' = FALSE
  /\ rpc' = "line" /\ idle' = FALSE
  /\ UNCHANGED <<files, inbox, ckpt, sig, outer, agents, sent>>

\* No sink agent: the file is passed over, and stays the newest.
NoAgent ==
  /\ rpc = "scan" /\ Finished # {} /\ ~agents
  /\ rpc' = "wait" /\ idle' = FALSE
  /\ UNCHANGED <<files, inbox, ckpt, rfile, rpos, sig, outer, inner, agents, sent>>

\* No file: wait, or leave when this has lasted for idle_exit.
NoRescueFile ==
  /\ rpc = "scan" /\ Finished = {}
  /\ rpc' = "wait" /\ idle' = TRUE
  /\ UNCHANGED <<files, inbox, ckpt, rfile, rpos, sig, outer, inner, agents, sent>>

IdleExit ==
  /\ rpc = "scan" /\ Finished = {} /\ idle
  /\ rpc' = "over"
  /\ UNCHANGED <<files, inbox, ckpt, rfile, rpos, idle, sig, outer, inner, agents, sent>>

\* The locals of pick_file are gone.
Returned == rfile' = 0 /\ rpos' = 0 /\ inner' = FALSE

Line == files[rfile].recs[rpos + 1]

SendLine ==
  /\ rpc = "line" /\ rpos < Len(files[rfile].recs)
  /\ ~closed /\ Len(inbox) < InboxCap
  /\ inbox' = Append(inbox, <<Line>>)
  /\ sent' = sent \union {Line}
  /\ rpos' = rpos + 1
  /\ rpc' = IF (rpos + 1) % Unit = 0 THEN "unit" ELSE "line"
  /\ UNCHANGED <<files, ckpt, rfile, idle, sig, outer, inner, agents>>

\* send_with_backpressure gives up: the channel is closed, or it stayed full
\* for RECOVER_BUSY_RETRY_MAX tries.  The error ends pick_data.
SendFails ==
  /\ rpc = "line" /\ rpos < Len(files[rfile].recs)
  /\ closed \/ Len(inbox) >= InboxCap
  /\ rpc' = "over" /\ Returned
  /\ UNCHANGED <<files, inbox, ckpt, idle, sig, outer, agents, sent>>

\* Mutant: a file read to its end is not removed.
EndOfFile_Keeps ==
  /\ rpc = "line" /\ rpos = Len(files[rfile].recs)
  /\ rpc' = "wait" /\ Returned
  /\ UNCHANGED <<files, inbox, ckpt, idle, sig, outer, agents, sent>>

EndOfFile ==
  /\ rpc = "line" /\ rpos = Len(files[rfile].recs)
  /\ files' = [files EXCEPT ![rfile] = [@ EXCEPT !.recs = <<>>, !.st = "gone"]]
  /\ rpc' = "wait" /\ Returned
  /\ UNCHANGED <<inbox, ckpt, idle, sig, outer, agents, sent>>

\* Between units, when the statistics interval is over: statistics (an error
\* ends pick_data) and the check point; fs::write truncates before it writes.
UnitEnd ==
  /\ rpc = "unit"
  /\ \/ rpc' = "pause" /\ UNCHANGED <<ckpt, rfile, rpos, inner>>
     \/ ~mon /\ rpc' = "over" /\ Returned /\ UNCHANGED ckpt
     \/ mon /\ rpc' = "save" /\ ckpt' = "torn" /\ UNCHANGED <<rfile, rpos, inner>>
  /\ UNCHANGED <<files, inbox, idle, sig, outer, agents, sent>>

SavePoint ==
  /\ rpc \in {"save", "saveLast"} /\ ckpt' = "ok"
  /\ \/ rpc = "save" /\ rpc' = "pause" /\ UNCHANGED <<rfile, rpos, inner>>
     \/ rpc = "saveLast" /\ rpc' = (IF mon THEN "wait" ELSE "over") /\ Returned
  /\ UNCHANGED <<files, inbox, idle, sig, outer, agents, sent>>

\* Then a command or the end of the pause, which is where a Stop received
\* before is acted upon.
UnitPause ==
  /\ rpc = "pause"
  /\ \/ sig /\ ~inner /\ inner' = TRUE /\ rpc' = "line" /\ UNCHANGED ckpt
     \/ ~inner /\ rpc' = "line" /\ UNCHANGED <<inner, ckpt>>
     \/ inner /\ rpc' = "saveLast" /\ ckpt' = "torn" /\ UNCHANGED inner
  /\ UNCHANGED <<files, inbox, rfile, rpos, idle, sig, outer, agents, sent>>

\* The pause of pick_data, likewise; a command that is there already wins
\* over the one-second sleep.
Pause ==
  /\ rpc = "wait"
  /\ \/ sig /\ ~outer /\ outer' = TRUE /\ rpc' = "scan"
     \/ ~sig /\ rpc' = "scan" /\ UNCHANGED outer
     \/ outer /\ rpc' = "over" /\ UNCHANGED outer
  /\ UNCHANGED <<files, inbox, ckpt, rfile, rpos, idle, sig, inner, agents, sent>>

Signal ==
  /\ rpc \notin {"off", "over"} /\ ~sig /\ sig' = TRUE
  /\ UNCHANGED <<files, inbox, rpc, ckpt, rfile, rpos, idle, outer, inner, agents, sent>>

Replay ==
  \/ LoadPoint \/ Open \/ NoAgent \/ NoRescueFile \/ IdleExit \/ SendLine
  \/ SendFails \/ EndOfFile \/ UnitEnd \/ SavePoint \/ UnitPause \/ Pause

=============================================================================

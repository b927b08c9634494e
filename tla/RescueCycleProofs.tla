-------------------------- MODULE RescueCycleProofs --------------------------
(*****************************************************************************)
(* Proofs about RescueCycle, for any number of sinks that the handle         *)
(* queues have room for, any records and any bounds: who owns a backend, the *)
(* files of an outage and of a replay, and, for RescueRecordProofs, what the *)
(* jobs of a package hold and owe.                                           *)
(*****************************************************************************)
EXTENDS RescueCycle, TLAPS

-----------------------------------------------------------------------------
(* Queues without repetition *)

\* Appending a new element keeps a queue free of repetition and adds it.
LEMMA AppendNew ==
  ASSUME NEW S, NEW q \in Seq(S), NEW x \in S, NoRepeat(q), x \notin Queued(q)
  PROVE  /\ Append(q, x) \in Seq(S)
         /\ NoRepeat(Append(q, x))
         /\ Queued(Append(q, x)) = Queued(q) \union {x}
<1> DEFINE p == Append(q, x)
<1>1. /\ p \in Seq(S) /\ DOMAIN p = 1..(Len(q) + 1)
      /\ p[Len(q) + 1] = x
      /\ \A i \in 1..Len(q) : p[i] = q[i]
  OBVIOUS
<1>2. DOMAIN q = 1..Len(q) /\ Len(q) \in Nat
  OBVIOUS
<1>3. NoRepeat(p)
  BY <1>1, <1>2 DEF NoRepeat, Queued
<1>4. Queued(p) = Queued(q) \union {x}
  BY <1>1, <1>2 DEF Queued
<1> QED
  BY <1>1, <1>3, <1>4

\* Taking the head off takes exactly that element out.
LEMMA TakeHead ==
  ASSUME NEW S, NEW q \in Seq(S), q # <<>>, NoRepeat(q)
  PROVE  /\ Head(q) \in Queued(q) /\ Head(q) \in S
         /\ Tail(q) \in Seq(S)
         /\ NoRepeat(Tail(q))
         /\ Queued(Tail(q)) = Queued(q) \ {Head(q)}
<1> DEFINE p == Tail(q)
<1>1. /\ p \in Seq(S) /\ DOMAIN p = 1..(Len(q) - 1)
      /\ \A i \in 1..(Len(q) - 1) : p[i] = q[i + 1]
  OBVIOUS
<1>2. DOMAIN q = 1..Len(q) /\ Len(q) \in Nat /\ Len(q) >= 1 /\ Head(q) = q[1]
  OBVIOUS
<1>3. NoRepeat(p)
  BY <1>1, <1>2 DEF NoRepeat
<1>4. Queued(p) \subseteq Queued(q) \ {Head(q)}
  BY <1>1, <1>2 DEF Queued, NoRepeat
<1>5. ASSUME NEW y \in Queued(q) \ {Head(q)} PROVE y \in Queued(p)
  <2>1. PICK i \in 1..Len(q) : q[i] = y
    BY <1>2 DEF Queued
  <2>2. i # 1 /\ i - 1 \in 1..(Len(q) - 1) /\ p[i - 1] = y
    BY <2>1, <1>1, <1>2
  <2> QED
    BY Zenon, <2>2, <1>1 DEF Queued
<1>6. Head(q) \in Queued(q) /\ Head(q) \in S
  BY <1>2 DEF Queued
<1> QED
  BY <1>1, <1>3, <1>4, <1>5, <1>6

-----------------------------------------------------------------------------
(* The inductive invariant *)

TaskPcs == {"select", "work", "hand", "ending", "done", "failed", "off"}
MaintPcs == {"poll", "hold", "fixed", "bad", "off"}
Reading == {"line", "unit", "save", "pause", "saveLast"}
FileOf(Lines) == [sink : Sinks, recs : Lines, st : FileStates]

\* Who holds a handle, and that a sink is in rescue state exactly when its
\* primary is a file.
HandleType ==
  /\ pc \in TaskPcs /\ mpc \in MaintPcs
  /\ badQ \in Seq(Sinks) /\ fixQ \in Seq(Sinks)
  /\ hand \in Sinks \union {0} /\ (hand # 0 <=> pc = "hand")
  /\ mh \in Sinks \union {0} /\ (mh # 0 <=> mpc \in {"hold", "fixed", "bad"})
  /\ primary \in [Sinks -> Nat] /\ retired \in [Sinks -> Nat]
  /\ backup \in [Sinks -> BOOLEAN]
  /\ \A s \in Sinks : backup[s] <=> primary[s] # Real

\* The rescue directory is a sequence of files.  What a line is does not
\* matter here.
FilesTyped == \E Lines : files \in Seq(FileOf(Lines))

\* A sink has made its one file of the outage exactly while it writes to it or
\* keeps it; never both.
OutageInv ==
  /\ made \in [Sinks -> Nat]
  /\ \A s \in Sinks : made[s] = IF backup[s] \/ retired[s] # NoFile THEN 1 ELSE 0
  /\ \A s \in Sinks : backup[s] => retired[s] = NoFile

\* The files open for writing are those of the sinks, each of its own sink;
\* what the replay reads is finished.
OpenInv ==
  /\ TaskOver => OpenFiles = {}
  /\ ~TaskOver =>
       /\ \A s \in Sinks : \A f \in {primary[s], retired[s]} \ {0} :
            f \in OpenFiles /\ files[f].sink = s
       /\ \A f \in OpenFiles : \E s \in Sinks : f \in {primary[s], retired[s]} \ {0}
  /\ rpc \in Reading => rfile \in R!Finished

Inv == HandleType /\ OneOwner /\ FilesTyped /\ OutageInv /\ OpenInv

\* Sinks are numbered from one, so zero can stand for none.
LEMMA SinkIsPositive == Sinks \subseteq Nat \ {0}
  BY GroupAssumption DEF Sinks

\* The initial states satisfy it.
LEMMA InitInv == Init => Inv
<1> SUFFICES ASSUME Init PROVE Inv
  OBVIOUS
<1> USE DEF Init, GroupInit, Real, NoFile
<1>1. HandleType
  BY DEF HandleType, TaskPcs, MaintPcs
<1>2. OneOwner
  BY DEF OneOwner, NoRepeat, Queued, InHand, Travelling
<1>3. FilesTyped
  <2>1. files \in Seq(FileOf({}))
    OBVIOUS
  <2> QED
    BY <2>1 DEF FilesTyped
<1>4. OutageInv
  BY DEF OutageInv
<1>5. OpenInv
  BY DEF OpenInv, OpenFiles, TaskOver, Reading
<1> QED
  BY <1>1, <1>2, <1>3, <1>4, <1>5 DEF Inv

-----------------------------------------------------------------------------
(* Steps that leave handles and files alone *)

\* What the invariant says of files does not depend on the queues.
LEMMA FilesKept ==
  ASSUME Inv, UNCHANGED <<primary, retired, backup, files, made, rpc, rfile>>,
         TaskOver' <=> TaskOver
  PROVE  FilesTyped' /\ OutageInv' /\ OpenInv'
<1>1. FilesTyped' /\ OutageInv'
  BY Zenon DEF Inv, FilesTyped, OutageInv, FileOf
<1>2. OpenInv'
  BY DEF Inv, OpenInv, OpenFiles, Reading, R!Finished
<1> QED
  BY <1>1, <1>2

\* Nor does ownership depend on the files.
LEMMA OwnersKept ==
  ASSUME OneOwner, UNCHANGED <<hand, primary, badQ, fixQ, mpc, mh>>, TaskOver' <=> TaskOver
  PROVE  OneOwner'
  BY DEF OneOwner, NoRepeat, Queued, InHand, Travelling

\* The invariant looks at the task only through "hand" and "over".
LEMMA Neutral ==
  ASSUME Inv, UNCHANGED <<handles, files, made, rpc, rfile>>,
         pc' \in TaskPcs, pc' = "hand" <=> pc = "hand", TaskOver' <=> TaskOver
  PROVE  Inv'
<1> USE DEF handles
<1>1. HandleType'
  BY DEF Inv, HandleType
<1>2. OneOwner'
  BY OwnersKept DEF Inv
<1>3. FilesTyped' /\ OutageInv' /\ OpenInv'
  BY FilesKept
<1> QED
  BY <1>1, <1>2, <1>3 DEF Inv

\* So a step that touches neither the task nor the handles and files keeps it.
LEMMA SameTask == ASSUME Inv, UNCHANGED <<handles, files, made, rpc, rfile, pc>> PROVE Inv'
<1>1. pc' \in TaskPcs /\ pc' = pc
  BY DEF Inv, HandleType
<1>2. TaskOver' <=> TaskOver
  BY DEF TaskOver
<1> QED
  BY <1>1, <1>2, Neutral

-----------------------------------------------------------------------------
(* Steps that move a handle *)

\* The task queues the handle it holds; to a dead maintainer it is lost.
LEMMA QueueBadStep == ASSUME Inv, QueueBad, UNCHANGED recovery PROVE Inv'
<1> USE DEF recovery
<1>1. HandleType /\ OneOwner /\ hand \in Sinks /\ hand \notin Queued(badQ)
  BY SinkIsPositive DEF Inv, HandleType, OneOwner, QueueBad, InHand
<1>2. FilesTyped' /\ OutageInv' /\ OpenInv'
  BY FilesKept DEF QueueBad, TaskOver
<1>3. CASE mpc = "off"
  <2>1. HandleType'
    BY <1>1, <1>3 DEF HandleType, QueueBad, TaskPcs
  <2>2. OneOwner'
    BY <1>1, <1>3 DEF OneOwner, QueueBad, InHand, Travelling, Queued, NoRepeat, TaskOver
  <2> QED
    BY <2>1, <2>2, <1>2 DEF Inv
<1>4. CASE mpc # "off"
  <2>1. badQ' = Append(badQ, hand) /\ NoRepeat(badQ)
    BY <1>1, <1>4 DEF QueueBad, OneOwner
  <2>2. badQ' \in Seq(Sinks) /\ NoRepeat(badQ') /\ Queued(badQ') = Queued(badQ) \union {hand}
    BY <1>1, <2>1, AppendNew DEF HandleType
  <2>3. HandleType'
    BY <1>1, <2>2 DEF HandleType, QueueBad, TaskPcs
  <2>4. /\ fixQ' = fixQ /\ mh' = mh /\ hand' = 0 /\ primary' = primary /\ mpc' = mpc
        /\ ~TaskOver /\ ~TaskOver'
    BY DEF QueueBad, TaskOver
  <2>5. Travelling' = Travelling
    BY <2>2, <2>4, <1>1, SinkIsPositive DEF Travelling, InHand, Queued
  <2>6. OneOwner'
    BY <1>1, <2>2, <2>4, <2>5, SinkIsPositive DEF OneOwner, InHand
  <2> QED
    BY <2>3, <2>6, <1>2 DEF Inv
<1> QED
  BY <1>3, <1>4

\* The maintainer takes a handle off the queue, ...
LEMMA MaintTakeStep == ASSUME Inv, MaintTake, UNCHANGED recovery PROVE Inv'
<1> USE DEF recovery, task
<1>1. HandleType /\ OneOwner /\ mh = 0 /\ mpc = "poll"
  BY DEF Inv, HandleType, MaintTake
<1>2. FilesTyped' /\ OutageInv' /\ OpenInv'
  BY FilesKept DEF MaintTake, TaskOver
<1>3. badQ' = Tail(badQ) /\ mh' = Head(badQ) /\ NoRepeat(badQ) /\ badQ # <<>>
  BY <1>1 DEF MaintTake, OneOwner
<1>4. /\ mh' \in Sinks /\ mh' \in Queued(badQ)
      /\ badQ' \in Seq(Sinks) /\ NoRepeat(badQ') /\ Queued(badQ') = Queued(badQ) \ {mh'}
  BY <1>1, <1>3, TakeHead DEF HandleType
<1>5. HandleType'
  BY <1>1, <1>4, SinkIsPositive DEF HandleType, MaintTake, MaintPcs
<1>6. /\ fixQ' = fixQ /\ hand' = hand /\ primary' = primary /\ TaskOver' = TaskOver
      /\ mpc' # "off"
  BY DEF MaintTake, TaskOver
<1>7. Travelling' = Travelling
  BY Zenon, <1>1, <1>4, <1>6, SinkIsPositive DEF Travelling, InHand, Queued
<1>8. OneOwner'
  BY <1>1, <1>4, <1>6, <1>7, SinkIsPositive DEF OneOwner, InHand
<1> QED
  BY <1>2, <1>5, <1>8 DEF Inv

\* ... returns it reconnected, unless the task is over, ...
LEMMA MaintSendFixStep == ASSUME Inv, MaintSendFix, UNCHANGED recovery PROVE Inv'
<1> USE DEF recovery, task
<1>1. HandleType /\ OneOwner /\ mh \in Sinks /\ mh \notin Queued(fixQ)
  BY SinkIsPositive DEF Inv, HandleType, OneOwner, MaintSendFix, InHand
<1>2. FilesTyped' /\ OutageInv' /\ OpenInv'
  BY FilesKept DEF MaintSendFix, TaskOver
<1>3. /\ badQ' = badQ /\ hand' = hand /\ primary' = primary /\ TaskOver' = TaskOver
      /\ mpc # "off" /\ mpc' = "poll" /\ mh' = 0
  BY DEF MaintSendFix, TaskOver
<1>4. CASE TaskOver
  <2>1. HandleType'
    BY Zenon, <1>1, <1>3, <1>4 DEF HandleType, MaintSendFix, MaintPcs
  <2>2. OneOwner'
    BY <1>1, <1>3, <1>4 DEF OneOwner, MaintSendFix, InHand, Travelling, Queued, NoRepeat
  <2> QED
    BY <2>1, <2>2, <1>2 DEF Inv
<1>5. CASE ~TaskOver
  <2>1. fixQ' = Append(fixQ, mh) /\ NoRepeat(fixQ)
    BY <1>1, <1>5 DEF MaintSendFix, OneOwner
  <2>2. fixQ' \in Seq(Sinks) /\ NoRepeat(fixQ') /\ Queued(fixQ') = Queued(fixQ) \union {mh}
    BY <1>1, <2>1, AppendNew DEF HandleType
  <2>3. HandleType'
    BY <1>1, <1>3, <2>2 DEF HandleType, MaintSendFix, MaintPcs
  <2>4. Travelling' = Travelling
    BY Zenon, <2>2, <1>3, <1>1, SinkIsPositive DEF Travelling, InHand, Queued
  <2>5. OneOwner'
    BY Zenon, <1>1, <1>3, <2>2, <2>4, SinkIsPositive DEF OneOwner, InHand
  <2> QED
    BY <2>3, <2>5, <1>2 DEF Inv
<1> QED
  BY <1>4, <1>5

\* ... puts it back to try again later, ...
LEMMA MaintSendBadStep == ASSUME Inv, MaintSendBad, UNCHANGED recovery PROVE Inv'
<1> USE DEF recovery, task
<1>1. HandleType /\ OneOwner /\ mh \in Sinks /\ mh \notin Queued(badQ)
  BY SinkIsPositive DEF Inv, HandleType, OneOwner, MaintSendBad, InHand
<1>2. FilesTyped' /\ OutageInv' /\ OpenInv'
  BY FilesKept DEF MaintSendBad, TaskOver
<1>3. /\ fixQ' = fixQ /\ hand' = hand /\ primary' = primary /\ TaskOver' = TaskOver
      /\ mpc # "off" /\ mpc' = "poll" /\ mh' = 0
  BY DEF MaintSendBad, TaskOver
<1>4. badQ' = Append(badQ, mh) /\ NoRepeat(badQ)
  BY <1>1 DEF MaintSendBad, OneOwner
<1>5. badQ' \in Seq(Sinks) /\ NoRepeat(badQ') /\ Queued(badQ') = Queued(badQ) \union {mh}
  BY <1>1, <1>4, AppendNew DEF HandleType
<1>6. HandleType'
  BY <1>1, <1>3, <1>5 DEF HandleType, MaintSendBad, MaintPcs
<1>7. Travelling' = Travelling
  BY <1>5, <1>3, <1>1, SinkIsPositive DEF Travelling, InHand, Queued
<1>8. OneOwner'
  BY <1>1, <1>3, <1>5, <1>7, SinkIsPositive DEF OneOwner, InHand
<1> QED
  BY <1>2, <1>6, <1>8 DEF Inv

\* ... or ends, and its queue with it.
LEMMA MaintEndsStep == ASSUME Inv, MaintEnds, UNCHANGED recovery PROVE Inv'
<1> USE DEF recovery, task
<1>1. FilesTyped' /\ OutageInv' /\ OpenInv'
  BY FilesKept DEF MaintEnds, TaskOver
<1>2. HandleType'
  BY DEF Inv, HandleType, MaintEnds, MaintPcs
<1>3. OneOwner'
  BY DEF Inv, OneOwner, MaintEnds, InHand, Travelling, Queued, NoRepeat
<1> QED
  BY <1>1, <1>2, <1>3 DEF Inv

-----------------------------------------------------------------------------
(* Steps that touch rescue files *)

\* Finalizing changes nothing but the suffix of the files named.
LEMMA FinalizeKeeps ==
  ASSUME NEW Rs, NEW fs \in Seq(FileOf(Rs)), NEW W
  PROVE  /\ Finalize(fs, W) \in Seq(FileOf(Rs))
         /\ DOMAIN Finalize(fs, W) = DOMAIN fs
         /\ \A f \in DOMAIN fs :
              /\ Finalize(fs, W)[f].sink = fs[f].sink
              /\ Finalize(fs, W)[f].st = IF f \in W THEN "dat" ELSE fs[f].st
<1> DEFINE g == Finalize(fs, W)
<1>1. /\ DOMAIN fs = 1..Len(fs) /\ Len(fs) \in Nat
      /\ \A f \in 1..Len(fs) : fs[f] \in FileOf(Rs)
  OBVIOUS
<1>2. g = [f \in 1..Len(fs) |-> IF f \in W THEN [fs[f] EXCEPT !.st = "dat"] ELSE fs[f]]
  BY <1>1 DEF Finalize
<1>3. \A f \in 1..Len(fs) :
        /\ g[f] \in FileOf(Rs) /\ g[f].sink = fs[f].sink
        /\ g[f].st = IF f \in W THEN "dat" ELSE fs[f].st
  BY <1>1, <1>2 DEF FileOf, FileStates
<1>4. g \in Seq(FileOf(Rs))
  BY <1>1, <1>2, <1>3
<1> QED
  BY <1>1, <1>2, <1>3, <1>4

\* The names of the owned files are numbers above zero.
LEMMA FilesArePositive == ASSUME Inv PROVE DOMAIN files \subseteq Nat \ {0}
  BY DEF Inv, FilesTyped, FileOf

\* Two sinks never share a file.
LEMMA OwnFile ==
  ASSUME Inv, ~TaskOver, NEW s \in Sinks, NEW t \in Sinks,
         NEW f \in {primary[s], retired[s]} \ {0}, f \in {primary[t], retired[t]}
  PROVE  s = t
  BY DEF Inv, OpenInv

\* A file that loses its .lock suffix does so by a delivery, or with the task.
ByDelivery ==
  \A f \in OpenFiles : files'[f].st = "dat" => made'[files[f].sink] = 0 \/ TaskOver'

\* A step that renames no open file has nothing to show.
LEMMA StillOpen == ASSUME OpenFiles \subseteq OpenFiles' PROVE ByDelivery
  BY DEF ByDelivery, OpenFiles

\* The real sink delivers: the retired file of its outage is finalized.
LEMMA WriteRealStep ==
  ASSUME Inv, NEW s \in Sinks, WriteReal(s), UNCHANGED recovery PROVE Inv' /\ ByDelivery
<1> USE DEF recovery, Real, NoFile
<1>1. /\ Inv /\ ~TaskOver /\ ~TaskOver' /\ pc' \in TaskPcs /\ pc # "hand" /\ pc' # "hand"
      /\ ~backup[s] /\ primary[s] = 0
  BY DEF Inv, HandleType, WriteReal, Trying, Settle, Working, TaskOver, TaskPcs
<1>2. /\ UNCHANGED <<hand, primary, backup, badQ, fixQ, mpc, mh, rpc, rfile>>
      /\ files' = Finalize(files, {retired[s]})
      /\ retired' = [retired EXCEPT ![s] = 0]
      /\ made' = [made EXCEPT ![s] = 0]
  BY DEF WriteReal
<1>3. HandleType'
  BY Zenon, <1>1, <1>2 DEF Inv, HandleType
<1>4. OneOwner'
  BY Zenon, <1>1, <1>2, OwnersKept DEF Inv
<1>5. PICK Rs : files \in Seq(FileOf(Rs))
  BY <1>1 DEF Inv, FilesTyped
<1>6. /\ files' \in Seq(FileOf(Rs)) /\ DOMAIN files' = DOMAIN files
      /\ \A f \in DOMAIN files :
           /\ files'[f].sink = files[f].sink
           /\ files'[f].st = IF f = retired[s] THEN "dat" ELSE files[f].st
  <2> DEFINE W == {retired[s]}
  <2>1. files' = Finalize(files, W)
    BY <1>2
  <2> HIDE DEF W
  <2>2. /\ files' \in Seq(FileOf(Rs)) /\ DOMAIN files' = DOMAIN files
        /\ \A f \in DOMAIN files :
             /\ files'[f].sink = files[f].sink
             /\ files'[f].st = IF f \in W THEN "dat" ELSE files[f].st
    BY <1>5, <2>1, FinalizeKeeps
  <2> QED
    BY <2>2 DEF W
<1>7. FilesTyped'
  BY Zenon, <1>6 DEF FilesTyped, FileOf
<1>8. OutageInv'
  BY <1>1, <1>2 DEF Inv, HandleType, OutageInv
<1>9. OpenFiles' = OpenFiles \ {retired[s]}
  BY Zenon, <1>6 DEF OpenFiles
<1>10. \A t \in Sinks \ {s} : retired[s] # 0 => retired[s] \notin {primary[t], retired[t]}
  BY <1>1, OwnFile
<1>11. /\ \A t \in Sinks : primary'[t] = primary[t]
       /\ \A t \in Sinks \ {s} : retired'[t] = retired[t]
       /\ retired'[s] = 0
  BY Zenon, <1>1, <1>2 DEF Inv, HandleType
<1>12. \A t \in Sinks : \A f \in {primary'[t], retired'[t]} \ {0} :
         f \in OpenFiles' /\ files'[f].sink = t
  <2> SUFFICES ASSUME NEW t \in Sinks, NEW f \in {primary'[t], retired'[t]} \ {0}
               PROVE  f \in OpenFiles' /\ files'[f].sink = t
    BY Zenon
  <2>1. f \in {primary[t], retired[t]} \ {0} /\ (t = s => f = primary[t])
    BY Zenon, <1>11
  <2>2. f \in OpenFiles /\ files[f].sink = t /\ f \in DOMAIN files
    BY Zenon, <1>1, <2>1 DEF Inv, OpenInv, OpenFiles
  <2>3. f # retired[s]
    BY Zenon, <1>1, <1>10, <2>1
  <2> QED
    BY Zenon, <1>6, <1>9, <2>2, <2>3
<1>13. \A f \in OpenFiles' : \E t \in Sinks : f \in {primary'[t], retired'[t]} \ {0}
  BY <1>1, <1>9, <1>11 DEF Inv, OpenInv
<1>14. rpc' \in Reading => rfile' \in R!Finished'
  BY ZenonT(40), <1>1, <1>2, <1>6 DEF Inv, OpenInv, Reading, R!Finished
<1>15. OpenInv'
  BY <1>1, <1>12, <1>13, <1>14 DEF OpenInv
<1>16. ByDelivery
  <2>1. SUFFICES ASSUME NEW f \in OpenFiles, files'[f].st = "dat"
                 PROVE  made'[files[f].sink] = 0
    BY DEF ByDelivery
  <2>2. f = retired[s] /\ f # 0
    BY Zenon, <1>6, <2>1, FilesArePositive DEF OpenFiles
  <2>3. files[f].sink = s
    BY <1>1, <2>2 DEF Inv, OpenInv
  <2> QED
    BY Zenon, <1>1, <1>2, <2>3 DEF Inv, OutageInv
<1> QED
  BY Zenon, <1>3, <1>4, <1>7, <1>8, <1>15, <1>16 DEF Inv

\* A batch goes to the rescue file: nothing is retired then, so nothing is
\* finalized.
LEMMA WriteRescueStep ==
  ASSUME Inv, NEW s \in Sinks, WriteRescue(s), UNCHANGED recovery PROVE Inv' /\ ByDelivery
<1> USE DEF recovery, Real, NoFile
<1>1. /\ Inv /\ ~TaskOver /\ ~TaskOver' /\ pc' \in TaskPcs /\ pc # "hand" /\ pc' # "hand"
      /\ backup[s] /\ primary[s] # 0 /\ retired[s] = 0
  BY Zenon DEF Inv, HandleType, OutageInv, WriteRescue, Trying, Settle, Working, TaskOver, TaskPcs
<1>2. primary[s] \in DOMAIN files /\ files[primary[s]].st = "lock"
  BY <1>1 DEF Inv, OpenInv, OpenFiles
<1> DEFINE fs == [files EXCEPT ![primary[s]].recs = @ \o cur.recs]
<1>3. /\ UNCHANGED <<hand, primary, backup, badQ, fixQ, mpc, mh, rpc, rfile, made>>
      /\ files' = Finalize(fs, {0})
      /\ retired' = [retired EXCEPT ![s] = 0]
  BY <1>1 DEF WriteRescue
<1>4. retired' = retired
  BY <1>1, <1>3 DEF Inv, HandleType
<1>5. HandleType'
  BY <1>1, <1>3, <1>4 DEF Inv, HandleType
<1>6. OneOwner'
  BY <1>1, <1>3, OwnersKept DEF Inv
<1>7. PICK Rs : files \in Seq(FileOf(Rs))
  BY <1>1 DEF Inv, FilesTyped
<1> DEFINE Rt == Rs \union {files[primary[s]].recs \o cur.recs}
<1>8. /\ fs \in Seq(FileOf(Rt)) /\ DOMAIN fs = DOMAIN files
      /\ \A f \in DOMAIN files : fs[f].sink = files[f].sink /\ fs[f].st = files[f].st
  <2>1. /\ DOMAIN files = 1..Len(files) /\ Len(files) \in Nat
        /\ \A f \in 1..Len(files) : files[f] \in FileOf(Rs)
    BY <1>7
  <2>2. \A f \in 1..Len(files) :
          fs[f] = IF f = primary[s]
                  THEN [files[f] EXCEPT !.recs = files[primary[s]].recs \o cur.recs]
                  ELSE files[f]
    BY Zenon, <2>1, <1>2
  <2>3. \A f \in 1..Len(files) :
          fs[f] \in FileOf(Rt) /\ fs[f].sink = files[f].sink /\ fs[f].st = files[f].st
    BY Zenon, <2>1, <2>2 DEF FileOf
  <2>4. fs = [f \in 1..Len(files) |-> fs[f]]
    BY Zenon, <2>1
  <2> HIDE DEF fs, Rt
  <2>5. fs \in Seq(FileOf(Rt)) /\ DOMAIN fs = 1..Len(files)
    BY <2>1, <2>3, <2>4
  <2> QED
    BY <2>1, <2>3, <2>5
<1> HIDE DEF fs, Rt
<1>9. /\ files' \in Seq(FileOf(Rt)) /\ DOMAIN files' = DOMAIN files
      /\ \A f \in DOMAIN files :
           files'[f].sink = files[f].sink /\ files'[f].st = files[f].st
  <2>1. /\ Finalize(fs, {0}) \in Seq(FileOf(Rt)) /\ DOMAIN Finalize(fs, {0}) = DOMAIN fs
        /\ \A f \in DOMAIN fs :
             /\ Finalize(fs, {0})[f].sink = fs[f].sink
             /\ Finalize(fs, {0})[f].st = IF f \in {0} THEN "dat" ELSE fs[f].st
    BY <1>8, FinalizeKeeps
  <2> QED
    BY Zenon, <2>1, <1>3, <1>8, FilesArePositive
<1>10. FilesTyped'
  BY ZenonT(40), <1>9 DEF FilesTyped, FileOf
<1>11. OutageInv'
  BY Zenon, <1>1, <1>3, <1>4 DEF Inv, OutageInv
<1>12. OpenFiles' = OpenFiles
  BY Zenon, <1>9 DEF OpenFiles
<1>13. OpenInv'
  <2>1. (R!Finished)' = R!Finished
    BY <1>9 DEF R!Finished
  <2>2. \A f \in OpenFiles : files'[f].sink = files[f].sink
    BY <1>9 DEF OpenFiles
  <2>3. rpc \in Reading => rfile \in R!Finished
    BY Zenon DEF Inv, OpenInv
  <2>4. /\ \A u \in Sinks : \A f \in {primary[u], retired[u]} \ {0} :
             f \in OpenFiles /\ files[f].sink = u
        /\ \A f \in OpenFiles : \E u \in Sinks : f \in {primary[u], retired[u]} \ {0}
    BY <1>1 DEF Inv, OpenInv
  <2> QED
    <3>1. rpc' \in Reading => rfile' \in (R!Finished)'
      BY Zenon, <1>3, <2>1, <2>3
    <3>2. \A u \in Sinks : \A f \in {primary'[u], retired'[u]} \ {0} :
            f \in OpenFiles' /\ files'[f].sink = u
      BY Zenon, <1>3, <1>4, <1>12, <2>2, <2>4
    <3>3. \A f \in OpenFiles' : \E u \in Sinks : f \in {primary'[u], retired'[u]} \ {0}
      BY Zenon, <1>3, <1>4, <1>12, <2>4
    <3> QED
      BY Zenon, <1>1, <3>1, <3>2, <3>3 DEF OpenInv
<1> QED
  BY Zenon, <1>5, <1>6, <1>10, <1>11, <1>12, <1>13, StillOpen DEF Inv

\* The task is over, whatever the reason: every open file is finalized.
LEMMA LeaveStep ==
  ASSUME Inv, NEW how \in {"done", "failed"}, Leave(how), UNCHANGED recovery PROVE Inv'
<1> USE DEF recovery, Real, NoFile
<1>1. /\ UNCHANGED <<primary, retired, backup, badQ, mpc, mh, rpc, rfile, made>>
      /\ hand' = 0 /\ fixQ' = <<>> /\ pc' = how /\ files' = Finalize(files, OpenFiles)
      /\ TaskOver'
  BY DEF Leave, TaskOver
<1>2. HandleType'
  <2>1. fixQ' \in Seq(Sinks)
    BY <1>1
  <2>2. pc' \in TaskPcs /\ pc' # "hand"
    BY Zenon, <1>1 DEF TaskPcs
  <2> QED
    BY Zenon, <1>1, <2>1, <2>2 DEF Inv, HandleType
<1>3. OneOwner'
  BY <1>1 DEF Inv, OneOwner, NoRepeat, Queued, InHand, Travelling
<1>4. PICK Rs : files \in Seq(FileOf(Rs))
  BY DEF Inv, FilesTyped
<1>5. /\ files' \in Seq(FileOf(Rs)) /\ DOMAIN files' = DOMAIN files
      /\ \A f \in DOMAIN files :
           files'[f].st = IF f \in OpenFiles THEN "dat" ELSE files[f].st
  <2> DEFINE W == OpenFiles
  <2>1. files' = Finalize(files, W)
    BY <1>1
  <2> HIDE DEF W
  <2>2. /\ files' \in Seq(FileOf(Rs)) /\ DOMAIN files' = DOMAIN files
        /\ \A f \in DOMAIN files : files'[f].st = IF f \in W THEN "dat" ELSE files[f].st
    BY <1>4, <2>1, FinalizeKeeps
  <2> QED
    BY <2>2 DEF W
<1>6. FilesTyped'
  BY ZenonT(40), <1>5 DEF FilesTyped, FileOf
<1>7. OutageInv'
  BY <1>1 DEF Inv, OutageInv
<1>8. OpenFiles' = {}
  BY <1>5 DEF OpenFiles
<1>9. R!Finished \subseteq R!Finished'
  BY Zenon, <1>5 DEF R!Finished, OpenFiles
<1>10. OpenInv'
  BY <1>1, <1>8, <1>9 DEF Inv, OpenInv, Reading
<1> QED
  BY <1>2, <1>3, <1>6, <1>7, <1>10 DEF Inv

\* A reconnected sink is in rescue state, because its handle was travelling:
\* recover_sink swaps it in, and the rescue file becomes the retired one.
LEMMA TakeBackStep == ASSUME Inv, TakeBack, UNCHANGED recovery PROVE Inv' /\ ByDelivery
<1> USE DEF recovery, Real, NoFile
<1> DEFINE s == Head(fixQ)
<1>1. /\ Inv /\ ~TaskOver /\ ~TaskOver' /\ pc' = pc /\ pc # "hand"
      /\ UNCHANGED <<hand, badQ, mpc, mh, rpc, rfile, made>>
      /\ fixQ' = Tail(fixQ) /\ fixQ # <<>> /\ fixQ \in Seq(Sinks) /\ NoRepeat(fixQ)
  BY Zenon DEF Inv, HandleType, OneOwner, TakeBack, TaskOver
<1>2. /\ s \in Sinks /\ s \in Queued(fixQ) /\ fixQ' \in Seq(Sinks) /\ NoRepeat(fixQ')
      /\ Queued(fixQ') = Queued(fixQ) \ {s}
  BY <1>1, TakeHead
<1>3. primary[s] # 0 /\ backup[s] /\ retired[s] = 0
  BY Zenon, <1>1, <1>2 DEF Inv, OneOwner, Travelling, HandleType, OutageInv
<1>4. /\ primary' = [primary EXCEPT ![s] = 0] /\ retired' = [retired EXCEPT ![s] = primary[s]]
      /\ backup' = [backup EXCEPT ![s] = FALSE] /\ files' = Finalize(files, {0})
  BY Zenon, <1>3 DEF TakeBack
<1> HIDE DEF s
<1>5. /\ \A t \in Sinks : primary'[t] = IF t = s THEN 0 ELSE primary[t]
      /\ \A t \in Sinks : retired'[t] = IF t = s THEN primary[s] ELSE retired[t]
      /\ \A t \in Sinks : backup'[t] = IF t = s THEN FALSE ELSE backup[t]
      /\ primary' \in [Sinks -> Nat] /\ retired' \in [Sinks -> Nat]
      /\ backup' \in [Sinks -> BOOLEAN]
  BY <1>1, <1>2, <1>4 DEF Inv, HandleType
<1>6. HandleType'
  BY Zenon, <1>1, <1>2, <1>5 DEF Inv, HandleType
<1>7. /\ Travelling' = Travelling \ {s} /\ InHand' = InHand /\ s \notin InHand
      /\ Queued(badQ') = Queued(badQ) /\ s \notin Queued(badQ) /\ NoRepeat(badQ')
  <2>1. InHand' = InHand /\ Queued(badQ') = Queued(badQ) /\ NoRepeat(badQ')
    BY Zenon, <1>1 DEF Inv, OneOwner, InHand
  <2>2. s \notin InHand /\ s \notin Queued(badQ)
    BY Zenon, <1>1, <1>2 DEF Inv, OneOwner
  <2> QED
    BY Zenon, <2>1, <2>2, <1>2 DEF Travelling
<1>8. Travelling \subseteq Sinks
  BY <1>1 DEF Inv, HandleType, Travelling, Queued, InHand
<1>9. OneOwner'
  BY ZenonT(40), <1>1, <1>2, <1>5, <1>7, <1>8 DEF Inv, OneOwner
<1>10. PICK Rs : files \in Seq(FileOf(Rs))
  BY Zenon, <1>1 DEF Inv, FilesTyped
<1>11. /\ files' \in Seq(FileOf(Rs)) /\ DOMAIN files' = DOMAIN files
       /\ \A f \in DOMAIN files :
            files'[f].sink = files[f].sink /\ files'[f].st = files[f].st
  <2> DEFINE W == {0}
  <2>1. files' = Finalize(files, W)
    BY <1>4
  <2>2. \A f \in DOMAIN files : f \notin W
    BY FilesArePositive, <1>10
  <2> HIDE DEF W
  <2> QED
    BY <1>10, <2>1, <2>2, FinalizeKeeps
<1>12. FilesTyped'
  BY Zenon, <1>11 DEF FilesTyped, FileOf
<1>13. OutageInv'
  BY ZenonT(40), <1>1, <1>2, <1>3, <1>5 DEF Inv, OutageInv
<1>14. OpenFiles' = OpenFiles /\ R!Finished' = R!Finished
  BY <1>11 DEF OpenFiles, R!Finished
<1>15. \A t \in Sinks : {primary'[t], retired'[t]} \ {0} = {primary[t], retired[t]} \ {0}
  BY <1>3, <1>5
<1>16. OpenFiles \subseteq DOMAIN files
  BY DEF OpenFiles
<1>17. OpenInv'
  BY Zenon, <1>1, <1>11, <1>14, <1>15, <1>16 DEF Inv, OpenInv, Reading
<1> QED
  BY Zenon, <1>6, <1>9, <1>12, <1>13, <1>14, <1>17, StillOpen DEF Inv

\* Fail-over: the file is the retired one of the same outage, or a new one,
\* and then none was made since the last delivery.
LEMMA SwapStep ==
  ASSUME Inv, NEW s \in Sinks, Swap(s), UNCHANGED recovery PROVE Inv' /\ ByDelivery
<1> USE DEF recovery, Real, NoFile
<1>1. /\ Inv /\ ~TaskOver /\ ~TaskOver' /\ pc' = "hand" /\ pc = "work" /\ hand = 0 /\ hand' = s
      /\ UNCHANGED <<badQ, fixQ, mpc, mh, rpc, rfile>>
      /\ ~backup[s] /\ primary[s] = 0
  BY DEF Inv, HandleType, Swap, Trying, TaskOver
<1>2. PICK Rs : files \in Seq(FileOf(Rs))
  BY Zenon, <1>1 DEF Inv, FilesTyped
<1>3. DOMAIN files = 1..Len(files) /\ Len(files) \in Nat
  BY <1>2
<1> DEFINE new == IF retired[s] # 0 THEN retired[s] ELSE Len(files) + 1
           Rt == Rs \union {<<>>}
<1>4. /\ backup' = [backup EXCEPT ![s] = TRUE] /\ retired' = [retired EXCEPT ![s] = 0]
      /\ primary' = [primary EXCEPT ![s] = new]
  BY Zenon DEF Swap
<1>5. new \in Nat /\ new # 0
  BY <1>1, <1>3 DEF Inv, HandleType
<1>6. /\ files' \in Seq(FileOf(Rt))
      /\ DOMAIN files' = DOMAIN files \union {new}
      /\ \A f \in DOMAIN files : files'[f] = files[f]
      /\ files'[new].st = "lock" /\ files'[new].sink = s
      /\ retired[s] = 0 => new \notin DOMAIN files
      /\ made' = [made EXCEPT ![s] = 1]
  <2>1. files \in Seq(FileOf(Rt))
    <3>1. FileOf(Rs) \subseteq FileOf(Rt)
      BY DEF FileOf
    <3>2. \A f \in 1..Len(files) : files[f] \in FileOf(Rs)
      BY <1>2
    <3>3. files = [f \in 1..Len(files) |-> files[f]]
      BY <1>2
    <3> HIDE DEF Rt
    <3> QED
      BY <1>3, <3>1, <3>2, <3>3
  <2>2. CASE retired[s] # 0
    <3>1. files' = files /\ made' = made
      BY <2>2 DEF Swap
    <3>2. retired[s] \in OpenFiles /\ files[retired[s]].sink = s /\ made[s] = 1
      BY ZenonT(40), <1>1, <2>2 DEF Inv, OpenInv, OutageInv
    <3> QED
      BY ZenonT(40), <2>1, <2>2, <3>1, <3>2, <1>1 DEF OpenFiles, Inv, OutageInv
  <2>3. CASE retired[s] = 0
    <3> DEFINE r == [sink |-> s, recs |-> <<>>, st |-> "lock"]
    <3>1. files' = Append(files, r) /\ made' = [made EXCEPT ![s] = @ + 1]
      BY <2>3 DEF Swap
    <3>2. r \in FileOf(Rt) /\ r.st = "lock" /\ r.sink = s
      BY DEF FileOf, FileStates
    <3>3. made \in [Sinks -> Nat] /\ made[s] = 0
      BY ZenonT(40), <1>1, <2>3 DEF Inv, OutageInv
    <3> HIDE DEF r, Rt
    <3>4. /\ files' \in Seq(FileOf(Rt)) /\ DOMAIN files' = 1..(Len(files) + 1)
          /\ files'[Len(files) + 1] = r
          /\ \A f \in 1..Len(files) : files'[f] = files[f]
      BY <2>1, <3>1, <3>2
    <3>5. new = Len(files) + 1
      BY <2>3
    <3> HIDE DEF new
    <3>6. made' = [made EXCEPT ![s] = 1]
      BY <3>1, <3>3
    <3>7. DOMAIN files' = DOMAIN files \union {new} /\ new \notin DOMAIN files
      BY <1>3, <3>4, <3>5
    <3>8. files'[new].st = "lock" /\ files'[new].sink = s
      BY Zenon, <3>2, <3>4, <3>5
    <3>9. \A f \in DOMAIN files : files'[f] = files[f]
      BY Zenon, <1>3, <3>4
    <3> QED
      BY Zenon, <3>4, <3>6, <3>7, <3>8, <3>9
  <2> QED
    BY Zenon, <2>2, <2>3
<1> HIDE DEF new, Rt
<1>7. /\ \A t \in Sinks : primary'[t] = IF t = s THEN new ELSE primary[t]
      /\ \A t \in Sinks : retired'[t] = IF t = s THEN 0 ELSE retired[t]
      /\ \A t \in Sinks : backup'[t] = IF t = s THEN TRUE ELSE backup[t]
      /\ \A t \in Sinks : made'[t] = IF t = s THEN 1 ELSE made[t]
      /\ primary' \in [Sinks -> Nat] /\ retired' \in [Sinks -> Nat]
      /\ backup' \in [Sinks -> BOOLEAN] /\ made' \in [Sinks -> Nat]
  BY ZenonT(40), <1>1, <1>4, <1>5, <1>6 DEF Inv, HandleType, OutageInv
<1>8. HandleType'
  BY ZenonT(40), <1>1, <1>5, <1>7, SinkIsPositive DEF Inv, HandleType, TaskPcs
<1>9. /\ Queued(badQ') = Queued(badQ) /\ NoRepeat(badQ')
      /\ Queued(fixQ') = Queued(fixQ) /\ NoRepeat(fixQ')
  BY ZenonT(40), <1>1 DEF Inv, OneOwner
<1>10. /\ s \notin Travelling /\ InHand' = InHand \union {s}
       /\ Travelling' = Travelling \union {s}
  BY <1>1, <1>9, SinkIsPositive DEF Inv, OneOwner, InHand, Travelling
<1>11. Travelling \subseteq Sinks
  <2>1. badQ \in Seq(Sinks) /\ fixQ \in Seq(Sinks) /\ {hand, mh} \ {0} \subseteq Sinks
    BY Zenon, <1>1 DEF Inv, HandleType
  <2>2. Queued(badQ) \subseteq Sinks /\ Queued(fixQ) \subseteq Sinks
    BY <2>1 DEF Queued
  <2> QED
    BY Zenon, <2>1, <2>2 DEF Travelling, InHand
<1>12. OneOwner'
  <2>1. Queued(badQ') \intersect Queued(fixQ') = {} /\ hand' # mh'
    BY <1>1, <1>9, <1>10 DEF Inv, OneOwner, Travelling, InHand
  <2>2. InHand' \intersect (Queued(badQ') \union Queued(fixQ')) = {}
    BY Zenon, <1>1, <1>9, <1>10 DEF Inv, OneOwner, Travelling
  <2>3. \A t \in Travelling' : primary'[t] # 0
    BY Zenon, <1>1, <1>5, <1>7, <1>10, <1>11 DEF Inv, OneOwner
  <2>4. mpc' # "off" => \A t \in Sinks : primary'[t] # 0 => t \in Travelling'
    BY Zenon, <1>1, <1>7, <1>10 DEF Inv, OneOwner
  <2> QED
    BY Zenon, <1>9, <2>1, <2>2, <2>3, <2>4 DEF OneOwner
<1>13. FilesTyped'
  BY Zenon, <1>6 DEF FilesTyped, FileOf
<1>14. OutageInv'
  BY ZenonT(40), <1>1, <1>7 DEF Inv, OutageInv
<1>15. OpenFiles' = OpenFiles \union {new} /\ R!Finished \subseteq R!Finished'
  BY ZenonT(40), <1>6 DEF OpenFiles, R!Finished
<1>16. /\ \A t \in Sinks \ {s} : {primary'[t], retired'[t]} = {primary[t], retired[t]}
       /\ {primary'[s], retired'[s]} \ {0} = {new}
       /\ ({primary[s], retired[s]} \ {0}) \subseteq {new}
  BY ZenonT(40), <1>1, <1>5, <1>7 DEF new
<1>17. \A t \in Sinks : \A f \in {primary'[t], retired'[t]} \ {0} :
         f \in OpenFiles' /\ files'[f].sink = t
  <2>1. SUFFICES ASSUME NEW t \in Sinks, NEW f \in {primary'[t], retired'[t]} \ {0}
                 PROVE  f \in OpenFiles' /\ files'[f].sink = t
    OBVIOUS
  <2>2. CASE t = s
    <3>1. f = new
      BY Zenon, <1>16, <2>2
    <3> QED
      BY Zenon, <1>6, <1>15, <2>2, <3>1
  <2>3. CASE t # s
    <3>1. f \in OpenFiles /\ files[f].sink = t
      BY ZenonT(40), <1>1, <1>16, <2>3 DEF Inv, OpenInv
    <3>2. f \in DOMAIN files
      BY Zenon, <3>1 DEF OpenFiles
    <3> QED
      BY Zenon, <1>6, <1>15, <3>1, <3>2
  <2> QED
    BY Zenon, <2>2, <2>3
<1>18. \A f \in OpenFiles' : \E t \in Sinks : f \in {primary'[t], retired'[t]} \ {0}
  <2>1. SUFFICES ASSUME NEW f \in OpenFiles'
                 PROVE  \E t \in Sinks : f \in {primary'[t], retired'[t]} \ {0}
    BY Zenon
  <2>2. f = new => f \in {primary'[s], retired'[s]} \ {0}
    BY Zenon, <1>16
  <2>3. ASSUME f # new PROVE \E t \in Sinks : f \in {primary'[t], retired'[t]} \ {0}
    <3>1. f \in OpenFiles
      BY Zenon, <1>15, <2>3
    <3>2. PICK t \in Sinks : f \in {primary[t], retired[t]} \ {0}
      BY Zenon, <1>1, <3>1 DEF Inv, OpenInv
    <3>3. t # s
      BY Zenon, <1>16, <2>3, <3>2
    <3> QED
      BY Zenon, <1>16, <3>2, <3>3
  <2> QED
    BY Zenon, <2>2, <2>3
<1>19. OpenInv'
  <2>1. rpc \in Reading => rfile \in R!Finished
    BY Zenon, <1>1 DEF Inv, OpenInv
  <2>2. rpc' \in Reading => rfile' \in R!Finished'
    BY Zenon, <1>1, <1>15, <2>1
  <2> QED
    BY Zenon, <1>1, <1>17, <1>18, <2>2 DEF OpenInv
<1> QED
  BY Zenon, <1>8, <1>12, <1>13, <1>14, <1>15, <1>19, StillOpen DEF Inv

-----------------------------------------------------------------------------
(* The replay, crash and start of a process *)

\* The replay touches only files that are finished.
LEMMA ReplayStep ==
  ASSUME Inv, R!Replay, UNCHANGED groupRest PROVE Inv' /\ ByDelivery
<1> USE DEF groupRest, handles
<1>1. HandleType' /\ OneOwner' /\ (TaskOver' <=> TaskOver)
  <2>1. TaskOver' <=> TaskOver
    BY DEF TaskOver
  <2>2. OneOwner'
    BY <2>1, OwnersKept DEF Inv
  <2>3. HandleType'
    BY DEF Inv, HandleType
  <2> QED
    BY <2>1, <2>2, <2>3
<1>2. OutageInv'
  BY ZenonT(40) DEF Inv, OutageInv
<1>3. CASE R!EndOfFile
  <2>1. rfile \in DOMAIN files /\ files[rfile].st = "dat" /\ rpc' \notin Reading
    BY <1>3 DEF Inv, OpenInv, R!EndOfFile, R!Finished, Reading
  <2>2. PICK Rs : files \in Seq(FileOf(Rs))
    BY DEF Inv, FilesTyped
  <2> DEFINE Rt == Rs \union {<<>>}
             r == [files[rfile] EXCEPT !.recs = <<>>, !.st = "gone"]
  <2>3. files' = [files EXCEPT ![rfile] = r]
    BY <1>3 DEF R!EndOfFile
  <2>4. /\ DOMAIN files = 1..Len(files) /\ Len(files) \in Nat
        /\ \A f \in 1..Len(files) : files[f] \in FileOf(Rs)
    BY <2>2
  <2>5. FileOf(Rs) \subseteq FileOf(Rt) /\ r \in FileOf(Rt) /\ r.st = "gone"
    BY Zenon, <2>1, <2>4 DEF FileOf, FileStates
  <2> HIDE DEF r, Rt
  <2>6. /\ files' = [f \in 1..Len(files) |-> files'[f]]
        /\ \A f \in 1..Len(files) : files'[f] = IF f = rfile THEN r ELSE files[f]
    BY Zenon, <2>3, <2>4
  <2>7. files' \in Seq(FileOf(Rt)) /\ DOMAIN files' = DOMAIN files
    BY <2>4, <2>5, <2>6
  <2>8. FilesTyped'
    BY ZenonT(40), <2>7 DEF FilesTyped, FileOf
  <2>9. /\ OpenFiles' = OpenFiles
        /\ \A f \in OpenFiles : files'[f].sink = files[f].sink
    BY <2>1, <2>4, <2>5, <2>6, <2>7 DEF OpenFiles
  <2>10. OpenInv'
    BY ZenonT(40), <1>1, <2>1, <2>9 DEF Inv, OpenInv
  <2> QED
    BY Zenon, <1>1, <1>2, <2>8, <2>9, <2>10, StillOpen DEF Inv
<1>4. CASE files' = files /\ (rpc' \in Reading => rfile' \in R!Finished)
  <2>1. FilesTyped'
    BY ZenonT(40), <1>4 DEF Inv, FilesTyped, FileOf
  <2>2. OpenFiles' = OpenFiles /\ R!Finished' = R!Finished
    BY ZenonT(40), <1>4 DEF OpenFiles, R!Finished
  <2>3. OpenInv'
    BY Zenon, <1>1, <1>4, <2>2 DEF Inv, OpenInv, Reading
  <2> QED
    BY <1>1, <1>2, <2>1, <2>2, <2>3, StillOpen DEF Inv
<1>5. ASSUME ~R!EndOfFile
      PROVE  files' = files /\ (rpc' \in Reading => rfile' \in R!Finished)
  <2>1. CASE R!LoadPoint \/ R!NoAgent \/ R!NoRescueFile \/ R!IdleExit \/ R!Pause
    BY <2>1 DEF R!LoadPoint, R!NoAgent, R!NoRescueFile, R!IdleExit, R!Pause, Reading
  <2>2. CASE R!Open
    BY <2>2 DEF R!Open, R!Newest, Reading
  <2>3. CASE R!SendLine \/ R!SendFails
    BY ZenonT(40), <2>3 DEF R!SendLine, R!SendFails, Reading, Inv, OpenInv
  <2>4. CASE R!UnitEnd \/ R!SavePoint \/ R!UnitPause
    BY Zenon, <2>4 DEF R!UnitEnd, R!SavePoint, R!UnitPause, Reading, Inv, OpenInv
  <2> QED
    BY Zenon, <1>5, <2>1, <2>2, <2>3, <2>4 DEF R!Replay
<1> QED
  BY <1>3, <1>4, <1>5

\* A process that dies leaves no open file behind, only orphans.
LEMMA CrashStep == ASSUME Inv, Crash PROVE Inv'
<1> USE DEF Real, NoFile
<1>1. /\ pc' = "off" /\ hand' = 0 /\ mh' = 0 /\ mpc' = "off" /\ badQ' = <<>> /\ fixQ' = <<>>
      /\ primary' = [s \in Sinks |-> 0] /\ retired' = [s \in Sinks |-> 0]
      /\ backup' = [s \in Sinks |-> FALSE] /\ made' = [s \in Sinks |-> 0]
      /\ rpc' = "off" /\ TaskOver'
  BY Zenon DEF Crash, FreshMemory, FreshRecovery, TaskOver
<1>2. HandleType'
  BY <1>1 DEF HandleType, TaskPcs, MaintPcs
<1>3. OneOwner'
  BY <1>1 DEF OneOwner, NoRepeat, Queued, InHand, Travelling
<1>4. OutageInv'
  BY <1>1 DEF OutageInv
<1>5. FilesTyped' /\ OpenFiles' = {}
  <2>1. PICK Rs : files \in Seq(FileOf(Rs))
    BY DEF Inv, FilesTyped
  <2> DEFINE Rt == Rs \union {<<>>}
             g(f) == IF f \in OpenFiles THEN [files[f] EXCEPT !.recs = <<>>, !.st = "orphan"]
                     ELSE files[f]
  <2>2. /\ DOMAIN files = 1..Len(files) /\ Len(files) \in Nat
        /\ \A f \in 1..Len(files) : files[f] \in FileOf(Rs)
    BY <2>1
  <2>3. files' = [f \in 1..Len(files) |-> g(f)]
    BY Zenon, <2>2 DEF Crash
  <2>4. \A f \in 1..Len(files) : g(f) \in FileOf(Rt) /\ g(f).st # "lock"
    BY ZenonT(40), <2>2 DEF FileOf, FileStates, OpenFiles
  <2> HIDE DEF g, Rt
  <2>5. files' \in Seq(FileOf(Rt)) /\ \A f \in DOMAIN files' : files'[f].st # "lock"
    BY <2>2, <2>3, <2>4
  <2> QED
    BY Zenon, <2>5 DEF FilesTyped, FileOf, OpenFiles
<1>6. OpenInv'
  BY <1>1, <1>5 DEF OpenInv, Reading
<1> QED
  BY <1>2, <1>3, <1>4, <1>5, <1>6 DEF Inv

\* wprescue starts with no file open, since its predecessor is over.
LEMMA StartRescueStep == ASSUME Inv, StartRescue, phase = "down" => TaskOver PROVE Inv'
<1> USE DEF Real, NoFile
<1>1. /\ pc' = "select" /\ hand' = 0 /\ mh' = 0 /\ mpc' = "poll" /\ badQ' = <<>> /\ fixQ' = <<>>
      /\ primary' = [s \in Sinks |-> 0] /\ retired' = [s \in Sinks |-> 0]
      /\ backup' = [s \in Sinks |-> FALSE] /\ made' = [s \in Sinks |-> 0]
      /\ rpc' = "load" /\ ~TaskOver' /\ TaskOver /\ files' = files
  BY DEF StartRescue, FreshMemory, FreshRecovery, TaskOver
<1>2. HandleType'
  BY <1>1 DEF HandleType, TaskPcs, MaintPcs
<1>3. OneOwner'
  BY <1>1 DEF OneOwner, NoRepeat, Queued, InHand, Travelling
<1>4. OutageInv'
  BY <1>1 DEF OutageInv
<1>5. FilesTyped' /\ OpenFiles' = {}
  BY Zenon, <1>1 DEF Inv, FilesTyped, FileOf, OpenInv, OpenFiles
<1>6. OpenInv'
  BY <1>1, <1>5 DEF OpenInv, Reading
<1> QED
  BY <1>2, <1>3, <1>4, <1>5, <1>6 DEF Inv

-----------------------------------------------------------------------------
(* The invariant holds *)

\* No process, no task.
DownInv == phase = "down" => pc = "off"

\* Every step of the group task without a write error preserves it, ...
LEMMA GroupTaskStep == ASSUME Inv, GroupTask, UNCHANGED recovery PROVE Inv'
<1>1. CASE RecvPackage \/ NextJob \/ SkipWrite \/ ChannelDrained \/ FlushTick
  <2>1. UNCHANGED <<handles, files, made, rpc, rfile>>
    BY Zenon, <1>1 DEF RecvPackage, NextJob, SkipWrite, ChannelDrained, FlushTick, recovery
  <2>2. pc \in {"select", "work"} /\ pc' \in {"select", "work", "ending"}
    BY Zenon, <1>1 DEF RecvPackage, NextJob, SkipWrite, ChannelDrained, FlushTick, Settle, Working
  <2> QED
    BY <2>1, <2>2, Neutral DEF TaskOver, TaskPcs
<1>2. CASE StatFails \/ StopBackends
  BY <1>2, LeaveStep DEF StatFails, StopBackends
<1>3. CASE QueueBad \/ TakeBack
  BY <1>3, QueueBadStep, TakeBackStep
<1>4. CASE \E s \in Sinks : WriteReal(s) \/ WriteRescue(s)
  BY <1>4, WriteRealStep, WriteRescueStep
<1> QED
  BY Zenon, <1>1, <1>2, <1>3, <1>4 DEF GroupTask

\* ... so does every write error, ...
LEMMA WriteErrorStep == ASSUME Inv, WriteError, UNCHANGED recovery PROVE Inv'
<1>1. PICK s \in Sinks : WriteDropped(s) \/ WriteTolerated(s) \/ Swap(s) \/ WriteThrown(s)
  BY DEF WriteError
<1>2. CASE WriteDropped(s) \/ WriteTolerated(s)
  <2>1. UNCHANGED <<handles, files, made, rpc, rfile>>
    BY <1>2 DEF WriteDropped, WriteTolerated, recovery
  <2>2. pc = "work" /\ pc' \in {"select", "work", "ending"}
    BY Zenon, <1>2 DEF WriteDropped, WriteTolerated, Trying, Settle, Working
  <2> QED
    BY Zenon, <2>1, <2>2, Neutral DEF TaskOver, TaskPcs
<1>3. CASE WriteThrown(s)
  BY <1>3, LeaveStep DEF WriteThrown
<1> QED
  BY <1>1, <1>2, <1>3, SwapStep

\* ... and so does every step of the maintainer.
LEMMA MaintainerStep == ASSUME Inv, Maintainer, UNCHANGED recovery PROVE Inv'
<1>1. CASE ReconnectOk \/ ReconnectErr
  <2>1. /\ UNCHANGED <<pc, hand, primary, retired, backup, badQ, fixQ, mh, files, made, rpc, rfile>>
        /\ mpc = "hold" /\ mpc' \in {"fixed", "bad"}
    BY <1>1 DEF ReconnectOk, ReconnectErr, task, recovery
  <2>2. FilesTyped' /\ OutageInv' /\ OpenInv'
    BY Zenon, <2>1, FilesKept DEF TaskOver
  <2>3. HandleType'
    BY Zenon, <2>1 DEF Inv, HandleType, MaintPcs
  <2>4. OneOwner'
    <3>1. Travelling' = Travelling /\ (TaskOver' <=> TaskOver)
      BY Zenon, <2>1 DEF Queued, InHand, Travelling, TaskOver
    <3>2. /\ NoRepeat(badQ)' = NoRepeat(badQ) /\ NoRepeat(fixQ)' = NoRepeat(fixQ)
          /\ Queued(badQ)' = Queued(badQ) /\ Queued(fixQ)' = Queued(fixQ) /\ InHand' = InHand
      BY <2>1 DEF NoRepeat, Queued, InHand
    <3> QED
      BY Zenon, <2>1, <3>1, <3>2 DEF Inv, OneOwner
  <2> QED
    BY Zenon, <2>2, <2>3, <2>4 DEF Inv
<1> QED
  BY <1>1, MaintTakeStep, MaintSendFixStep, MaintSendBadStep DEF Maintainer

\* Every step preserves it.
LEMMA NextInv == ASSUME Inv, DownInv, [Next]_vars PROVE Inv'
<1>1. CASE InGroup(GroupTask)
  BY <1>1, GroupTaskStep DEF InGroup
<1>2. CASE InGroup(WriteError)
  BY <1>2, WriteErrorStep DEF InGroup
<1>3. CASE InGroup(Maintainer)
  BY <1>3, MaintainerStep DEF InGroup
<1>4. CASE InGroup((\E s \in Sinks : CooldownEnds(s)) \/ Feed \/ MonitorDies
                   \/ (MayStopTask /\ StopTask))
  <2>1. UNCHANGED <<handles, files, made, rpc, rfile, pc>>
    BY <1>4 DEF InGroup, CooldownEnds, Feed, MonitorDies, StopTask, recovery
  <2> QED
    BY Zenon, <2>1, SameTask
<1>5. CASE InGroup(MayStopMaintainer /\ MaintEnds)
  BY <1>5, MaintEndsStep DEF InGroup
<1>6. CASE InRecovery(R!Replay)
  BY Zenon, <1>6, ReplayStep DEF InRecovery
<1>7. CASE Interrupt \/ UNCHANGED vars
  <2>1. UNCHANGED <<handles, files, made, rpc, rfile, pc>>
    BY <1>7 DEF Interrupt, R!Signal, groupRest, vars, group, recovery
  <2> QED
    BY Zenon, <2>1, SameTask
<1>8. CASE Crash
  BY <1>8, CrashStep
<1>9. CASE StartRescue
  BY Zenon, <1>9, StartRescueStep DEF DownInv, TaskOver
<1> QED
  BY Zenon, <1>1, <1>2, <1>3, <1>4, <1>5, <1>6, <1>7, <1>8, <1>9 DEF Next, InGroup

\* Between two processes there is no task.
LEMMA NextDown == ASSUME DownInv, [Next]_vars PROVE DownInv'
<1>1. CASE Crash \/ StartRescue
  BY Zenon, <1>1 DEF Crash, StartRescue, FreshMemory, DownInv
<1>2. CASE InGroup(GroupTask \/ WriteError)
  <2>1. phase' = phase /\ pc # "off"
    BY Zenon, <1>2 DEF InGroup, GroupTask, RecvPackage, NextJob, SkipWrite, QueueBad, StatFails,
         TakeBack, ChannelDrained, StopBackends, FlushTick, WriteReal, WriteRescue, Trying,
         WriteError, WriteDropped, WriteTolerated, Swap, WriteThrown, Settle, Leave, control
  <2> QED
    BY <2>1 DEF DownInv
<1>3. CASE InGroup(Maintainer) \/ InGroup(MayStopMaintainer /\ MaintEnds)
  BY ZenonT(40), <1>3 DEF InGroup, Maintainer, MaintTake, ReconnectOk, ReconnectErr, MaintSendFix,
       MaintSendBad, MaintEnds, task, control, DownInv
<1>4. CASE InGroup((\E s \in Sinks : CooldownEnds(s)) \/ Feed \/ MonitorDies
                   \/ (MayStopTask /\ StopTask))
  BY ZenonT(40), <1>4 DEF InGroup, CooldownEnds, Feed, MonitorDies, StopTask, control, DownInv
<1>5. CASE InRecovery(R!Replay) \/ Interrupt \/ UNCHANGED vars
  BY <1>5 DEF InRecovery, Interrupt, vars, group, groupRest, DownInv
<1> QED
  BY <1>1, <1>2, <1>3, <1>4, <1>5 DEF Next, InGroup

\* The inductive invariant holds in every reachable state of engine and
\* wprescue: ownership of the backends, and who holds which rescue file.
THEOREM Invariance == Spec => [](Inv /\ DownInv)
<1>1. Init => Inv /\ DownInv
  BY InitInv DEF Init, GroupInit, DownInv
<1>2. (Inv /\ DownInv) /\ [Next]_vars => (Inv /\ DownInv)'
  BY NextInv, NextDown
<1> QED
  BY <1>1, <1>2, PTL DEF Spec

\* The real backend of a sink has one owner, for any number of sinks: the
\* switch to a rescue file, the maintainer's queues and the switch back never
\* duplicate or lose it.
THEOREM BackendHasOneOwner == Spec => []OneOwner
<1>1. Inv => OneOwner
  BY DEF Inv
<1> QED
  BY <1>1, Invariance, PTL

\* One outage makes one rescue file, however often the sink comes back and
\* fails again before it delivers.
THEOREM OutageHasOneFile == Spec => []OneFilePerOutage
<1>1. ASSUME Inv PROVE OneFilePerOutage
  <2>1. \A s \in Sinks : made[s] <= 1
    BY <1>1 DEF Inv, OutageInv
  <2>2. \A s \in Sinks : backup[s] => retired[s] = NoFile
    BY Zenon, <1>1 DEF Inv, OutageInv
  <2>3. ~TaskOver => OpenFiles = (UNION {{primary[s], retired[s]} : s \in Sinks}) \ {0}
    BY <1>1 DEF Inv, OpenInv
  <2> QED
    BY Zenon, <2>1, <2>2, <2>3 DEF OneFilePerOutage
<1>2. Inv => OneFilePerOutage
  BY <1>1
<1> QED
  BY <1>2, Invariance, PTL

\* A rescue file of a live task is finalized by a delivery of its own sink and
\* by nothing else, for any sinks and any schedule.
THEOREM FinalizedOnlyByDelivery == Spec => FinalizedByDelivery
<1>1. ASSUME Inv, Next PROVE ByDelivery
  <2>1. CASE TaskOver'
    BY <2>1 DEF ByDelivery
  <2>2. CASE files' = files
    BY <2>2, StillOpen DEF OpenFiles
  <2>3. CASE InGroup(GroupTask)
    <3>1. CASE RecvPackage \/ NextJob \/ SkipWrite \/ ChannelDrained \/ FlushTick \/ QueueBad
      BY ZenonT(40), <3>1, <2>2
           DEF RecvPackage, NextJob, SkipWrite, ChannelDrained, FlushTick, QueueBad
    <3>2. CASE StatFails \/ StopBackends
      BY <3>2, <2>1 DEF StatFails, StopBackends, Leave, TaskOver
    <3> QED
      BY <1>1, <2>3, <3>1, <3>2, TakeBackStep, WriteRealStep, WriteRescueStep
           DEF InGroup, GroupTask
  <2>4. CASE InGroup(WriteError)
    <3>1. PICK s \in Sinks : WriteDropped(s) \/ WriteTolerated(s) \/ Swap(s) \/ WriteThrown(s)
      BY Zenon, <2>4 DEF InGroup, WriteError
    <3>2. CASE WriteDropped(s) \/ WriteTolerated(s)
      BY Zenon, <3>2, <2>2 DEF WriteDropped, WriteTolerated
    <3>3. CASE WriteThrown(s)
      BY <3>3, <2>1 DEF WriteThrown, Leave, TaskOver
    <3> QED
      BY <1>1, <2>4, <3>1, <3>2, <3>3, SwapStep DEF InGroup
  <2>5. CASE InRecovery(R!Replay)
    BY <1>1, <2>5, ReplayStep DEF InRecovery
  <2>6. CASE Crash
    BY Zenon, <2>6, <2>1 DEF Crash, FreshMemory, TaskOver
  <2>7. CASE \/ InGroup(Maintainer) \/ InGroup(\E s \in Sinks : CooldownEnds(s))
             \/ InGroup(Feed) \/ InGroup(MonitorDies) \/ InGroup(MayStopMaintainer /\ MaintEnds)
             \/ InGroup(MayStopTask /\ StopTask) \/ Interrupt \/ StartRescue
    BY ZenonT(40), <2>7, <2>2 DEF InGroup, Maintainer, MaintTake, ReconnectOk, ReconnectErr, MaintSendFix,
         MaintSendBad, task, CooldownEnds, Feed, MonitorDies, MaintEnds, StopTask, Interrupt,
         R!Signal, StartRescue
  <2> QED
    BY ZenonT(40), <1>1, <2>3, <2>4, <2>5, <2>6, <2>7 DEF Next
<1>2. Inv /\ [Next]_vars =>
        [\A f \in OpenFiles :
           files'[f].st = "dat" => made'[files[f].sink] = 0 \/ TaskOver']_vars
  BY Zenon, <1>1 DEF ByDelivery
<1> QED
  BY <1>2, Invariance, PTL DEF Spec, FinalizedByDelivery

-----------------------------------------------------------------------------
(* What the task holds *)

Jobs == [sink : Sinks, recs : Seq(Records)]

Fate == [rec : Records, by : Fates]
Batches == [sink : Sinks, recs : Seq(Records) \ {<<>>}]

work == <<phase, fed, inbox, drain, jobs, cur, pending, accepted, settled>>

\* The task holds records; zero is no sink, so the batch of a sink is never
\* that of none.
WorkType ==
  /\ phase \in {"engine", "rescue", "down"} /\ fed \in 0..NRec
  /\ inbox \in Seq(Seq(Records)) /\ Len(inbox) <= InboxCap
  /\ drain \in {"no", "draining", "final"}
  /\ jobs \in Seq(Jobs)
  /\ cur \in Batches \union {NoBatch}
  /\ pending \in [Sinks -> Seq(Records)]
  /\ accepted \in [Sinks -> Seq(Records)] /\ settled \in [Sinks -> Seq(Fate)]

\* A step that leaves all of it alone keeps its type.
LEMMA WorkKept == ASSUME WorkType, UNCHANGED work PROVE WorkType'
  BY Zenon DEF WorkType, work

\* A batch is not the empty one.
LEMMA BatchIsNotNone == \A b \in Batches : b # NoBatch /\ b.sink \in Sinks /\ b.recs \in Seq(Records)
  BY SinkIsPositive DEF Batches, NoBatch

-----------------------------------------------------------------------------
(* The rescue directory and its replay *)

Files == Seq(FileOf(Seq(Records)))

\* The files hold records, none of them loses its number, and the sinks have
\* files of the directory; every line the replay has passed was sent.
FileType ==
  /\ files \in Files
  /\ \A s \in Sinks : {primary[s], retired[s]} \subseteq {0} \union DOMAIN files
  /\ ckpt \in {"ok", "torn"} /\ sent \subseteq Records
  /\ rpc \in {"load", "scan", "wait"} => rfile = 0
  /\ rpc \in Reading => rpos \in Nat /\ \A i \in 1 .. rpos : files[rfile].recs[i] \in sent

\* One file after a step and before: a finished file is not touched, and none
\* disappears.
Keeps(new, old) == (old.st = "dat" => new = old) /\ (new.st = "gone" => old.st = "gone")

\* What every step but the end of a replay does to the directory.
FilesGrow ==
  /\ files' \in Files /\ DOMAIN files \subseteq DOMAIN files'
  /\ \A f \in DOMAIN files : Keeps(files'[f], files[f])

\* Files are only removed when they were finished and all was sent.
Removal ==
  \A f \in DOMAIN files :
    (files[f].st # "gone" /\ files'[f].st = "gone")
      => files[f].st = "dat" /\ Queued(files[f].recs) \subseteq sent

\* So no other step removes a file.
LEMMA GrowRemovesNone == FilesGrow => Removal
  BY Zenon DEF FilesGrow, Keeps, Removal

\* A step that leaves the directory alone.
LEMMA SameFilesGrow == ASSUME FileType, files' = files PROVE FilesGrow
  BY Zenon DEF FileType, FilesGrow, Keeps, Files

\* The lines passed by the replay stay where they are while the directory grows.
LEMMA FileTypeGrows ==
  ASSUME FileType, Inv, FilesGrow, UNCHANGED <<rpc, ckpt, rfile, rpos, sent>>,
         \A s \in Sinks : {primary'[s], retired'[s]} \subseteq {0} \union DOMAIN files'
  PROVE  FileType'
<1>1. rpc \in Reading => files'[rfile] = files[rfile]
  BY Zenon DEF Inv, OpenInv, R!Finished, FilesGrow, Keeps
<1>2. rpc' \in Reading => rpos' \in Nat /\ \A i \in 1 .. rpos' : files'[rfile'].recs[i] \in sent'
  BY Zenon, <1>1 DEF FileType
<1> QED
  BY Zenon, <1>2 DEF FileType, FilesGrow, Files

\* Whatever leaves the handles alone, too.
LEMMA SameFilesType ==
  ASSUME FileType, Inv, UNCHANGED <<files, primary, retired, rpc, ckpt, rfile, rpos, sent>>
  PROVE  FileType' /\ FilesGrow
<1>1. FilesGrow
  BY Zenon, SameFilesGrow
<1>2. \A s \in Sinks : {primary'[s], retired'[s]} \subseteq {0} \union DOMAIN files'
  BY Zenon DEF FileType
<1> QED
  BY Zenon, <1>1, <1>2, FileTypeGrows

\* Finalizing keeps finished files as they are.
LEMMA FinalizeGrows ==
  ASSUME NEW fs \in Files, NEW W
  PROVE  /\ Finalize(fs, W) \in Files /\ DOMAIN Finalize(fs, W) = DOMAIN fs
         /\ \A f \in DOMAIN fs : Keeps(Finalize(fs, W)[f], fs[f])
<1>1. Finalize(fs, W) \in Files /\ DOMAIN Finalize(fs, W) = DOMAIN fs
  BY FinalizeKeeps DEF Files
<1>2. ASSUME NEW f \in DOMAIN fs PROVE Keeps(Finalize(fs, W)[f], fs[f])
  <2>1. fs[f] \in FileOf(Seq(Records))
    BY DEF Files
  <2>2. Finalize(fs, W)[f] = IF f \in W THEN [fs[f] EXCEPT !.st = "dat"] ELSE fs[f]
    BY Zenon DEF Finalize
  <2> DEFINE o == fs[f]
  <2> HIDE DEF o
  <2>3. Keeps([o EXCEPT !.st = "dat"], o) /\ Keeps(o, o)
    BY <2>1 DEF Keeps, FileOf, o
  <2> QED
    BY Zenon, <2>2, <2>3 DEF o
<1> QED
  BY Zenon, <1>1, <1>2

\* So does a step that finalizes files.
LEMMA FinalizeStep ==
  ASSUME FileType, NEW W, files' = Finalize(files, W)
  PROVE  FilesGrow /\ DOMAIN files' = DOMAIN files
  BY Zenon, FinalizeGrows DEF FileType, FilesGrow

\* The real sink delivers.
LEMMA WriteRealFiles ==
  ASSUME FileType, Inv, NEW s \in Sinks, WriteReal(s), UNCHANGED recovery
  PROVE  FileType' /\ FilesGrow
<1>1. FilesGrow /\ DOMAIN files' = DOMAIN files
  BY Zenon, FinalizeStep DEF WriteReal
<1>2. UNCHANGED <<primary, rpc, ckpt, rfile, rpos, sent>> /\ retired' = [retired EXCEPT ![s] = 0]
  BY Zenon DEF WriteReal, recovery, NoFile
<1>3. \A t \in Sinks : retired'[t] \in {0, retired[t]}
  BY Zenon, <1>2 DEF Inv, HandleType
<1>4. \A t \in Sinks : {primary'[t], retired'[t]} \subseteq {0} \union DOMAIN files'
  BY Zenon, <1>1, <1>2, <1>3 DEF FileType
<1> QED
  BY Zenon, <1>1, <1>2, <1>4, FileTypeGrows

\* The task ends.
LEMMA LeaveFiles ==
  ASSUME FileType, Inv, NEW how, Leave(how), UNCHANGED recovery
  PROVE  FileType' /\ FilesGrow
<1>1. FilesGrow /\ DOMAIN files' = DOMAIN files
  BY Zenon, FinalizeStep DEF Leave
<1>2. UNCHANGED <<primary, retired, rpc, ckpt, rfile, rpos, sent>>
  BY Zenon DEF Leave, recovery
<1>3. \A t \in Sinks : {primary'[t], retired'[t]} \subseteq {0} \union DOMAIN files'
  BY Zenon, <1>1, <1>2 DEF FileType
<1> QED
  BY Zenon, <1>1, <1>2, <1>3, FileTypeGrows

\* A sink is taken back.
LEMMA TakeBackFiles ==
  ASSUME FileType, Inv, TakeBack, UNCHANGED recovery
  PROVE  FileType' /\ FilesGrow
<1> DEFINE s == Head(fixQ)
<1>1. UNCHANGED <<rpc, ckpt, rfile, rpos, sent>>
  BY Zenon DEF recovery
<1>2. CASE UNCHANGED <<primary, retired, files>>
  BY Zenon, <1>1, <1>2, SameFilesType
<1>3. CASE /\ primary' = [primary EXCEPT ![s] = Real] /\ retired' = [retired EXCEPT ![s] = primary[s]]
           /\ files' = Finalize(files, {retired[s]})
  <2>1. FilesGrow /\ DOMAIN files' = DOMAIN files
    BY Zenon, <1>3, FinalizeStep
  <2>2. \A t \in Sinks : primary'[t] \in {0, primary[t]} /\ retired'[t] \in {primary[t], retired[t]}
    BY Zenon, <1>3 DEF Inv, HandleType, Real
  <2>3. \A t \in Sinks : {primary'[t], retired'[t]} \subseteq {0} \union DOMAIN files'
    BY Zenon, <2>1, <2>2 DEF FileType
  <2> QED
    BY Zenon, <1>1, <2>1, <2>3, FileTypeGrows
<1> QED
  BY Zenon, <1>2, <1>3 DEF TakeBack

\* A batch goes to the rescue file, which is open.
LEMMA WriteRescueFiles ==
  ASSUME FileType, WorkType, Inv, NEW s \in Sinks, WriteRescue(s), UNCHANGED recovery
  PROVE  FileType' /\ FilesGrow
<1> DEFINE p == primary[s]
           fs == [files EXCEPT ![p].recs = @ \o cur.recs]
<1>1. ~TaskOver /\ p # 0 /\ cur # NoBatch
  BY Zenon DEF WriteRescue, Trying, TaskOver, Real
<1>2. p \in DOMAIN files /\ files[p].st = "lock"
  BY Zenon, <1>1 DEF Inv, OpenInv, OpenFiles
<1>3. files \in Files /\ cur.recs \in Seq(Records)
  BY Zenon, <1>1, BatchIsNotNone DEF FileType, WorkType
<1>4. /\ Len(files) \in Nat /\ DOMAIN files = 1 .. Len(files)
      /\ \A f \in 1 .. Len(files) : files[f] \in FileOf(Seq(Records))
  BY <1>3 DEF Files
<1> HIDE DEF p
<1>5. /\ \A f \in DOMAIN files \ {p} : fs[f] = files[f]
      /\ fs[p] = [files[p] EXCEPT !.recs = files[p].recs \o cur.recs]
      /\ fs = [f \in DOMAIN files |-> fs[f]]
  BY Zenon, <1>2, <1>4
<1> HIDE DEF fs
<1>6. fs[p] \in FileOf(Seq(Records)) /\ fs[p].st = "lock"
  <2> DEFINE o == files[p]
  <2>1. o \in FileOf(Seq(Records)) /\ o.st = "lock" /\ fs[p] = [o EXCEPT !.recs = o.recs \o cur.recs]
    BY Zenon, <1>2, <1>4, <1>5
  <2> HIDE DEF o
  <2>2. o.recs \in Seq(Records)
    BY <2>1 DEF FileOf
  <2>3. o.recs \o cur.recs \in Seq(Records)
    BY <1>3, <2>2
  <2> QED
    BY <2>1, <2>3 DEF FileOf
<1>7. \A f \in 1 .. Len(files) : fs[f] \in FileOf(Seq(Records)) /\ Keeps(fs[f], files[f])
  BY Zenon, <1>2, <1>4, <1>5, <1>6 DEF Keeps
<1>8. fs \in Files /\ DOMAIN fs = DOMAIN files
  <2>1. fs = [f \in 1 .. Len(files) |-> fs[f]]
    BY Zenon, <1>4, <1>5
  <2> QED
    BY <1>4, <1>7, <2>1 DEF Files
<1>9. files' = Finalize(fs, {retired[s]})
  BY Zenon DEF WriteRescue, fs, p
<1>10. FilesGrow /\ DOMAIN files' = DOMAIN files
  <2>1. /\ files' \in Files /\ DOMAIN files' = DOMAIN fs
        /\ \A f \in DOMAIN fs : Keeps(files'[f], fs[f])
    BY Zenon, <1>8, <1>9, FinalizeGrows
  <2>2. \A f \in DOMAIN files : Keeps(files'[f], files[f])
    BY Zenon, <1>4, <1>7, <1>8, <2>1 DEF Keeps
  <2> QED
    BY Zenon, <1>8, <2>1, <2>2 DEF FilesGrow
<1>11. UNCHANGED <<primary, rpc, ckpt, rfile, rpos, sent>> /\ retired' = [retired EXCEPT ![s] = 0]
  BY Zenon DEF WriteRescue, recovery, NoFile
<1>12. \A t \in Sinks : retired'[t] \in {0, retired[t]}
  BY Zenon, <1>11 DEF Inv, HandleType
<1>13. \A t \in Sinks : {primary'[t], retired'[t]} \subseteq {0} \union DOMAIN files'
  BY Zenon, <1>10, <1>11, <1>12 DEF FileType
<1> QED
  BY Zenon, <1>10, <1>11, <1>13, FileTypeGrows

\* A sink fails: it writes to its retired file again, or to a new one.
LEMMA SwapFiles ==
  ASSUME FileType, Inv, NEW s \in Sinks, Swap(s), UNCHANGED recovery
  PROVE  FileType' /\ FilesGrow
<1>1. UNCHANGED <<rpc, ckpt, rfile, rpos, sent>> /\ retired' = [retired EXCEPT ![s] = 0]
  BY Zenon DEF Swap, recovery, NoFile
<1>2. \A t \in Sinks : retired'[t] \in {0, retired[t]}
  BY Zenon, <1>1 DEF Inv, HandleType
<1>3. CASE primary' = [primary EXCEPT ![s] = retired[s]] /\ files' = files
  <2>1. FilesGrow
    BY Zenon, <1>3, SameFilesGrow
  <2>2. \A t \in Sinks : primary'[t] \in {primary[t], retired[t]}
    BY Zenon, <1>3 DEF Inv, HandleType
  <2>3. \A t \in Sinks : {primary'[t], retired'[t]} \subseteq {0} \union DOMAIN files'
    BY Zenon, <1>2, <1>3, <2>2 DEF FileType
  <2> QED
    BY Zenon, <1>1, <2>1, <2>3, FileTypeGrows
<1>4. CASE /\ files' = Append(files, [sink |-> s, recs |-> <<>>, st |-> "lock"])
           /\ primary' = [primary EXCEPT ![s] = Len(files) + 1]
  <2> DEFINE new == [sink |-> s, recs |-> <<>>, st |-> "lock"]
  <2>1. files \in Files /\ new \in FileOf(Seq(Records))
    BY DEF FileType, FileOf, FileStates
  <2> HIDE DEF new
  <2>2. /\ files' \in Files /\ DOMAIN files = 1 .. Len(files) /\ Len(files) \in Nat
        /\ DOMAIN files' = 1 .. (Len(files) + 1)
        /\ \A f \in 1 .. Len(files) : files'[f] = files[f]
    BY <1>4, <2>1 DEF Files, new
  <2>3. DOMAIN files \subseteq DOMAIN files' /\ Len(files) + 1 \in DOMAIN files'
    BY <2>2
  <2>4. FilesGrow
    BY Zenon, <2>2, <2>3 DEF FilesGrow, Keeps
  <2>5. \A t \in Sinks : primary'[t] \in {primary[t], Len(files) + 1}
    BY Zenon, <1>4 DEF Inv, HandleType
  <2>6. \A t \in Sinks : {primary'[t], retired'[t]} \subseteq {0} \union DOMAIN files'
    BY Zenon, <1>2, <2>3, <2>5 DEF FileType
  <2> QED
    BY Zenon, <1>1, <2>4, <2>6, FileTypeGrows
<1> QED
  BY Zenon, <1>3, <1>4 DEF Swap

\* The process dies: only open files are touched.
LEMMA CrashFiles == ASSUME FileType, Crash PROVE FileType' /\ FilesGrow
<1> DEFINE lost(o) == [o EXCEPT !.recs = <<>>, !.st = "orphan"]
<1>1. /\ files \in Files /\ Len(files) \in Nat /\ DOMAIN files = 1 .. Len(files)
      /\ \A f \in 1 .. Len(files) : files[f] \in FileOf(Seq(Records))
  BY DEF FileType, Files
<1>2. files' = [f \in DOMAIN files |-> IF f \in OpenFiles THEN lost(files[f]) ELSE files[f]]
  BY Zenon DEF Crash
<1>3. ASSUME NEW o \in FileOf(Seq(Records))
      PROVE  lost(o) \in FileOf(Seq(Records)) /\ lost(o).st = "orphan"
  <2> DEFINE Rs == Seq(Records)
  <2>1. o \in FileOf(Rs) /\ <<>> \in Rs
    BY <1>3
  <2> HIDE DEF Rs
  <2>2. lost(o) \in FileOf(Rs) /\ lost(o).st = "orphan"
    BY ZenonT(40), <2>1 DEF FileOf, FileStates
  <2> QED
    BY Zenon, <2>2 DEF Rs
<1> HIDE DEF lost
<1>4. \A f \in 1 .. Len(files) : files'[f] = IF f \in OpenFiles THEN lost(files[f]) ELSE files[f]
  BY Zenon, <1>1, <1>2
<1>5. \A f \in OpenFiles : files[f].st = "lock"
  BY DEF OpenFiles
<1>6. \A f \in 1 .. Len(files) : files'[f] \in FileOf(Seq(Records)) /\ Keeps(files'[f], files[f])
  BY Zenon, <1>1, <1>3, <1>4, <1>5 DEF Keeps
<1>7. files' = [f \in 1 .. Len(files) |-> files'[f]]
  BY Zenon, <1>1, <1>2
<1>8. files' \in Files /\ DOMAIN files' = DOMAIN files
  BY <1>1, <1>6, <1>7 DEF Files
<1>9. FilesGrow
  BY Zenon, <1>1, <1>6, <1>8 DEF FilesGrow
<1>10. /\ rpc' = "off" /\ sent' = {} /\ ckpt' = ckpt
       /\ primary' = [t \in Sinks |-> 0] /\ retired' = [t \in Sinks |-> 0]
  BY Zenon DEF Crash, FreshMemory, FreshRecovery, Real, NoFile
<1>11. \A t \in Sinks : {primary'[t], retired'[t]} \subseteq {0} \union DOMAIN files'
  BY Zenon, <1>10
<1>12. rpc' \notin Reading /\ rpc' \notin {"load", "scan", "wait"}
  BY <1>10 DEF Reading
<1>13. FileType'
  BY Zenon, <1>8, <1>10, <1>11, <1>12 DEF FileType, Files
<1> QED
  BY Zenon, <1>9, <1>13

\* wprescue starts.
LEMMA StartRescueFiles == ASSUME FileType, StartRescue PROVE FileType' /\ FilesGrow
<1>1. /\ files' = files /\ rpc' = "load" /\ rfile' = 0 /\ sent' = {} /\ ckpt' = ckpt
      /\ primary' = [t \in Sinks |-> 0] /\ retired' = [t \in Sinks |-> 0]
  BY Zenon DEF StartRescue, FreshMemory, FreshRecovery, Real, NoFile
<1>2. FilesGrow
  BY Zenon, <1>1, SameFilesGrow
<1>3. \A t \in Sinks : {primary'[t], retired'[t]} \subseteq {0} \union DOMAIN files'
  BY Zenon, <1>1
<1>4. rpc' \notin Reading
  BY <1>1 DEF Reading
<1>5. FileType'
  BY Zenon, <1>1, <1>3, <1>4 DEF FileType, Files
<1> QED
  BY Zenon, <1>2, <1>5

\* A step of the replay that sends nothing: a file is opened at its start, or
\* the place in the file stays.
LEMMA PlaceKept ==
  ASSUME FileType, UNCHANGED <<files, primary, retired, sent>>, ckpt' \in {ckpt, "ok", "torn"},
         rpc' \in {"load", "scan", "wait"} => rfile' = 0,
         rpc' \in Reading => rpos' = 0 \/ (rpc \in Reading /\ rfile' = rfile /\ rpos' = rpos)
  PROVE  FileType'
<1>1. rpc' \in Reading => rpos' \in Nat /\ \A i \in 1 .. rpos' : files'[rfile'].recs[i] \in sent'
  <2>1. CASE rpos' = 0
    <3>1. 0 \in Nat /\ 1 .. 0 = {}
      OBVIOUS
    <3> QED
      BY Zenon, <2>1, <3>1
  <2>2. CASE rpc \in Reading /\ rfile' = rfile /\ rpos' = rpos
    BY Zenon, <2>2 DEF FileType
  <2> QED
    BY Zenon, <2>1, <2>2
<1>2. \A s \in Sinks : {primary'[s], retired'[s]} \subseteq {0} \union DOMAIN files'
  BY Zenon DEF FileType
<1> QED
  BY Zenon, <1>1, <1>2 DEF FileType, Files

\* The lines of the file being read are records.
LEMMA LinesTyped ==
  ASSUME FileType, Inv, rpc \in Reading
  PROVE  /\ rfile \in DOMAIN files /\ files[rfile].st = "dat"
         /\ files[rfile] \in FileOf(Seq(Records)) /\ files[rfile].recs \in Seq(Records)
<1>1. rfile \in DOMAIN files /\ files[rfile].st = "dat"
  BY Zenon DEF Inv, OpenInv, R!Finished
<1>2. files[rfile] \in FileOf(Seq(Records))
  BY <1>1 DEF FileType, Files
<1>3. files[rfile].recs \in Seq(Records)
  BY Zenon, <1>2 DEF FileOf
<1> QED
  BY Zenon, <1>1, <1>2, <1>3

\* A line is sent to the dispatcher.
LEMMA SendLineFiles ==
  ASSUME FileType, WorkType, Inv, R!SendLine, UNCHANGED groupRest
  PROVE  FileType' /\ WorkType' /\ FilesGrow
<1> DEFINE recs == files[rfile].recs
           line == recs[rpos + 1]
<1>1. rpc \in Reading /\ rpc = "line"
  BY DEF R!SendLine, Reading
<1>2. recs \in Seq(Records) /\ rpos \in Nat /\ \A i \in 1 .. rpos : recs[i] \in sent
  BY Zenon, <1>1, LinesTyped DEF FileType
<1>3. /\ rpos < Len(recs) /\ Len(inbox) < InboxCap
      /\ inbox' = Append(inbox, <<line>>) /\ sent' = sent \union {line} /\ rpos' = rpos + 1
      /\ rpc' \in {"unit", "line"}
      /\ UNCHANGED <<files, ckpt, rfile>>
  BY Zenon DEF R!SendLine, R!Line
<1>4. UNCHANGED <<phase, fed, drain, jobs, cur, pending, accepted, settled, primary, retired>>
  BY Zenon DEF groupRest, history, handles
<1> HIDE DEF recs
<1>5. line \in Records /\ rpos' \in Nat /\ \A i \in 1 .. rpos' : i \in 1 .. rpos \/ i = rpos + 1
  BY <1>2, <1>3
<1> HIDE DEF line
<1>6. inbox' \in Seq(Seq(Records)) /\ Len(inbox') <= InboxCap
  <2>1. <<line>> \in Seq(Records)
    BY <1>5
  <2> DEFINE pkg == <<line>>
  <2> HIDE DEF pkg
  <2>2. inbox \in Seq(Seq(Records)) /\ pkg \in Seq(Records)
    BY Zenon, <2>1 DEF WorkType, pkg
  <2>3. Len(Append(inbox, pkg)) = Len(inbox) + 1 /\ Append(inbox, pkg) \in Seq(Seq(Records))
    BY <2>2
  <2>4. Len(inbox) \in Nat
    BY <2>2
  <2> QED
    BY <1>3, <2>3, <2>4, GroupAssumption DEF pkg
<1>7. WorkType'
  BY Zenon, <1>4, <1>6 DEF WorkType
<1>8. \A i \in 1 .. rpos' : recs[i] \in sent'
  BY Zenon, <1>2, <1>3, <1>5 DEF line
<1>9. FilesGrow
  BY Zenon, <1>3, SameFilesGrow
<1>10. \A s \in Sinks : {primary'[s], retired'[s]} \subseteq {0} \union DOMAIN files'
  BY Zenon, <1>3, <1>4 DEF FileType
<1>11. rpc' \notin {"load", "scan", "wait"}
  BY <1>3
<1>12. sent' \subseteq Records
  BY Zenon, <1>3, <1>5 DEF FileType
<1>13. FileType'
  BY Zenon, <1>3, <1>5, <1>8, <1>10, <1>11, <1>12 DEF FileType, Files, recs
<1> QED
  BY Zenon, <1>7, <1>9, <1>13

\* A file read to its end is removed: every line of it was sent.
LEMMA EndOfFileFiles ==
  ASSUME FileType, Inv, R!EndOfFile, UNCHANGED groupRest
  PROVE  FileType' /\ Removal
<1> DEFINE o == files[rfile]
           gone == [o EXCEPT !.recs = <<>>, !.st = "gone"]
<1>1. rpc \in Reading /\ rpos = Len(o.recs) /\ rpc' = "wait" /\ rfile' = 0
  BY DEF R!EndOfFile, R!Returned, Reading
<1>2. /\ files' = [files EXCEPT ![rfile] = gone] /\ UNCHANGED <<ckpt, sent, primary, retired>>
  BY Zenon DEF R!EndOfFile, groupRest, handles
<1>3. /\ rfile \in DOMAIN files /\ o.st = "dat"
      /\ o \in FileOf(Seq(Records)) /\ o.recs \in Seq(Records)
  BY Zenon, <1>1, LinesTyped
<1>4. Queued(o.recs) \subseteq sent
  <2>1. \A i \in 1 .. rpos : o.recs[i] \in sent
    BY Zenon, <1>1 DEF FileType
  <2> DEFINE recs == o.recs
  <2> HIDE DEF recs
  <2>2. DOMAIN recs = 1 .. Len(recs)
    BY <1>3 DEF recs
  <2> QED
    BY Zenon, <1>1, <2>1, <2>2 DEF Queued, recs
<1>5. gone \in FileOf(Seq(Records))
  <2> DEFINE Rs == Seq(Records)
  <2>1. o \in FileOf(Rs) /\ <<>> \in Rs
    BY <1>3
  <2> HIDE DEF Rs, o
  <2>2. gone \in FileOf(Rs)
    BY ZenonT(40), <2>1 DEF FileOf, FileStates
  <2> QED
    BY Zenon, <2>2 DEF Rs
<1> HIDE DEF gone, o
<1>6. files' \in Files /\ DOMAIN files' = DOMAIN files /\ \A f \in DOMAIN files \ {rfile} : files'[f] = files[f]
  BY <1>2, <1>3, <1>5 DEF FileType, Files
<1>7. Removal
  BY Zenon, <1>3, <1>4, <1>6 DEF Removal, o
<1>8. \A s \in Sinks : {primary'[s], retired'[s]} \subseteq {0} \union DOMAIN files'
  BY Zenon, <1>2, <1>6 DEF FileType
<1>9. rpc' \notin Reading
  BY <1>1 DEF Reading
<1>10. FileType'
  BY Zenon, <1>1, <1>2, <1>6, <1>8, <1>9 DEF FileType, Files
<1> QED
  BY Zenon, <1>7, <1>10

\* Every step of the replay.
LEMMA ReplayFiles ==
  ASSUME FileType, WorkType, Inv, R!Replay, UNCHANGED groupRest
  PROVE  FileType' /\ WorkType' /\ Removal
<1>1. CASE R!SendLine
  BY Zenon, <1>1, SendLineFiles, GrowRemovesNone
<1>2. CASE R!EndOfFile
  <2>1. UNCHANGED work
    BY Zenon, <1>2 DEF R!EndOfFile, groupRest, history, work
  <2> QED
    BY Zenon, <1>2, <2>1, WorkKept, EndOfFileFiles
<1>3. CASE \/ R!LoadPoint \/ R!Open \/ R!NoAgent \/ R!NoRescueFile \/ R!IdleExit
           \/ R!SendFails \/ R!UnitEnd \/ R!SavePoint \/ R!UnitPause \/ R!Pause
  <2>1. UNCHANGED <<files, inbox, sent>> /\ ckpt' \in {ckpt, "ok", "torn"}
    BY Zenon, <1>3 DEF R!LoadPoint, R!Open, R!NoAgent, R!NoRescueFile, R!IdleExit, R!SendFails,
         R!UnitEnd, R!SavePoint, R!UnitPause, R!Pause
  <2>2. UNCHANGED work /\ UNCHANGED <<primary, retired>>
    BY Zenon, <2>1 DEF groupRest, history, handles, work
  <2>3. rpc' \in {"load", "scan", "wait"} => rfile' = 0
    <3>1. CASE \/ R!LoadPoint \/ R!Open \/ R!NoAgent \/ R!NoRescueFile \/ R!IdleExit \/ R!Pause
      BY <3>1 DEF R!LoadPoint, R!Open, R!NoAgent, R!NoRescueFile, R!IdleExit, R!Pause, FileType
    <3>2. CASE R!SendFails \/ R!UnitEnd \/ R!SavePoint \/ R!UnitPause
      BY <3>2 DEF R!SendFails, R!UnitEnd, R!SavePoint, R!UnitPause, R!Returned
    <3> QED
      BY Zenon, <1>3, <3>1, <3>2
  <2>4. rpc' \in Reading => rpos' = 0 \/ (rpc \in Reading /\ rfile' = rfile /\ rpos' = rpos)
    <3>1. CASE \/ R!LoadPoint \/ R!Open \/ R!NoAgent \/ R!NoRescueFile \/ R!IdleExit \/ R!Pause
      BY <3>1 DEF R!LoadPoint, R!Open, R!NoAgent, R!NoRescueFile, R!IdleExit, R!Pause, Reading
    <3>2. CASE R!SendFails \/ R!UnitEnd \/ R!SavePoint \/ R!UnitPause
      BY <3>2 DEF R!SendFails, R!UnitEnd, R!SavePoint, R!UnitPause, R!Returned, Reading
    <3> QED
      BY Zenon, <1>3, <3>1, <3>2
  <2> QED
    BY Zenon, <2>1, <2>2, <2>3, <2>4, WorkKept, PlaceKept, SameFilesGrow, GrowRemovesNone
<1> QED
  BY Zenon, <1>1, <1>2, <1>3 DEF R!Replay

-----------------------------------------------------------------------------
(* Picking elements of a sequence *)

LOCAL INSTANCE WellFoundedInduction

\* Every non-empty set of natural numbers has a least element.
LEMMA LeastNatural ==
  ASSUME NEW T, T \subseteq Nat, T # {}
  PROVE  \E n \in T : \A m \in T : n <= m
<1> DEFINE less == OpToRel(<, Nat)
<1>1. IsWellFoundedOn(less, Nat)
  BY NatLessThanWellFounded
<1>2. \A m, n \in Nat : m < n => <<m, n>> \in less
  BY DEF OpToRel
<1> HIDE DEF less
<1>3. PICK n \in T : \A m \in T : ~ (<<m, n>> \in less)
  BY <1>1, WFMin
<1>4. \A m \in T : ~(m < n)
  BY <1>2, <1>3
<1> QED
  BY <1>4

\* The recursion of Picked, up to the n-th element.
Picking(seq, at, n, f) ==
  f = [i \in 0 .. n |->
         IF i = 0 THEN <<>> ELSE IF i \in at THEN Append(f[i - 1], seq[i]) ELSE f[i - 1]]

\* The recursion has a solution.
LEMMA PickingExists ==
  ASSUME NEW seq, NEW at, NEW n \in Nat
  PROVE  \E f : Picking(seq, at, n, f)
<1> DEFINE Bad == {m \in Nat : ~ \E f : Picking(seq, at, m, f)}
<1> SUFFICES ASSUME Bad # {} PROVE FALSE
  OBVIOUS
<1>1. PICK m \in Bad : \A k \in Bad : m <= k
  BY LeastNatural, Bad \subseteq Nat
<1>2. m # 0
  <2> DEFINE f == [i \in 0 .. 0 |-> <<>>]
  <2>1. Picking(seq, at, 0, f)
    BY DEF Picking
  <2> QED
    BY <2>1
<1>3. m - 1 \in Nat /\ m - 1 \notin Bad
  BY <1>1, <1>2
<1>4. PICK f : Picking(seq, at, m - 1, f)
  BY <1>3
<1> DEFINE g == [i \in 0 .. m |->
                   IF i < m THEN f[i]
                   ELSE IF m \in at THEN Append(f[m - 1], seq[m]) ELSE f[m - 1]]
<1>5. Picking(seq, at, m, g)
  <2>1. \A i \in 0 .. (m - 1) : f[i] =
          IF i = 0 THEN <<>> ELSE IF i \in at THEN Append(f[i - 1], seq[i]) ELSE f[i - 1]
    BY <1>4 DEF Picking
  <2>2. \A i \in 0 .. m : g[i] =
          IF i = 0 THEN <<>> ELSE IF i \in at THEN Append(g[i - 1], seq[i]) ELSE g[i - 1]
    BY <1>2, <1>3, <2>1
  <2>3. g = [i \in 0 .. m |-> g[i]]
    OBVIOUS
  <2> HIDE DEF g
  <2> QED
    BY <2>2, <2>3 DEF Picking
<1> QED
  BY <1>5

\* Picked is what the recursion yields at the end of the sequence.
LEMMA PickedIsPicking ==
  ASSUME NEW seq, NEW at, Len(seq) \in Nat
  PROVE  \E f : Picking(seq, at, Len(seq), f) /\ Picked(seq, at) = f[Len(seq)]
<1> DEFINE k == CHOOSE upto : upto =
                  [i \in 0 .. Len(seq) |->
                     IF i = 0 THEN <<>>
                     ELSE IF i \in at THEN Append(upto[i - 1], seq[i]) ELSE upto[i - 1]]
<1>1. Picked(seq, at) = k[Len(seq)]
  BY DEF Picked
<1>2. Picking(seq, at, Len(seq), k)
  <2>1. k = CHOOSE f : Picking(seq, at, Len(seq), f)
    BY DEF Picking
  <2>2. \E f : Picking(seq, at, Len(seq), f)
    BY PickingExists
  <2> HIDE DEF k
  <2> QED
    BY <2>1, <2>2
<1> QED
  BY <1>1, <1>2

\* Picked holds the elements at the positions asked for, and no others.
LEMMA PickedHolds ==
  ASSUME NEW S, NEW seq \in Seq(S), NEW at
  PROVE  /\ Picked(seq, at) \in Seq(S)
         /\ Queued(Picked(seq, at)) = {seq[k] : k \in at \intersect DOMAIN seq}
<1> DEFINE n == Len(seq)
           Holds(p, m) == p \in Seq(S) /\ Queued(p) = {seq[k] : k \in at \intersect (1 .. m)}
<1>1. n \in Nat /\ DOMAIN seq = 1 .. n /\ \A k \in 1 .. n : seq[k] \in S
  OBVIOUS
<1>2. PICK f : Picking(seq, at, n, f) /\ Picked(seq, at) = f[n]
  BY <1>1, PickedIsPicking
<1>3. \A i \in 0 .. n : f[i] =
        IF i = 0 THEN <<>> ELSE IF i \in at THEN Append(f[i - 1], seq[i]) ELSE f[i - 1]
  BY <1>2 DEF Picking
<1> DEFINE Bad == {m \in 0 .. n : ~ Holds(f[m], m)}
<1>4. Bad = {}
  <2> SUFFICES ASSUME Bad # {} PROVE FALSE
    OBVIOUS
  <2>1. PICK m \in Bad : \A k \in Bad : m <= k
    BY <1>1, LeastNatural, Bad \subseteq Nat
  <2>2. m # 0
    <3>1. f[0] = <<>>
      BY <1>1, <1>3
    <3>2. Holds(<<>>, 0)
      BY DEF Queued
    <3>3. Holds(f[0], 0)
      BY Zenon, <3>1, <3>2
    <3>4. 0 \notin Bad
      BY Zenon, <3>3
    <3> QED
      BY Zenon, <2>1, <3>4
  <2>3. m \in 1 .. n /\ m - 1 \in 0 .. n /\ m - 1 \notin Bad
    <3>1. m \in 0 .. n
      OBVIOUS
    <3>2. m \in 1 .. n /\ m - 1 \in 0 .. n /\ ~(m <= m - 1)
      BY <1>1, <2>2, <3>1
    <3> HIDE DEF Bad
    <3> QED
      BY Zenon, <2>1, <3>2
  <2>4. Holds(f[m - 1], m - 1)
    BY <2>3
  <2>5. f[m] = IF m \in at THEN Append(f[m - 1], seq[m]) ELSE f[m - 1]
    BY <1>3, <2>1, <2>2
  <2>6. /\ m \in at => at \intersect (1 .. m) = (at \intersect (1 .. (m - 1))) \union {m}
        /\ m \notin at => at \intersect (1 .. m) = at \intersect (1 .. (m - 1))
    BY <2>3
  <2>7. seq[m] \in S
    BY <1>1, <2>3
  <2>8. CASE m \in at
    <3> DEFINE p == f[m - 1]
               q == Append(p, seq[m])
    <3>1. p \in Seq(S) /\ Queued(p) = {seq[k] : k \in at \intersect (1 .. (m - 1))}
      BY <2>4
    <3> HIDE DEF p
    <3>2. /\ q \in Seq(S) /\ Len(p) \in Nat /\ DOMAIN p = 1 .. Len(p) /\ DOMAIN q = 1 .. (Len(p) + 1)
          /\ q[Len(p) + 1] = seq[m] /\ \A i \in 1 .. Len(p) : q[i] = p[i]
      BY <2>7, <3>1
    <3> HIDE DEF q
    <3>3. Queued(q) = Queued(p) \union {seq[m]}
      BY <3>2 DEF Queued
    <3>4. Queued(q) = {seq[k] : k \in at \intersect (1 .. m)}
      BY Zenon, <2>6, <2>8, <3>1, <3>3
    <3> QED
      BY <2>1, <2>5, <2>8, <3>2, <3>4 DEF q, p
  <2>9. CASE m \notin at
    BY Zenon, <2>1, <2>4, <2>5, <2>6, <2>9
  <2> QED
    BY <2>8, <2>9
<1>5. Holds(f[n], n)
  <2>1. n \in 0 .. n
    BY <1>1
  <2> HIDE DEF Holds, n
  <2> QED
    BY <1>4, <2>1
<1> QED
  BY <1>1, <1>2, <1>5

-----------------------------------------------------------------------------
(* What a package becomes *)

\* Two nested loops stay within their bounds.
LEMMA LoopBounds ==
  ASSUME NEW n \in Nat, NEW m \in Nat, NEW k \in 1 .. (m * n)
  PROVE  n # 0 /\ Outer(k, n) \in 1 .. m /\ Inner(k, n) \in 1 .. n
<1>1. m * n \in Nat /\ k \in Nat /\ k >= 1 /\ k <= m * n
  OBVIOUS
<1>2. n # 0
  <2> SUFFICES ASSUME n = 0 PROVE FALSE
    OBVIOUS
  <2>1. m * 0 = 0
    OBVIOUS
  <2> QED
    BY <1>1, <2>1
<1> DEFINE q == (k - 1) \div n
           r == (k - 1) % n
<1>3. q \in Nat /\ r \in 0 .. (n - 1) /\ k - 1 = n * q + r
  BY <1>1, <1>2
<1> HIDE DEF q, r
<1>4. q < m
  <2> SUFFICES ASSUME q >= m PROVE FALSE
    BY <1>3
  <2>1. n * q >= n * m
    BY <1>3
  <2>2. n * q \in Nat /\ n * m = m * n /\ n * q >= m * n
    BY <1>3, <2>1
  <2> QED
    BY <1>1, <1>3, <2>2
<1> QED
  BY <1>2, <1>3, <1>4 DEF Outer, Inner, q, r

\* Jobs without records are left out.
LEMMA NonEmptyTyped ==
  ASSUME NEW js \in Seq(Jobs)
  PROVE  NonEmpty(js) \in Seq(Jobs)
  BY Zenon, PickedHolds DEF NonEmpty

\* group_sink_package makes jobs for the sinks, with records of the package.
LEMMA GroupJobsTyped ==
  ASSUME NEW pkg \in Seq(Records), NEW rules, Len(rules) \in Nat
  PROVE  GroupJobs(pkg, rules) \in Seq(Jobs)
<1>1. NSinks \in Nat /\ Len(rules) * NSinks \in Nat
  BY GroupAssumption
<1> DEFINE n == Len(rules) * NSinks
<1>2. ASSUME NEW k \in 1 .. n PROVE GroupJobs(pkg, rules)[k] \in Jobs
  <2>1. Inner(k, NSinks) \in Sinks
    BY <1>1, LoopBounds DEF Sinks
  <2>2. \A at : Picked(pkg, at) \in Seq(Records)
    BY Zenon, PickedHolds
  <2>3. \A s \in Sinks, rs \in Seq(Records) : Job(s, rs) \in Jobs
    BY DEF Job, Jobs
  <2> QED
    BY Zenon, <2>1, <2>2, <2>3 DEF GroupJobs
<1>3. GroupJobs(pkg, rules) = [k \in 1 .. n |-> GroupJobs(pkg, rules)[k]]
  BY Zenon DEF GroupJobs
<1> HIDE DEF n
<1>4. n \in Nat
  BY <1>1 DEF n
<1> QED
  BY <1>2, <1>3, <1>4

\* Where a segment that begins at the i-th record may end, and where it does.
Ends(recs, i) == {j \in i..Len(recs) : \A k \in i..j : BatchMeta(recs[k]) = BatchMeta(recs[i])}
LastEnd(recs, i) == CHOOSE j \in Ends(recs, i) : \A e \in Ends(recs, i) : e <= j

\* A segment has an end.
LEMMA SegmentEnds ==
  ASSUME NEW recs \in Seq(Records), NEW i \in 1 .. Len(recs)
  PROVE  /\ LastEnd(recs, i) \in Ends(recs, i) /\ LastEnd(recs, i) \in i .. Len(recs)
         /\ \A e \in Ends(recs, i) : e <= LastEnd(recs, i)
<1> DEFINE ends == Ends(recs, i)
<1>1. Len(recs) \in Nat /\ i \in Nat
  OBVIOUS
<1>2. i \in ends
  <2>1. i \in i .. Len(recs) /\ \A k \in i .. i : k = i
    BY <1>1
  <2> QED
    BY Zenon, <2>1 DEF Ends
<1>3. ends \subseteq i .. Len(recs)
  BY Zenon DEF Ends
<1> HIDE DEF ends
<1> DEFINE T == {Len(recs) - e : e \in ends}
<1>4. T \subseteq Nat /\ T # {}
  BY <1>1, <1>2, <1>3
<1>5. PICK t \in T : \A u \in T : t <= u
  BY <1>4, LeastNatural
<1>6. PICK j \in ends : t = Len(recs) - j
  BY <1>5
<1>7. ASSUME NEW e \in ends PROVE e <= j
  <2>1. Len(recs) - j <= Len(recs) - e
    BY Zenon, <1>5, <1>6
  <2>2. e \in Int /\ j \in Int
    BY <1>3
  <2> QED
    BY <1>1, <2>1, <2>2
<1>8. LastEnd(recs, i) \in ends /\ \A e \in ends : e <= LastEnd(recs, i)
  BY Zenon, <1>6, <1>7 DEF LastEnd, ends
<1> QED
  BY Zenon, <1>3, <1>8 DEF ends

\* send_package_to_sink cuts at the ends of a run of one meta.
LEMMA SegmentAtIs ==
  ASSUME NEW recs \in Seq(Records), NEW i \in Nat \ {0}
  PROVE  SegmentAt(recs, i) = IF i > Len(recs) \/ (i > 1 /\ i \in Ends(recs, i - 1)) THEN <<>>
                              ELSE SubSeq(recs, i, LastEnd(recs, i))
<1> DEFINE sameMeta(a, b) == \A k \in a .. b : BatchMeta(recs[k]) = BatchMeta(recs[a])
<1>1. ~(i > Len(recs)) => i \in (i - 1) .. Len(recs)
  OBVIOUS
<1>2. ~(i > Len(recs)) => (sameMeta(i - 1, i) <=> i \in Ends(recs, i - 1))
  BY Zenon, <1>1 DEF Ends
<1>3. SegmentAt(recs, i) = IF i > Len(recs) \/ (i > 1 /\ sameMeta(i - 1, i)) THEN <<>>
                           ELSE SubSeq(recs, i, LastEnd(recs, i))
  BY Zenon DEF SegmentAt, LastEnd, Ends
<1> QED
  BY Zenon, <1>2, <1>3

\* A segment is a part of the package.
LEMMA SegmentAtTyped ==
  ASSUME NEW recs \in Seq(Records), NEW i \in Nat \ {0}
  PROVE  SegmentAt(recs, i) \in Seq(Records)
<1> DEFINE last == LastEnd(recs, i)
<1>1. <<>> \in Seq(Records) /\ Len(recs) \in Nat
  OBVIOUS
<1>2. ASSUME ~(i > Len(recs)) PROVE SubSeq(recs, i, last) \in Seq(Records)
  <2>1. i \in 1 .. Len(recs)
    BY <1>1, <1>2
  <2>2. last \in i .. Len(recs)
    BY Zenon, <2>1, SegmentEnds
  <2> HIDE DEF last
  <2> QED
    BY <1>1, <2>2
<1> HIDE DEF last
<1> QED
  BY Zenon, <1>1, <1>2, SegmentAtIs DEF last

\* group_sink_batch_direct likewise.
LEMMA InfraJobsTyped ==
  ASSUME NEW pkg \in Seq(Records)
  PROVE  InfraJobs(pkg) \in Seq(Jobs)
<1>1. NSinks \in Nat /\ Len(pkg) \in Nat /\ NSinks * Len(pkg) \in Nat
  BY GroupAssumption
<1> DEFINE n == NSinks * Len(pkg)
<1>2. ASSUME NEW k \in 1 .. n PROVE InfraJobs(pkg)[k] \in Jobs
  <2>1. Outer(k, Len(pkg)) \in 1 .. NSinks /\ Inner(k, Len(pkg)) \in 1 .. Len(pkg)
    BY <1>1, LoopBounds
  <2>2. Outer(k, Len(pkg)) \in Sinks /\ Inner(k, Len(pkg)) \in Nat \ {0}
    BY <1>1, <2>1 DEF Sinks
  <2>3. \A at : Picked(pkg, at) \in Seq(Records)
    BY Zenon, PickedHolds
  <2>4. \A s \in Sinks, rs \in Seq(Records) : Job(s, rs) \in Jobs
    BY DEF Job, Jobs
  <2> QED
    BY Zenon, <2>2, <2>3, <2>4, SegmentAtTyped DEF InfraJobs
<1>3. InfraJobs(pkg) = [k \in 1 .. n |-> InfraJobs(pkg)[k]]
  BY Zenon DEF InfraJobs
<1> HIDE DEF n
<1>4. n \in Nat
  BY <1>1 DEF n
<1> QED
  BY <1>2, <1>3, <1>4

\* The last flush is a job without records for every sink with something
\* pending.
LEMMA FlushAllIs ==
  /\ FlushAll \in Seq(Jobs)
  /\ \A i \in DOMAIN FlushAll : FlushAll[i].recs = <<>>
  /\ \A s \in Sinks : pending[s] # <<>> => \E i \in DOMAIN FlushAll : FlushAll[i].sink = s
<1> DEFINE js == [s \in Sinks |-> Job(s, <<>>)]
           at == {s \in Sinks : pending[s] # <<>>}
<1>1. js \in Seq(Jobs) /\ DOMAIN js = Sinks /\ \A s \in Sinks : js[s] = Job(s, <<>>)
  <2>1. \A s \in Sinks : Job(s, <<>>) \in Jobs
    BY DEF Job, Jobs
  <2>2. NSinks \in Nat /\ Sinks = 1 .. NSinks
    BY GroupAssumption DEF Sinks
  <2> QED
    BY <2>1, <2>2
<1>2. FlushAll = Picked(js, at)
  BY DEF FlushAll
<1>3. at \intersect DOMAIN js = at
  BY Zenon, <1>1
<1> HIDE DEF js, at
<1>4. FlushAll \in Seq(Jobs) /\ Queued(FlushAll) = {js[k] : k \in at}
  BY Zenon, <1>1, <1>2, <1>3, PickedHolds
<1>5. \A s \in Sinks : js[s].sink = s /\ js[s].recs = <<>>
  BY <1>1 DEF Job
<1>6. at \subseteq Sinks /\ \A s \in Sinks : pending[s] # <<>> => s \in at
  BY DEF at
<1>7. \A i \in DOMAIN FlushAll : \E k \in at : FlushAll[i] = js[k]
  BY Zenon, <1>4 DEF Queued
<1>8. \A k \in at : \E i \in DOMAIN FlushAll : FlushAll[i] = js[k]
  BY Zenon, <1>4 DEF Queued
<1>9. ASSUME NEW i \in DOMAIN FlushAll PROVE FlushAll[i].recs = <<>>
  <2>1. PICK k \in at : FlushAll[i] = js[k]
    BY Zenon, <1>7
  <2> QED
    BY Zenon, <1>5, <1>6, <2>1
<1>10. ASSUME NEW s \in Sinks, pending[s] # <<>>
       PROVE  \E i \in DOMAIN FlushAll : FlushAll[i].sink = s
  <2>1. PICK i \in DOMAIN FlushAll : FlushAll[i] = js[s]
    BY Zenon, <1>6, <1>8, <1>10
  <2> QED
    BY Zenon, <1>5, <2>1
<1> QED
  BY Zenon, <1>4, <1>9, <1>10

-----------------------------------------------------------------------------
(* Sequences joined to one *)

\* Induction up to n: what holds at 0, and goes on from each number to the
\* next one, holds up to n.
LEMMA UpTo ==
  ASSUME NEW n \in Nat, NEW Good, 0 \in Good, \A m \in 1 .. n : m - 1 \in Good => m \in Good
  PROVE  \A m \in 0 .. n : m \in Good
<1> DEFINE Bad == {m \in 0 .. n : m \notin Good}
<1> SUFFICES ASSUME Bad # {} PROVE FALSE
  OBVIOUS
<1>1. PICK m \in Bad : \A k \in Bad : m <= k
  <2>1. Bad \subseteq Nat
    OBVIOUS
  <2> HIDE DEF Bad
  <2> QED
    BY Zenon, <2>1, LeastNatural
<1>2. m \in 0 .. n /\ m \notin Good
  OBVIOUS
<1>3. m # 0
  BY Zenon, <1>2
<1>4. m \in 1 .. n /\ m - 1 \in 0 .. n /\ ~(m <= m - 1)
  BY <1>2, <1>3
<1>5. m - 1 \notin Bad
  BY Zenon, <1>1, <1>4
<1> QED
  BY Zenon, <1>2, <1>4, <1>5

\* Joining the first n parts, one after the other.
Joining(parts, n, f) == f[0] = <<>> /\ \A i \in 1 .. n : f[i] = f[i - 1] \o parts[i]

Joined(parts) == (CHOOSE f : Joining(parts, Len(parts), f))[Len(parts)]

\* The recursion has a solution.
LEMMA JoiningExists ==
  ASSUME NEW parts, NEW n \in Nat
  PROVE  \E f : Joining(parts, n, f)
<1> DEFINE Good == {m \in 0 .. n : \E f : Joining(parts, m, f)}
<1>1. 0 \in Good
  <2> DEFINE f == [i \in {0} |-> <<>>]
  <2>1. Joining(parts, 0, f)
    <3>1. f[0] = <<>> /\ 1 .. 0 = {}
      OBVIOUS
    <3> HIDE DEF f
    <3> QED
      BY Zenon, <3>1 DEF Joining
  <2>2. 0 \in 0 .. n
    OBVIOUS
  <2> QED
    BY Zenon, <2>1, <2>2
<1>2. ASSUME NEW m \in 1 .. n, m - 1 \in Good PROVE m \in Good
  <2>1. PICK f : Joining(parts, m - 1, f)
    BY Zenon, <1>2
  <2> DEFINE g == [i \in 0 .. m |-> IF i = m THEN f[m - 1] \o parts[m] ELSE f[i]]
  <2>2. \A i \in 0 .. m : g[i] = IF i = m THEN f[m - 1] \o parts[m] ELSE f[i]
    OBVIOUS
  <2> HIDE DEF g
  <2>3. g[0] = <<>>
    <3>1. 0 \in 0 .. m /\ 0 # m
      OBVIOUS
    <3> QED
      BY Zenon, <2>1, <2>2, <3>1 DEF Joining
  <2>4. ASSUME NEW i \in 1 .. m PROVE g[i] = g[i - 1] \o parts[i]
    <3>1. i \in 0 .. m /\ i - 1 \in 0 .. m /\ i - 1 # m
      OBVIOUS
    <3>2. CASE i = m
      BY Zenon, <2>2, <3>1, <3>2
    <3>3. CASE i # m
      <4>1. i \in 1 .. (m - 1)
        BY <3>3
      <4> QED
        BY Zenon, <2>1, <2>2, <3>1, <3>3, <4>1 DEF Joining
    <3> QED
      BY Zenon, <3>2, <3>3
  <2>5. m \in 0 .. n
    OBVIOUS
  <2> QED
    BY Zenon, <2>3, <2>4, <2>5 DEF Joining
<1>3. n \in 0 .. n
  OBVIOUS
<1> HIDE DEF Good
<1>4. n \in Good
  BY Zenon, <1>1, <1>2, <1>3, UpTo
<1> QED
  BY Zenon, <1>4 DEF Good

\* It has only one, so what takes the same steps ends with the same sequence.
LEMMA JoinedBySteps ==
  ASSUME NEW parts, Len(parts) \in Nat, NEW g, Joining(parts, Len(parts), g)
  PROVE  Joined(parts) = g[Len(parts)]
<1> DEFINE n == Len(parts)
           f == CHOOSE h : Joining(parts, n, h)
           Good == {m \in 0 .. n : f[m] = g[m]}
<1>1. Joining(parts, n, f)
  BY Zenon, JoiningExists
<1>2. Joined(parts) = f[n]
  BY Zenon DEF Joined
<1> HIDE DEF f
<1>3. 0 \in 0 .. n /\ n \in 0 .. n
  OBVIOUS
<1>4. 0 \in Good
  BY Zenon, <1>1, <1>3 DEF Joining
<1>5. ASSUME NEW m \in 1 .. n, m - 1 \in Good PROVE m \in Good
  <2>1. m \in 0 .. n
    OBVIOUS
  <2>2. f[m - 1] = g[m - 1]
    BY Zenon, <1>5
  <2>3. f[m] = f[m - 1] \o parts[m] /\ g[m] = g[m - 1] \o parts[m]
    BY Zenon, <1>1 DEF Joining
  <2> QED
    BY Zenon, <2>1, <2>2, <2>3
<1> HIDE DEF Good
<1>6. n \in Good
  BY Zenon, <1>3, <1>4, <1>5, UpTo
<1> QED
  BY Zenon, <1>2, <1>6 DEF Good

\* The steps of a join, and their types.
LEMMA JoinedTyped ==
  ASSUME NEW S, NEW parts \in Seq(Seq(S))
  PROVE  /\ Joined(parts) \in Seq(S)
         /\ \E f : /\ Joining(parts, Len(parts), f) /\ Joined(parts) = f[Len(parts)]
                   /\ \A i \in 0 .. Len(parts) : f[i] \in Seq(S)
<1> DEFINE n == Len(parts)
<1>1. n \in Nat /\ <<>> \in Seq(S) /\ \A i \in 1 .. n : parts[i] \in Seq(S)
  OBVIOUS
<1>2. PICK f : Joining(parts, n, f)
  BY Zenon, <1>1, JoiningExists
<1>3. Joined(parts) = f[n]
  BY Zenon, <1>1, <1>2, JoinedBySteps
<1> HIDE DEF n
<1> DEFINE Good == {m \in 0 .. n : f[m] \in Seq(S)}
<1>4. 0 \in 0 .. n /\ n \in 0 .. n
  BY <1>1
<1>5. 0 \in Good
  BY Zenon, <1>1, <1>2, <1>4 DEF Joining
<1>6. ASSUME NEW m \in 1 .. n, m - 1 \in Good PROVE m \in Good
  <2>1. m \in 0 .. n
    BY <1>1
  <2>2. f[m - 1] \in Seq(S) /\ parts[m] \in Seq(S) /\ f[m] = f[m - 1] \o parts[m]
    BY Zenon, <1>1, <1>2, <1>6 DEF Joining
  <2>3. \A a, b \in Seq(S) : a \o b \in Seq(S)
    OBVIOUS
  <2> QED
    BY Zenon, <2>1, <2>2, <2>3
<1> HIDE DEF Good
<1>7. \A m \in 0 .. n : m \in Good
  BY Zenon, <1>1, <1>5, <1>6, UpTo
<1>8. \A m \in 0 .. n : f[m] \in Seq(S)
  BY Zenon, <1>7 DEF Good
<1> QED
  BY Zenon, <1>2, <1>3, <1>4, <1>8 DEF n

\* The laws of concatenation.
LEMMA ConcatLaws ==
  ASSUME NEW S
  PROVE  /\ <<>> \in Seq(S)
         /\ \A a, b \in Seq(S) : a \o b \in Seq(S)
         /\ \A a \in Seq(S) : a \o <<>> = a /\ <<>> \o a = a
         /\ \A a, b, c \in Seq(S) : (a \o b) \o c = a \o (b \o c)
<1>1. <<>> \in Seq(S) /\ \A a, b \in Seq(S) : a \o b \in Seq(S)
  OBVIOUS
<1>2. \A a \in Seq(S) : a \o <<>> = a /\ <<>> \o a = a
  OBVIOUS
<1>3. \A a, b, c \in Seq(S) : (a \o b) \o c = a \o (b \o c)
  OBVIOUS
<1> QED
  BY Zenon, <1>1, <1>2, <1>3

\* Every element comes from one of the two.
LEMMA ConcatHolds ==
  ASSUME NEW S, NEW a \in Seq(S), NEW b \in Seq(S), NEW i \in 1 .. Len(a \o b)
  PROVE  (\E j \in 1 .. Len(a) : (a \o b)[i] = a[j]) \/ \E j \in 1 .. Len(b) : (a \o b)[i] = b[j]
<1>1. Len(a) \in Nat /\ Len(b) \in Nat /\ Len(a \o b) = Len(a) + Len(b)
  OBVIOUS
<1>2. CASE i \in 1 .. Len(a)
  <2>1. (a \o b)[i] = a[i]
    BY <1>2
  <2> QED
    BY Zenon, <1>2, <2>1
<1>3. CASE i \notin 1 .. Len(a)
  <2>1. i - Len(a) \in 1 .. Len(b) /\ (a \o b)[i] = b[i - Len(a)]
    BY <1>1, <1>3
  <2> QED
    BY Zenon, <2>1
<1> QED
  BY Zenon, <1>2, <1>3

\* What concatenation consists of.
LEMMA ConcatAt ==
  ASSUME NEW S, NEW a \in Seq(S), NEW b \in Seq(S)
  PROVE  /\ a \o b \in Seq(S) /\ Len(a \o b) = Len(a) + Len(b)
         /\ \A i \in 1 .. (Len(a) + Len(b)) : (a \o b)[i] = IF i <= Len(a) THEN a[i] ELSE b[i - Len(a)]
  OBVIOUS

\* Sequences with the same elements are the same.
LEMMA SameElements ==
  ASSUME NEW S, NEW a \in Seq(S), NEW b \in Seq(S), Len(a) = Len(b),
         \A i \in 1 .. Len(b) : a[i] = b[i]
  PROVE  a = b
  OBVIOUS

\* A join of more parts goes on where that of the first ones ends.
LEMMA JoinedConcat ==
  ASSUME NEW S, NEW a \in Seq(Seq(S)), NEW b \in Seq(Seq(S))
  PROVE  Joined(a \o b) = Joined(a) \o Joined(b)
<1> DEFINE n == Len(a)
           k == Len(b)
           c == a \o b
<1>1. PICK fa : Joining(a, n, fa) /\ Joined(a) = fa[n] /\ \A i \in 0 .. n : fa[i] \in Seq(S)
  BY Zenon, JoinedTyped
<1>2. PICK fb : Joining(b, k, fb) /\ Joined(b) = fb[k] /\ \A i \in 0 .. k : fb[i] \in Seq(S)
  BY Zenon, JoinedTyped
<1>3. /\ n \in Nat /\ k \in Nat /\ Len(c) = n + k
      /\ \A i \in 1 .. n : c[i] = a[i]
      /\ \A i \in 1 .. k : c[n + i] = b[i] /\ b[i] \in Seq(S)
  OBVIOUS
<1> HIDE DEF n, k, c
<1> DEFINE g == [i \in 0 .. (n + k) |-> IF i <= n THEN fa[i] ELSE fa[n] \o fb[i - n]]
<1>4. /\ \A i \in 0 .. n : g[i] = fa[i]
      /\ \A i \in 1 .. k : g[n + i] = fa[n] \o fb[i]
  <2>1. ASSUME NEW i \in 0 .. n PROVE g[i] = fa[i]
    BY <1>3
  <2>2. ASSUME NEW i \in 1 .. k PROVE g[n + i] = fa[n] \o fb[i]
    <3>1. n + i \in 0 .. (n + k) /\ ~(n + i <= n) /\ (n + i) - n = i
      BY <1>3
    <3> QED
      BY Zenon, <3>1
  <2> QED
    BY Zenon, <2>1, <2>2
<1> HIDE DEF g
<1>5. fa[0] = <<>> /\ fb[0] = <<>> /\ fa[n] \in Seq(S) /\ 0 \in 0 .. n /\ n \in 0 .. n /\ 0 + n = n
  <2>1. 0 \in 0 .. n /\ n \in 0 .. n /\ 0 + n = n
    BY <1>3
  <2> QED
    BY Zenon, <1>1, <1>2, <2>1 DEF Joining
<1>6. \A i \in 0 .. k : g[n + i] = fa[n] \o fb[i]
  <2> SUFFICES ASSUME NEW i \in 0 .. k PROVE g[n + i] = fa[n] \o fb[i]
    OBVIOUS
  <2>1. CASE i = 0
    <3>1. n + i = n
      BY <1>3, <2>1
    <3> QED
      BY Zenon, <1>4, <1>5, <2>1, <3>1, ConcatLaws
  <2>2. CASE i # 0
    <3>1. i \in 1 .. k
      BY <2>2
    <3> QED
      BY Zenon, <1>4, <3>1
  <2> QED
    BY Zenon, <2>1, <2>2
<1>7. ASSUME NEW i \in 1 .. (n + k) PROVE g[i] = g[i - 1] \o c[i]
  <2>1. CASE i <= n
    <3>1. i \in 1 .. n /\ i \in 0 .. n /\ i - 1 \in 0 .. n
      BY <1>3, <2>1
    <3> QED
      BY Zenon, <1>1, <1>3, <1>4, <3>1 DEF Joining
  <2>2. CASE ~(i <= n)
    <3> DEFINE j == i - n
    <3>1. /\ j \in 1 .. k /\ j \in 0 .. k /\ j - 1 \in 0 .. k
          /\ n + j = i /\ n + (j - 1) = i - 1
      BY <1>3, <2>2
    <3> HIDE DEF j
    <3>2. g[i] = fa[n] \o fb[j] /\ g[i - 1] = fa[n] \o fb[j - 1] /\ c[i] = b[j]
      BY Zenon, <1>3, <1>6, <3>1
    <3>3. fb[j] = fb[j - 1] \o b[j] /\ fb[j - 1] \in Seq(S) /\ b[j] \in Seq(S)
      BY Zenon, <1>2, <1>3, <3>1 DEF Joining
    <3>4. (fa[n] \o fb[j - 1]) \o b[j] = fa[n] \o (fb[j - 1] \o b[j])
      <4>1. \A x, y, z \in Seq(S) : (x \o y) \o z = x \o (y \o z)
        BY Zenon, ConcatLaws
      <4> QED
        BY Zenon, <1>5, <3>3, <4>1
    <3> QED
      BY Zenon, <3>2, <3>3, <3>4
  <2> QED
    BY Zenon, <2>1, <2>2
<1>8. g[0] = <<>>
  BY Zenon, <1>4, <1>5
<1>9. Len(c) \in Nat /\ k \in 0 .. k
  BY <1>3
<1>10. Joined(c) = g[n + k]
  BY Zenon, <1>3, <1>7, <1>8, <1>9, JoinedBySteps DEF Joining
<1> QED
  BY Zenon, <1>1, <1>2, <1>6, <1>9, <1>10 DEF c

\* Empty parts do not show.
LEMMA JoinedEmpty ==
  ASSUME NEW parts, Len(parts) \in Nat, \A i \in 1 .. Len(parts) : parts[i] = <<>>
  PROVE  Joined(parts) = <<>>
<1> DEFINE g == [i \in 0 .. Len(parts) |-> <<>>]
<1>1. \A i \in 0 .. Len(parts) : g[i] = <<>>
  OBVIOUS
<1> HIDE DEF g
<1>2. /\ 0 \in 0 .. Len(parts) /\ Len(parts) \in 0 .. Len(parts) /\ <<>> \o <<>> = <<>>
      /\ \A i \in 1 .. Len(parts) : i \in 0 .. Len(parts) /\ i - 1 \in 0 .. Len(parts)
  OBVIOUS
<1>3. Joining(parts, Len(parts), g)
  BY Zenon, <1>1, <1>2 DEF Joining
<1> QED
  BY Zenon, <1>1, <1>2, <1>3, JoinedBySteps

\* If all parts but one are empty, that one is all.
LEMMA JoinedAtOne ==
  ASSUME NEW S, NEW parts \in Seq(Seq(S)), NEW k \in 1 .. Len(parts),
         \A i \in 1 .. Len(parts) : i # k => parts[i] = <<>>
  PROVE  Joined(parts) = parts[k]
<1> DEFINE n == Len(parts)
           g == [i \in 0 .. n |-> IF i < k THEN <<>> ELSE parts[k]]
<1>1. \A i \in 0 .. n : g[i] = IF i < k THEN <<>> ELSE parts[k]
  OBVIOUS
<1>2. n \in Nat /\ parts[k] \in Seq(S) /\ k \in 1 .. n
  OBVIOUS
<1> HIDE DEF g, n
<1>3. ASSUME NEW i \in 1 .. n PROVE g[i] = g[i - 1] \o parts[i]
  <2>1. i \in 0 .. n /\ i - 1 \in 0 .. n
    BY <1>2
  <2>2. CASE i < k
    <3>1. i - 1 < k /\ i # k
      BY <1>2, <2>2
    <3>2. parts[i] = <<>>
      BY Zenon, <3>1 DEF n
    <3> QED
      BY Zenon, <1>1, <2>1, <2>2, <3>1, <3>2, ConcatLaws
  <2>3. CASE i = k
    <3>1. i - 1 < k /\ ~(i < k)
      BY <1>2, <2>3
    <3> QED
      BY Zenon, <1>1, <1>2, <2>1, <2>3, <3>1, ConcatLaws
  <2>4. CASE ~(i < k) /\ i # k
    <3>1. ~(i - 1 < k)
      BY <1>2, <2>4
    <3>2. parts[i] = <<>>
      BY Zenon, <2>4 DEF n
    <3> QED
      BY Zenon, <1>1, <1>2, <2>1, <2>4, <3>1, <3>2, ConcatLaws
  <2> QED
    BY Zenon, <2>2, <2>3, <2>4
<1>4. 0 \in 0 .. n /\ n \in 0 .. n /\ 0 < k /\ ~(n < k)
  BY <1>2
<1>5. Joining(parts, n, g)
  BY Zenon, <1>1, <1>3, <1>4 DEF Joining
<1>6. Joined(parts) = g[n]
  BY Zenon, <1>2, <1>5, JoinedBySteps DEF n
<1> QED
  BY Zenon, <1>1, <1>4, <1>6

-----------------------------------------------------------------------------
(* The records of a sequence that are in a set *)

\* Each element as a part of its own, or nothing.
Parts(seq, T) == [i \in 1 .. Len(seq) |-> IF seq[i] \in T THEN <<seq[i]>> ELSE <<>>]

\* Among joins them.
LEMMA AmongIsJoined ==
  ASSUME NEW S, NEW seq \in Seq(S), NEW T
  PROVE  /\ Parts(seq, T) \in Seq(Seq(S)) /\ Len(Parts(seq, T)) = Len(seq)
         /\ Among(seq, T) = Joined(Parts(seq, T)) /\ Among(seq, T) \in Seq(S)
<1> DEFINE n == Len(seq)
           at == {i \in DOMAIN seq : seq[i] \in T}
           parts == Parts(seq, T)
<1>1. n \in Nat /\ DOMAIN seq = 1 .. n /\ \A i \in 1 .. n : seq[i] \in S /\ <<seq[i]>> \in Seq(S)
  OBVIOUS
<1>2. <<>> \in Seq(S)
  OBVIOUS
<1>3. parts = [i \in 1 .. n |-> IF seq[i] \in T THEN <<seq[i]>> ELSE <<>>]
  BY Zenon DEF Parts
<1>4. \A i \in 1 .. n : parts[i] = (IF seq[i] \in T THEN <<seq[i]>> ELSE <<>>) /\ parts[i] \in Seq(S)
  BY Zenon, <1>1, <1>2, <1>3
<1> HIDE DEF parts
<1>5. parts \in Seq(Seq(S)) /\ Len(parts) = n
  <2> DEFINE Q == Seq(S)
  <2>1. \A i \in 1 .. n : parts[i] \in Q
    BY Zenon, <1>4
  <2>2. parts = [i \in 1 .. n |-> parts[i]]
    BY Zenon, <1>3
  <2> HIDE DEF Q, n
  <2>3. parts \in Seq(Q) /\ Len(parts) = n
    BY <1>1, <2>1, <2>2
  <2> QED
    BY Zenon, <2>3 DEF Q
<1>6. PICK f : Picking(seq, at, n, f) /\ Picked(seq, at) = f[n]
  BY Zenon, <1>1, PickedIsPicking
<1>7. \A i \in 0 .. n : f[i] =
        IF i = 0 THEN <<>> ELSE IF i \in at THEN Append(f[i - 1], seq[i]) ELSE f[i - 1]
  BY Zenon, <1>6 DEF Picking
<1> HIDE DEF n
<1>8. ASSUME NEW i \in 1 .. n, f[i - 1] \in Seq(S) PROVE f[i] = f[i - 1] \o parts[i] /\ f[i] \in Seq(S)
  <2>1. i \in 0 .. n /\ i # 0
    BY <1>1
  <2>2. f[i] = IF i \in at THEN Append(f[i - 1], seq[i]) ELSE f[i - 1]
    BY Zenon, <1>7, <2>1
  <2>3. \A q \in Seq(S), e \in S : Append(q, e) = q \o <<e>>
    OBVIOUS
  <2>4. CASE seq[i] \in T
    <3>1. i \in at
      BY Zenon, <1>1, <2>4
    <3>2. f[i] = f[i - 1] \o <<seq[i]>> /\ parts[i] = <<seq[i]>> /\ <<seq[i]>> \in Seq(S)
      BY Zenon, <1>1, <1>4, <1>8, <2>2, <2>3, <2>4, <3>1
    <3>3. f[i - 1] \o <<seq[i]>> \in Seq(S)
      BY Zenon, <1>8, <3>2, ConcatAt
    <3> QED
      BY Zenon, <3>2, <3>3
  <2>5. CASE seq[i] \notin T
    BY Zenon, <1>1, <1>4, <1>8, <2>2, <2>5, ConcatLaws
  <2> QED
    BY Zenon, <2>4, <2>5
<1> DEFINE Good == {m \in 0 .. n : f[m] \in Seq(S)}
<1>9. 0 \in 0 .. n /\ n \in 0 .. n /\ \A m \in 1 .. n : m \in 0 .. n /\ m - 1 \in 0 .. n
  BY <1>1
<1>10. f[0] = <<>>
  BY Zenon, <1>7, <1>9
<1>11. 0 \in Good
  BY Zenon, <1>2, <1>9, <1>10
<1>12. \A m \in 1 .. n : m - 1 \in Good => m \in Good
  BY Zenon, <1>8, <1>9
<1> HIDE DEF Good
<1>13. \A m \in 0 .. n : m \in Good
  BY Zenon, <1>1, <1>11, <1>12, UpTo
<1>14. \A m \in 0 .. n : f[m] \in Seq(S)
  BY Zenon, <1>13 DEF Good
<1>15. Joining(parts, n, f)
  BY Zenon, <1>8, <1>9, <1>10, <1>14 DEF Joining
<1>16. Joined(parts) = f[n]
  BY Zenon, <1>1, <1>5, <1>15, JoinedBySteps
<1>17. Among(seq, T) = f[n]
  BY Zenon, <1>6 DEF Among, n
<1> QED
  BY Zenon, <1>5, <1>9, <1>14, <1>16, <1>17 DEF parts, n

\* Among works from part to part.
LEMMA AmongConcat ==
  ASSUME NEW S, NEW a \in Seq(S), NEW b \in Seq(S), NEW T
  PROVE  Among(a \o b, T) = Among(a, T) \o Among(b, T)
<1> DEFINE c == a \o b
           pa == Parts(a, T)
           pb == Parts(b, T)
           pc3 == Parts(c, T)
<1>1. /\ c \in Seq(S) /\ Len(a) \in Nat /\ Len(b) \in Nat /\ Len(c) = Len(a) + Len(b)
      /\ \A i \in 1 .. (Len(a) + Len(b)) : c[i] = IF i <= Len(a) THEN a[i] ELSE b[i - Len(a)]
  OBVIOUS
<1> HIDE DEF c
<1>2. /\ pa \in Seq(Seq(S)) /\ Len(pa) = Len(a) /\ Among(a, T) = Joined(pa)
      /\ pb \in Seq(Seq(S)) /\ Len(pb) = Len(b) /\ Among(b, T) = Joined(pb)
      /\ pc3 \in Seq(Seq(S)) /\ Len(pc3) = Len(c) /\ Among(c, T) = Joined(pc3)
  BY Zenon, <1>1, AmongIsJoined
<1>3. /\ \A i \in 1 .. Len(a) : pa[i] = IF a[i] \in T THEN <<a[i]>> ELSE <<>>
      /\ \A i \in 1 .. Len(b) : pb[i] = IF b[i] \in T THEN <<b[i]>> ELSE <<>>
      /\ \A i \in 1 .. Len(c) : pc3[i] = IF c[i] \in T THEN <<c[i]>> ELSE <<>>
  BY Zenon DEF Parts
<1> HIDE DEF pa, pb, pc3
<1> DEFINE Q == Seq(S)
           d == pa \o pb
<1>4. /\ d \in Seq(Q) /\ Len(d) = Len(c)
      /\ \A i \in 1 .. Len(c) : d[i] = IF i <= Len(a) THEN pa[i] ELSE pb[i - Len(a)]
  <2>1. pa \in Seq(Q) /\ pb \in Seq(Q)
    BY Zenon, <1>2
  <2> HIDE DEF Q
  <2>2. /\ d \in Seq(Q) /\ Len(d) = Len(pa) + Len(pb)
        /\ \A i \in 1 .. (Len(pa) + Len(pb)) : d[i] = IF i <= Len(pa) THEN pa[i] ELSE pb[i - Len(pa)]
    BY Zenon, <2>1, ConcatAt
  <2> QED
    BY Zenon, <1>1, <1>2, <2>2
<1> HIDE DEF d
<1>5. ASSUME NEW i \in 1 .. Len(c) PROVE pc3[i] = d[i]
  <2>1. CASE i <= Len(a)
    <3>1. i \in 1 .. Len(a) /\ i \in 1 .. (Len(a) + Len(b))
      BY <1>1, <2>1
    <3>2. c[i] = a[i] /\ d[i] = pa[i]
      BY Zenon, <1>1, <1>4, <2>1, <3>1
    <3> QED
      BY Zenon, <1>3, <3>1, <3>2
  <2>2. CASE ~(i <= Len(a))
    <3>1. i - Len(a) \in 1 .. Len(b) /\ i \in 1 .. (Len(a) + Len(b))
      BY <1>1, <2>2
    <3>2. c[i] = b[i - Len(a)] /\ d[i] = pb[i - Len(a)]
      BY Zenon, <1>1, <1>4, <2>2, <3>1
    <3> QED
      BY Zenon, <1>3, <3>1, <3>2
  <2> QED
    BY Zenon, <2>1, <2>2
<1>6. pc3 = d
  <2>1. pc3 \in Seq(Q)
    BY Zenon, <1>2
  <2> HIDE DEF Q
  <2> QED
    BY Zenon, <1>2, <1>4, <1>5, <2>1, SameElements
<1>7. Joined(pa \o pb) = Joined(pa) \o Joined(pb)
  BY Zenon, <1>2, JoinedConcat
<1> QED
  BY Zenon, <1>2, <1>6, <1>7 DEF c, d

\* Nothing of a sequence without elements of the set, nor of an empty one.
LEMMA AmongNone ==
  ASSUME NEW S, NEW seq \in Seq(S), NEW T, \A i \in 1 .. Len(seq) : seq[i] \notin T
  PROVE  Among(seq, T) = <<>>
<1>1. /\ Len(Parts(seq, T)) = Len(seq) /\ Among(seq, T) = Joined(Parts(seq, T)) /\ Len(seq) \in Nat
  <2>1. Len(seq) \in Nat
    OBVIOUS
  <2> QED
    BY Zenon, <2>1, AmongIsJoined
<1>2. \A i \in 1 .. Len(seq) : Parts(seq, T)[i] = <<>>
  BY Zenon DEF Parts
<1> QED
  BY Zenon, <1>1, <1>2, JoinedEmpty

\* A single element.
LEMMA AmongOne ==
  ASSUME NEW S, NEW e \in S, NEW T
  PROVE  Among(<<e>>, T) = IF e \in T THEN <<e>> ELSE <<>>
<1> DEFINE q == <<e>>
<1>1. q \in Seq(S) /\ Len(q) = 1 /\ q[1] = e /\ 1 \in 1 .. 1 /\ \A i \in 1 .. 1 : i = 1
  OBVIOUS
<1> HIDE DEF q
<1>2. /\ Parts(q, T) \in Seq(Seq(S)) /\ Len(Parts(q, T)) = 1 /\ Among(q, T) = Joined(Parts(q, T))
  BY Zenon, <1>1, AmongIsJoined
<1>3. Parts(q, T)[1] = IF e \in T THEN <<e>> ELSE <<>>
  BY Zenon, <1>1 DEF Parts
<1>4. Joined(Parts(q, T)) = Parts(q, T)[1]
  BY Zenon, <1>1, <1>2, JoinedAtOne
<1> QED
  BY Zenon, <1>2, <1>3, <1>4 DEF q

\* All of a sequence.
LEMMA AmongAll ==
  ASSUME NEW S, NEW seq \in Seq(S), NEW T, S \subseteq T
  PROVE  Among(seq, T) = seq
<1> DEFINE n == Len(seq)
           parts == Parts(seq, T)
           g == [i \in 0 .. n |-> SubSeq(seq, 1, i)]
<1>1. /\ n \in Nat /\ \A i \in 1 .. n : seq[i] \in S
      /\ SubSeq(seq, 1, 0) = <<>> /\ SubSeq(seq, 1, n) = seq
  OBVIOUS
<1>2. Len(parts) = n /\ Among(seq, T) = Joined(parts)
  BY Zenon, AmongIsJoined
<1>3. \A i \in 1 .. n : parts[i] = <<seq[i]>>
  BY Zenon, <1>1 DEF Parts
<1>4. \A i \in 1 .. n : SubSeq(seq, 1, i) = SubSeq(seq, 1, i - 1) \o <<seq[i]>>
  OBVIOUS
<1>5. \A i \in 0 .. n : g[i] = SubSeq(seq, 1, i)
  OBVIOUS
<1> HIDE DEF g, parts, n
<1>6. 0 \in 0 .. n /\ n \in 0 .. n /\ \A i \in 1 .. n : i \in 0 .. n /\ i - 1 \in 0 .. n
  BY <1>1
<1>7. Joining(parts, n, g)
  BY Zenon, <1>1, <1>3, <1>4, <1>5, <1>6 DEF Joining
<1>8. Joined(parts) = g[n]
  BY Zenon, <1>1, <1>2, <1>7, JoinedBySteps
<1> QED
  BY Zenon, <1>1, <1>2, <1>5, <1>6, <1>8

\* Twice is once, with both conditions.
LEMMA AmongAmong ==
  ASSUME NEW S, NEW seq \in Seq(S), NEW T, NEW U
  PROVE  Among(Among(seq, T), U) = Among(seq, T \intersect U)
<1> DEFINE n == Len(seq)
           parts == Parts(seq, T)
           both == Parts(seq, T \intersect U)
<1>1. n \in Nat /\ <<>> \in Seq(S) /\ \A i \in 1 .. n : seq[i] \in S /\ <<seq[i]>> \in Seq(S)
  OBVIOUS
<1>2. /\ parts \in Seq(Seq(S)) /\ Len(parts) = n /\ Among(seq, T) = Joined(parts)
      /\ Len(both) = n /\ Among(seq, T \intersect U) = Joined(both)
  BY Zenon, AmongIsJoined
<1>3. /\ \A i \in 1 .. n : parts[i] = IF seq[i] \in T THEN <<seq[i]>> ELSE <<>>
      /\ \A i \in 1 .. n : both[i] = IF seq[i] \in T \intersect U THEN <<seq[i]>> ELSE <<>>
  BY Zenon DEF Parts
<1> HIDE DEF parts, both
<1>4. PICK f : Joining(parts, n, f) /\ Joined(parts) = f[n] /\ \A i \in 0 .. n : f[i] \in Seq(S)
  BY Zenon, <1>2, JoinedTyped
<1> HIDE DEF n
<1> DEFINE g == [i \in 0 .. n |-> Among(f[i], U)]
<1>5. \A i \in 0 .. n : g[i] = Among(f[i], U)
  BY Zenon
<1> HIDE DEF g
<1>6. 0 \in 0 .. n /\ n \in 0 .. n /\ \A i \in 1 .. n : i \in 0 .. n /\ i - 1 \in 0 .. n
  BY <1>1
<1>7. Among(<<>>, U) = <<>>
  <2>1. \A i \in 1 .. Len(<<>>) : FALSE
    OBVIOUS
  <2> QED
    BY Zenon, <1>1, <2>1, AmongNone
<1>8. ASSUME NEW i \in 1 .. n PROVE g[i] = g[i - 1] \o both[i]
  <2>1. f[i] = f[i - 1] \o parts[i] /\ f[i - 1] \in Seq(S)
    BY Zenon, <1>4, <1>6 DEF Joining
  <2>2. parts[i] \in Seq(S)
    BY Zenon, <1>1, <1>3
  <2>3. Among(f[i], U) = Among(f[i - 1], U) \o Among(parts[i], U)
    <3>1. \A x, y \in Seq(S) : Among(x \o y, U) = Among(x, U) \o Among(y, U)
      BY AmongConcat
    <3> QED
      BY Zenon, <2>1, <2>2, <3>1
  <2>4. Among(parts[i], U) = both[i]
    <3>1. Among(<<seq[i]>>, U) = IF seq[i] \in U THEN <<seq[i]>> ELSE <<>>
      BY Zenon, <1>1, AmongOne
    <3> QED
      BY Zenon, <1>3, <1>7, <3>1
  <2> QED
    BY Zenon, <1>5, <1>6, <2>3, <2>4
<1>9. g[0] = <<>>
  BY Zenon, <1>4, <1>5, <1>6, <1>7 DEF Joining
<1>10. Joined(both) = g[n]
  BY Zenon, <1>1, <1>2, <1>8, <1>9, JoinedBySteps DEF Joining
<1> QED
  BY Zenon, <1>2, <1>4, <1>5, <1>6, <1>10

-----------------------------------------------------------------------------
(* What the jobs of a handler owe a sink *)

\* The records of a set that a job has for a sink, and those all jobs have.
Share(j, s, S) == IF j.sink = s THEN Among(j.recs, S) ELSE <<>>
Shares(js, s, S) == [k \in 1 .. Len(js) |-> Share(js[k], s, S)]
Debt(js, s, S) == Joined(Shares(js, s, S))

\* Shares are sequences of records.
LEMMA ShareTyped ==
  ASSUME NEW j \in Jobs, NEW s, NEW S
  PROVE  Share(j, s, S) \in Seq(Records) /\ (j.recs = <<>> => Share(j, s, S) = <<>>)
<1>1. j.recs \in Seq(Records)
  BY DEF Jobs
<1>2. <<>> \in Seq(Records) /\ \A i \in 1 .. Len(<<>>) : FALSE
  OBVIOUS
<1>3. Among(j.recs, S) \in Seq(Records)
  BY Zenon, <1>1, AmongIsJoined
<1>4. Among(<<>>, S) = <<>>
  BY Zenon, <1>2, AmongNone
<1> QED
  BY Zenon, <1>2, <1>3, <1>4 DEF Share

\* So is what they add up to.
LEMMA SharesTyped ==
  ASSUME NEW js \in Seq(Jobs), NEW s, NEW S
  PROVE  /\ Shares(js, s, S) \in Seq(Seq(Records)) /\ Len(Shares(js, s, S)) = Len(js)
         /\ \A k \in 1 .. Len(js) : Shares(js, s, S)[k] = Share(js[k], s, S)
         /\ Debt(js, s, S) \in Seq(Records)
<1> DEFINE n == Len(js)
           Q == Seq(Records)
           sh == Shares(js, s, S)
<1>1. n \in Nat /\ \A k \in 1 .. n : js[k] \in Jobs
  OBVIOUS
<1>2. sh = [k \in 1 .. n |-> Share(js[k], s, S)]
  BY Zenon DEF Shares
<1>3. \A k \in 1 .. n : sh[k] = Share(js[k], s, S) /\ sh[k] \in Q
  BY Zenon, <1>1, <1>2, ShareTyped
<1>4. sh = [k \in 1 .. n |-> sh[k]]
  BY Zenon, <1>2
<1> HIDE DEF n, Q, sh
<1>5. sh \in Seq(Q) /\ Len(sh) = n
  BY <1>1, <1>3, <1>4
<1>6. Joined(sh) \in Seq(Records)
  BY Zenon, <1>5, JoinedTyped DEF Q
<1> QED
  BY Zenon, <1>3, <1>5, <1>6 DEF n, Q, sh, Debt

\* Debts add up.
LEMMA DebtConcat ==
  ASSUME NEW a \in Seq(Jobs), NEW b \in Seq(Jobs), NEW s, NEW S
  PROVE  Debt(a \o b, s, S) = Debt(a, s, S) \o Debt(b, s, S)
<1> DEFINE c == a \o b
           Q == Seq(Records)
           sa == Shares(a, s, S)
           sb == Shares(b, s, S)
           sc == Shares(c, s, S)
<1>1. /\ c \in Seq(Jobs) /\ Len(c) = Len(a) + Len(b) /\ Len(a) \in Nat /\ Len(b) \in Nat
      /\ \A i \in 1 .. (Len(a) + Len(b)) : c[i] = IF i <= Len(a) THEN a[i] ELSE b[i - Len(a)]
  <2>1. Len(a) \in Nat /\ Len(b) \in Nat
    OBVIOUS
  <2> QED
    BY Zenon, <2>1, ConcatAt
<1> HIDE DEF c
<1>2. /\ sa \in Seq(Q) /\ Len(sa) = Len(a) /\ sb \in Seq(Q) /\ Len(sb) = Len(b)
      /\ sc \in Seq(Q) /\ Len(sc) = Len(c)
      /\ \A k \in 1 .. Len(a) : sa[k] = Share(a[k], s, S)
      /\ \A k \in 1 .. Len(b) : sb[k] = Share(b[k], s, S)
      /\ \A k \in 1 .. Len(c) : sc[k] = Share(c[k], s, S)
  <2>1. \A js \in Seq(Jobs) :
          /\ Shares(js, s, S) \in Seq(Seq(Records)) /\ Len(Shares(js, s, S)) = Len(js)
          /\ \A k \in 1 .. Len(js) : Shares(js, s, S)[k] = Share(js[k], s, S)
    BY SharesTyped
  <2> QED
    BY Zenon, <1>1, <2>1
<1>3. Debt(a, s, S) = Joined(sa) /\ Debt(b, s, S) = Joined(sb) /\ Debt(c, s, S) = Joined(sc)
  BY Zenon DEF Debt
<1> HIDE DEF sa, sb, sc, Q
<1> DEFINE d == sa \o sb
<1>4. /\ d \in Seq(Q) /\ Len(d) = Len(sa) + Len(sb)
      /\ \A i \in 1 .. (Len(sa) + Len(sb)) : d[i] = IF i <= Len(sa) THEN sa[i] ELSE sb[i - Len(sa)]
  <2>1. sa \in Seq(Q) /\ sb \in Seq(Q)
    BY Zenon, <1>2
  <2> QED
    BY Zenon, <2>1, ConcatAt
<1> HIDE DEF d
<1>5. ASSUME NEW i \in 1 .. Len(d) PROVE sc[i] = d[i]
  <2>1. i \in 1 .. (Len(a) + Len(b)) /\ i \in 1 .. (Len(sa) + Len(sb)) /\ i \in 1 .. Len(c)
    BY Zenon, <1>1, <1>2, <1>4
  <2>2. CASE i <= Len(a)
    <3>1. i \in 1 .. Len(a)
      BY <1>1, <2>1, <2>2
    <3> QED
      BY Zenon, <1>1, <1>2, <1>4, <2>1, <2>2, <3>1
  <2>3. CASE ~(i <= Len(a))
    <3>1. i - Len(a) \in 1 .. Len(b)
      BY <1>1, <2>1, <2>3
    <3> QED
      BY Zenon, <1>1, <1>2, <1>4, <2>1, <2>3, <3>1
  <2> QED
    BY Zenon, <2>2, <2>3
<1>6. Len(sc) = Len(d)
  BY Zenon, <1>1, <1>2, <1>4
<1>7. sc = d
  BY Zenon, <1>2, <1>4, <1>5, <1>6, SameElements
<1>8. Joined(sa \o sb) = Joined(sa) \o Joined(sb)
  BY <1>2, JoinedConcat DEF Q
<1> QED
  BY Zenon, <1>3, <1>7, <1>8 DEF c, d

\* Flushes owe nothing.
LEMMA DebtNone ==
  ASSUME NEW js \in Seq(Jobs), \A i \in DOMAIN js : js[i].recs = <<>>, NEW s, NEW S
  PROVE  Debt(js, s, S) = <<>>
<1>1. /\ Len(Shares(js, s, S)) = Len(js)
      /\ \A k \in 1 .. Len(js) : Shares(js, s, S)[k] = Share(js[k], s, S)
  BY Zenon, SharesTyped
<1>2. Len(js) \in Nat /\ DOMAIN js = 1 .. Len(js) /\ \A k \in 1 .. Len(js) : js[k] \in Jobs
  OBVIOUS
<1>3. \A k \in 1 .. Len(js) : Share(js[k], s, S) = <<>>
  BY Zenon, <1>2, ShareTyped
<1> QED
  BY Zenon, <1>1, <1>2, <1>3, JoinedEmpty DEF Debt

\* What a single job owes.
LEMMA DebtOne ==
  ASSUME NEW j \in Jobs, NEW s, NEW S
  PROVE  Debt(<<j>>, s, S) = Share(j, s, S)
<1> DEFINE q == <<j>>
<1>1. q \in Seq(Jobs) /\ Len(q) = 1 /\ q[1] = j /\ 1 \in 1 .. 1 /\ \A i \in 1 .. 1 : i = 1
  OBVIOUS
<1> HIDE DEF q
<1>2. /\ Shares(q, s, S) \in Seq(Seq(Records)) /\ Len(Shares(q, s, S)) = 1
      /\ Shares(q, s, S)[1] = Share(j, s, S)
  <2>1. /\ Shares(q, s, S) \in Seq(Seq(Records)) /\ Len(Shares(q, s, S)) = Len(q)
        /\ \A k \in 1 .. Len(q) : Shares(q, s, S)[k] = Share(q[k], s, S)
    BY <1>1, SharesTyped
  <2> QED
    BY Zenon, <1>1, <2>1
<1>3. Joined(Shares(q, s, S)) = Shares(q, s, S)[1]
  BY Zenon, <1>1, <1>2, JoinedAtOne
<1> QED
  BY Zenon, <1>2, <1>3 DEF q, Debt

\* The first job, and the rest.
LEMMA DebtHead ==
  ASSUME NEW js \in Seq(Jobs), js # <<>>, NEW s, NEW S
  PROVE  /\ Head(js) \in Jobs /\ Tail(js) \in Seq(Jobs)
         /\ Debt(js, s, S) = Share(Head(js), s, S) \o Debt(Tail(js), s, S)
<1> DEFINE j == Head(js)
           rest == Tail(js)
<1>1. j \in Jobs /\ rest \in Seq(Jobs) /\ <<j>> \in Seq(Jobs) /\ js = <<j>> \o rest
  OBVIOUS
<1> HIDE DEF j, rest
<1>2. Debt(<<j>> \o rest, s, S) = Debt(<<j>>, s, S) \o Debt(rest, s, S)
  <2> DEFINE one == <<j>>
  <2>1. one \in Seq(Jobs) /\ rest \in Seq(Jobs)
    BY Zenon, <1>1
  <2> HIDE DEF one
  <2>2. Debt(one \o rest, s, S) = Debt(one, s, S) \o Debt(rest, s, S)
    BY <2>1, DebtConcat
  <2> QED
    BY Zenon, <2>2 DEF one
<1>3. Debt(<<j>>, s, S) = Share(j, s, S)
  BY Zenon, <1>1, DebtOne
<1> QED
  BY Zenon, <1>1, <1>2, <1>3 DEF j, rest

\* Jobs without records may be left out.
LEMMA DebtNonEmpty ==
  ASSUME NEW js \in Seq(Jobs), NEW s, NEW S
  PROVE  Debt(NonEmpty(js), s, S) = Debt(js, s, S)
<1> DEFINE n == Len(js)
           Full == {j \in Jobs : j.recs # <<>>}
           parts == Parts(js, Full)
           sh == Shares(js, s, S)
<1>1. /\ n \in Nat /\ DOMAIN js = 1 .. n /\ <<>> \in Seq(Jobs)
      /\ \A k \in 1 .. n : js[k] \in Jobs /\ <<js[k]>> \in Seq(Jobs)
  OBVIOUS
<1>2. NonEmpty(js) = Among(js, Full)
  <2>1. {k \in DOMAIN js : js[k].recs # <<>>} = {k \in DOMAIN js : js[k] \in Full}
    BY Zenon, <1>1
  <2> QED
    BY Zenon, <2>1 DEF NonEmpty, Among
<1>3. parts \in Seq(Seq(Jobs)) /\ Len(parts) = n /\ Among(js, Full) = Joined(parts)
  BY Zenon, AmongIsJoined
<1>4. \A k \in 1 .. n : parts[k] = IF js[k] \in Full THEN <<js[k]>> ELSE <<>>
  BY Zenon DEF Parts
<1>5. Len(sh) = n /\ (\A k \in 1 .. n : sh[k] = Share(js[k], s, S)) /\ Debt(js, s, S) = Joined(sh)
  BY SharesTyped DEF Debt
<1> HIDE DEF parts, sh
<1>6. PICK f : Joining(parts, n, f) /\ Joined(parts) = f[n] /\ \A i \in 0 .. n : f[i] \in Seq(Jobs)
  BY Zenon, <1>3, JoinedTyped
<1> HIDE DEF n
<1> DEFINE g == [i \in 0 .. n |-> Debt(f[i], s, S)]
<1>7. \A i \in 0 .. n : g[i] = Debt(f[i], s, S)
  BY Zenon
<1> HIDE DEF g
<1>8. 0 \in 0 .. n /\ n \in 0 .. n /\ \A i \in 1 .. n : i \in 0 .. n /\ i - 1 \in 0 .. n
  BY <1>1
<1>9. Debt(<<>>, s, S) = <<>>
  <2>1. \A i \in DOMAIN <<>> : FALSE
    OBVIOUS
  <2> QED
    BY Zenon, <1>1, <2>1, DebtNone
<1>10. ASSUME NEW i \in 1 .. n PROVE g[i] = g[i - 1] \o sh[i]
  <2>1. f[i] = f[i - 1] \o parts[i] /\ f[i - 1] \in Seq(Jobs) /\ parts[i] \in Seq(Jobs)
    BY Zenon, <1>1, <1>4, <1>6, <1>8 DEF Joining
  <2>2. Debt(f[i], s, S) = Debt(f[i - 1], s, S) \o Debt(parts[i], s, S)
    <3>1. \A a, b \in Seq(Jobs) : Debt(a \o b, s, S) = Debt(a, s, S) \o Debt(b, s, S)
      BY DebtConcat
    <3> QED
      BY Zenon, <2>1, <3>1
  <2>3. Debt(parts[i], s, S) = sh[i]
    <3>1. CASE js[i] \in Full
      <4>1. parts[i] = <<js[i]>> /\ sh[i] = Share(js[i], s, S) /\ js[i] \in Jobs
        BY Zenon, <1>1, <1>4, <1>5, <3>1
      <4>2. Debt(<<js[i]>>, s, S) = Share(js[i], s, S)
        BY Zenon, <4>1, DebtOne
      <4> QED
        BY Zenon, <4>1, <4>2
    <3>2. CASE js[i] \notin Full
      <4>1. js[i].recs = <<>> /\ parts[i] = <<>>
        BY Zenon, <1>1, <1>4, <3>2
      <4>2. Share(js[i], s, S) = <<>>
        BY Zenon, <1>1, <4>1, ShareTyped
      <4> QED
        BY Zenon, <1>5, <1>9, <4>1, <4>2
    <3> QED
      BY Zenon, <3>1, <3>2
  <2> QED
    BY Zenon, <1>7, <1>8, <2>2, <2>3
<1>11. g[0] = <<>>
  BY Zenon, <1>6, <1>7, <1>8, <1>9 DEF Joining
<1>12. Joined(sh) = g[n]
  BY Zenon, <1>1, <1>5, <1>10, <1>11, JoinedBySteps DEF Joining
<1> QED
  BY Zenon, <1>2, <1>3, <1>5, <1>6, <1>7, <1>8, <1>12

-----------------------------------------------------------------------------
(* A package owes every sink what it wants of it *)

\* The turns of two nested loops are different.
LEMMA LoopTurns ==
  ASSUME NEW n \in Nat \ {0}, NEW k \in Nat \ {0}, NEW l \in Nat \ {0},
         Outer(k, n) = Outer(l, n), Inner(k, n) = Inner(l, n)
  PROVE  k = l
<1>1. /\ k - 1 = n * ((k - 1) \div n) + ((k - 1) % n)
      /\ l - 1 = n * ((l - 1) \div n) + ((l - 1) % n)
  OBVIOUS
<1>2. (k - 1) \div n = (l - 1) \div n /\ (k - 1) % n = (l - 1) % n
  <2>1. /\ (k - 1) \div n \in Int /\ (l - 1) \div n \in Int
        /\ (k - 1) % n \in Int /\ (l - 1) % n \in Int
    OBVIOUS
  <2> QED
    BY <2>1 DEF Outer, Inner
<1>3. k - 1 = l - 1
  BY Zenon, <1>1, <1>2
<1> QED
  BY <1>3

\* A turn of the loops for two elements.
HasTurn(n, m, a, b) == \E k \in 1 .. (m * n) : Outer(k, n) = a /\ Inner(k, n) = b

\* Every pair of elements has its turn.
LEMMA LoopReaches ==
  ASSUME NEW n \in Nat \ {0}, NEW m \in Nat, NEW a \in 1 .. m, NEW b \in 1 .. n
  PROVE  HasTurn(n, m, a, b)
<1> DEFINE p == a - 1
           k == p * n + b
<1>1. p \in Nat /\ p + 1 <= m /\ p * n \in Nat /\ m * n \in Nat
  OBVIOUS
<1>2. p * n + n <= m * n
  <2>1. (p + 1) * n <= m * n
    BY <1>1
  <2>2. (p + 1) * n = p * n + n
    BY <1>1
  <2> QED
    BY <2>1, <2>2
<1>3. k \in 1 .. (m * n)
  BY <1>1, <1>2
<1>4. (k - 1) \div n = p /\ (k - 1) % n = b - 1
  <2>1. k - 1 = p * n + (b - 1) /\ b - 1 \in 0 .. (n - 1)
    BY <1>1
  <2> QED
    BY <1>1, <2>1
<1>5. Outer(k, n) = a /\ Inner(k, n) = b
  BY <1>4 DEF Outer, Inner
<1> QED
  BY Zenon, <1>3, <1>5 DEF HasTurn

\* A hash map lists every rule of the package once.
LEMMA OrdersOnce ==
  ASSUME NEW pkg \in Seq(Records), NEW rules \in Orders(pkg)
  PROVE  /\ Len(rules) \in Nat
         /\ \A a \in 1 .. Len(rules) : rules[a] \in MetasOf(pkg)
         /\ \A a, b \in 1 .. Len(rules) : rules[a] = rules[b] => a = b
         /\ \A m \in MetasOf(pkg) : \E a \in 1 .. Len(rules) : rules[a] = m
<1>1. PICK n \in 0 .. Len(pkg) : rules \in [1 .. n -> MetasOf(pkg)]
  BY Zenon DEF Orders
<1>2. \A m \in MetasOf(pkg) :
        \E i \in DOMAIN rules : rules[i] = m /\ \A j \in DOMAIN rules : rules[j] = m => j = i
  BY Zenon DEF Orders
<1>3. Len(rules) = n /\ n \in Nat /\ DOMAIN rules = 1 .. n
  BY <1>1
<1>4. \A a \in 1 .. n : rules[a] \in MetasOf(pkg)
  BY Zenon, <1>1
<1>5. \A m \in MetasOf(pkg) : \E i \in 1 .. n : rules[i] = m /\ \A j \in 1 .. n : rules[j] = m => j = i
  BY <1>2, <1>3
<1>6. \A a, b \in 1 .. n : rules[a] = rules[b] => a = b
  BY Zenon, <1>4, <1>5
<1>7. \A m \in MetasOf(pkg) : \E a \in 1 .. n : rules[a] = m
  BY Zenon, <1>5
<1> QED
  BY Zenon, <1>3, <1>4, <1>6, <1>7

\* group_sink_package owes each sink the records of each rule that it wants.
LEMMA GroupJobsOwe ==
  ASSUME NEW pkg \in Seq(Records), phase = "engine", NEW rules \in Orders(pkg),
         NEW s \in Sinks, NEW m
  PROVE  Debt(NonEmpty(GroupJobs(pkg, rules)), s, OfRule(m))
           = Among(pkg, OfRule(m) \intersect Wants[s])
<1> DEFINE js == GroupJobs(pkg, rules)
           M == OfRule(m)
           W == M \intersect Wants[s]
           sh == Shares(js, s, M)
           n == Len(rules) * NSinks
<1>1. /\ Len(rules) \in Nat
      /\ \A a \in 1 .. Len(rules) : rules[a] \in MetasOf(pkg)
      /\ \A a, b \in 1 .. Len(rules) : rules[a] = rules[b] => a = b
      /\ \A x \in MetasOf(pkg) : \E a \in 1 .. Len(rules) : rules[a] = x
  BY OrdersOnce
<1>2. NSinks \in Nat \ {0} /\ Sinks = 1 .. NSinks /\ n \in Nat
  BY <1>1, GroupAssumption DEF Sinks
<1>3. js \in Seq(Jobs)
  BY Zenon, <1>1, GroupJobsTyped
<1>4. Len(js) = n
  <2>1. DOMAIN js = 1 .. n
    BY Zenon DEF GroupJobs
  <2> HIDE DEF js, n
  <2> QED
    BY <1>2, <1>3, <2>1
<1>5. /\ sh \in Seq(Seq(Records)) /\ Len(sh) = n
      /\ \A k \in 1 .. n : sh[k] = Share(js[k], s, M)
  <2>1. /\ sh \in Seq(Seq(Records)) /\ Len(sh) = Len(js)
        /\ \A k \in 1 .. Len(js) : sh[k] = Share(js[k], s, M)
    BY <1>3, SharesTyped
  <2> QED
    BY Zenon, <1>4, <2>1
<1>6. Debt(NonEmpty(js), s, M) = Joined(sh)
  BY Zenon, <1>3, DebtNonEmpty DEF Debt
<1>7. ASSUME NEW k \in 1 .. n
      PROVE  /\ Outer(k, NSinks) \in 1 .. Len(rules)
             /\ (Inner(k, NSinks) = s /\ rules[Outer(k, NSinks)] = m) => sh[k] = Among(pkg, W)
             /\ ~(Inner(k, NSinks) = s /\ rules[Outer(k, NSinks)] = m) => sh[k] = <<>>
  <2> DEFINE t == Inner(k, NSinks)
             x == rules[Outer(k, NSinks)]
             V == OfRule(x) \intersect Wants[t]
  <2>1. Outer(k, NSinks) \in 1 .. Len(rules)
    BY <1>1, <1>2, LoopBounds
  <2>2. js[k] = Job(t, Among(pkg, V))
    <3>1. \A i \in DOMAIN pkg : pkg[i] \in Records
      OBVIOUS
    <3>2. \A i \in DOMAIN pkg : BatchMeta(pkg[i]) = MetaOf[pkg[i]]
      BY Zenon DEF BatchMeta
    <3>3. {i \in DOMAIN pkg : BatchMeta(pkg[i]) = x /\ pkg[i] \in Wants[t]} = {i \in DOMAIN pkg : pkg[i] \in V}
      <4> HIDE DEF x, t
      <4> QED
        BY Zenon, <3>1, <3>2 DEF OfRule
    <3>4. js[k] = Job(t, Picked(pkg, {i \in DOMAIN pkg : BatchMeta(pkg[i]) = x /\ pkg[i] \in Wants[t]}))
      BY Zenon DEF GroupJobs
    <3> QED
      BY Zenon, <3>3, <3>4 DEF Among
  <2>3. sh[k] = IF t = s THEN Among(Among(pkg, V), M) ELSE <<>>
    <3>1. Job(t, Among(pkg, V)).sink = t /\ Job(t, Among(pkg, V)).recs = Among(pkg, V)
      BY DEF Job
    <3> QED
      BY Zenon, <1>5, <2>2, <3>1 DEF Share
  <2>4. Among(Among(pkg, V), M) = Among(pkg, V \intersect M)
    <3> HIDE DEF V, M
    <3> QED
      BY AmongAmong
  <2>5. t = s /\ x = m => V \intersect M = W
    BY Zenon
  <2>6. ASSUME x # m PROVE Among(pkg, V \intersect M) = <<>>
    <3>1. \A i \in 1 .. Len(pkg) : pkg[i] \notin V \intersect M
      BY Zenon, <2>6 DEF OfRule
    <3> QED
      BY Zenon, <3>1, AmongNone
  <2> HIDE DEF t, x, V, sh, M, W
  <2>7. (t = s /\ x = m) => sh[k] = Among(pkg, W)
    BY Zenon, <2>3, <2>4, <2>5
  <2>8. ~(t = s /\ x = m) => sh[k] = <<>>
    BY Zenon, <2>3, <2>4, <2>6
  <2> QED
    BY Zenon, <2>1, <2>7, <2>8 DEF t, x
<1> HIDE DEF sh, js, M, W, n
<1>8. CASE m \in MetasOf(pkg)
  <2>1. PICK a \in 1 .. Len(rules) : rules[a] = m
    BY Zenon, <1>1, <1>8
  <2>2. PICK k \in 1 .. n : Outer(k, NSinks) = a /\ Inner(k, NSinks) = s
    <3>1. \E k \in 1 .. (Len(rules) * NSinks) : Outer(k, NSinks) = a /\ Inner(k, NSinks) = s
      <4>1. s \in 1 .. NSinks /\ NSinks \in Nat \ {0} /\ Len(rules) \in Nat
        BY Zenon, <1>1, <1>2
      <4>2. HasTurn(NSinks, Len(rules), a, s)
        BY Zenon, <4>1, LoopReaches
      <4> QED
        BY Zenon, <4>2 DEF HasTurn
    <3> QED
      BY Zenon, <3>1 DEF n
  <2>3. ASSUME NEW l \in 1 .. n, l # k PROVE sh[l] = <<>>
    <3>1. ~(Inner(l, NSinks) = s /\ rules[Outer(l, NSinks)] = m)
      <4> SUFFICES ASSUME Inner(l, NSinks) = s, rules[Outer(l, NSinks)] = m PROVE FALSE
        BY Zenon
      <4>1. Outer(l, NSinks) = a
        BY Zenon, <1>1, <1>7, <2>1
      <4>2. k \in Nat \ {0} /\ l \in Nat \ {0}
        BY <1>2
      <4>3. l = k
        BY Zenon, <1>2, <2>2, <4>1, <4>2, LoopTurns
      <4> QED
        BY Zenon, <2>3, <4>3
    <3> QED
      BY Zenon, <1>7, <3>1
  <2>4. sh[k] = Among(pkg, W)
    BY Zenon, <1>7, <2>1, <2>2
  <2>5. Joined(sh) = sh[k]
    BY Zenon, <1>5, <2>3, JoinedAtOne
  <2> QED
    BY Zenon, <1>6, <2>4, <2>5 DEF js, M, W
<1>9. CASE m \notin MetasOf(pkg)
  <2>1. \A k \in 1 .. n : sh[k] = <<>>
    <3>1. ASSUME NEW k \in 1 .. n PROVE sh[k] = <<>>
      <4>1. Outer(k, NSinks) \in 1 .. Len(rules)
        BY Zenon, <1>7
      <4>2. rules[Outer(k, NSinks)] \in MetasOf(pkg)
        BY Zenon, <1>1, <4>1
      <4> QED
        BY Zenon, <1>7, <1>9, <4>2
    <3> QED
      BY Zenon, <3>1
  <2>2. Joined(sh) = <<>>
    BY Zenon, <1>2, <1>5, <2>1, JoinedEmpty
  <2>3. \A i \in 1 .. Len(pkg) : pkg[i] \notin W
    <3>1. DOMAIN pkg = 1 .. Len(pkg)
      OBVIOUS
    <3>2. \A i \in DOMAIN pkg : MetaOf[pkg[i]] # m
      BY Zenon, <1>9 DEF MetasOf, BatchMeta
    <3> QED
      BY Zenon, <3>1, <3>2 DEF W, M, OfRule
  <2>4. Among(pkg, W) = <<>>
    BY Zenon, <2>3, AmongNone
  <2> QED
    BY Zenon, <1>6, <2>2, <2>4 DEF js, M, W
<1> QED
  BY Zenon, <1>8, <1>9

-----------------------------------------------------------------------------
(* The segments of a package *)

\* How much of it the segments up to the i-th record hold.
Covered(recs, i) == IF i = 0 THEN 0 ELSE IF i > Len(recs) THEN Len(recs) ELSE LastEnd(recs, i)

\* A record in the run of the one before it ends the same segment.
LEMMA SameRun ==
  ASSUME NEW recs \in Seq(Records), NEW i \in 2 .. Len(recs), i \in Ends(recs, i - 1)
  PROVE  LastEnd(recs, i) = LastEnd(recs, i - 1)
<1> DEFINE h == i - 1
           d == LastEnd(recs, h)
           e == LastEnd(recs, i)
           B(k) == BatchMeta(recs[k])
<1>1. h \in 1 .. Len(recs) /\ i \in 1 .. Len(recs) /\ Len(recs) \in Nat
  OBVIOUS
<1>2. d \in Ends(recs, h) /\ d \in h .. Len(recs) /\ \A x \in Ends(recs, h) : x <= d
  BY Zenon, <1>1, SegmentEnds
<1>3. e \in Ends(recs, i) /\ e \in i .. Len(recs) /\ \A x \in Ends(recs, i) : x <= e
  BY Zenon, <1>1, SegmentEnds
<1> HIDE DEF d, e
<1>4. i <= d
  BY Zenon, <1>2
<1>5. B(i) = B(h)
  <2>1. i \in h .. i
    BY <1>1
  <2> QED
    BY Zenon, <2>1 DEF Ends
<1>6. d \in Ends(recs, i)
  <2>1. d \in i .. Len(recs) /\ \A k \in i .. d : k \in h .. d
    BY <1>1, <1>2, <1>4
  <2>2. \A k \in h .. d : B(k) = B(h)
    BY Zenon, <1>2 DEF Ends
  <2>3. \A k \in i .. d : B(k) = B(i)
    BY Zenon, <1>5, <2>1, <2>2
  <2> QED
    BY Zenon, <2>1, <2>3 DEF Ends
<1>7. e \in Ends(recs, h)
  <2>1. e \in h .. Len(recs) /\ \A k \in h .. e : k = h \/ k \in i .. e
    BY <1>1, <1>3
  <2>2. \A k \in i .. e : B(k) = B(i)
    BY Zenon, <1>3 DEF Ends
  <2>3. \A k \in h .. e : B(k) = B(h)
    BY Zenon, <1>5, <2>1, <2>2
  <2> QED
    BY Zenon, <2>1, <2>3 DEF Ends
<1>8. d <= e /\ e <= d
  BY Zenon, <1>2, <1>3, <1>6, <1>7
<1>9. d \in Int /\ e \in Int
  BY <1>1, <1>2, <1>3
<1>10. d = e
  BY <1>8, <1>9
<1> QED
  BY Zenon, <1>10 DEF d, e, h

\* Otherwise that one was the last of its segment.
LEMMA NewRun ==
  ASSUME NEW recs \in Seq(Records), NEW i \in 2 .. Len(recs), i \notin Ends(recs, i - 1)
  PROVE  LastEnd(recs, i - 1) = i - 1
<1> DEFINE h == i - 1
           d == LastEnd(recs, h)
<1>1. h \in 1 .. Len(recs) /\ Len(recs) \in Nat
  OBVIOUS
<1>2. d \in Ends(recs, h) /\ d \in h .. Len(recs)
  BY Zenon, <1>1, SegmentEnds
<1> HIDE DEF d
<1>3. ASSUME d # h PROVE i \in Ends(recs, h)
  <2>1. i \in h .. Len(recs) /\ \A k \in h .. i : k \in h .. d
    BY <1>1, <1>2, <1>3
  <2> QED
    BY Zenon, <1>2, <2>1 DEF Ends
<1> QED
  BY Zenon, <1>3 DEF d, h

\* The segments follow each other without a gap.
LEMMA SegmentStep ==
  ASSUME NEW recs \in Seq(Records), NEW i \in Nat \ {0}
  PROVE  SubSeq(recs, 1, Covered(recs, i))
           = SubSeq(recs, 1, Covered(recs, i - 1)) \o SegmentAt(recs, i)
<1> DEFINE n == Len(recs)
           seg == SegmentAt(recs, i)
<1>1. n \in Nat /\ i \in Nat /\ i - 1 \in Nat /\ SubSeq(recs, 1, n) = recs /\ recs \o <<>> = recs
  OBVIOUS
<1>2. seg = IF i > n \/ (i > 1 /\ i \in Ends(recs, i - 1)) THEN <<>>
            ELSE SubSeq(recs, i, LastEnd(recs, i))
  BY Zenon, SegmentAtIs
<1>3. \A c \in 0 .. n : SubSeq(recs, 1, c) \o <<>> = SubSeq(recs, 1, c)
  OBVIOUS
<1>4. \A c \in 1 .. n, e \in 1 .. n : c <= e => SubSeq(recs, 1, e) = SubSeq(recs, 1, c - 1) \o SubSeq(recs, c, e)
  OBVIOUS
<1> HIDE DEF n
<1>5. CASE i > n
  <2>1. seg = <<>>
    BY Zenon, <1>2, <1>5
  <2>2. Covered(recs, i) = n
    <3>1. i # 0
      OBVIOUS
    <3> QED
      BY Zenon, <1>5, <3>1 DEF Covered, n
  <2>3. Covered(recs, i - 1) = n
    <3>1. CASE i - 1 = 0
      <4>1. n = 0
        BY <1>1, <1>5, <3>1
      <4> QED
        BY Zenon, <3>1, <4>1 DEF Covered
    <3>2. CASE i - 1 # 0 /\ i - 1 > n
      BY Zenon, <3>2 DEF Covered, n
    <3>3. CASE i - 1 # 0 /\ ~(i - 1 > n)
      <4>1. i - 1 = n /\ i - 1 \in 1 .. n
        BY <1>1, <1>5, <3>3
      <4>2. LastEnd(recs, i - 1) \in (i - 1) .. n
        BY Zenon, <4>1, SegmentEnds DEF n
      <4>3. LastEnd(recs, i - 1) = n
        BY <1>1, <4>1, <4>2
      <4> QED
        BY Zenon, <3>3, <4>3 DEF Covered, n
    <3> QED
      BY Zenon, <3>1, <3>2, <3>3
  <2> QED
    BY Zenon, <1>1, <2>1, <2>2, <2>3
<1>6. CASE ~(i > n)
  <2>1. i \in 1 .. n /\ i # 0
    BY <1>1, <1>6
  <2>2. Covered(recs, i) = LastEnd(recs, i)
    BY Zenon, <1>6, <2>1 DEF Covered, n
  <2>3. LastEnd(recs, i) \in i .. n
    BY Zenon, <2>1, SegmentEnds DEF n
  <2>4. LastEnd(recs, i) \in 1 .. n /\ LastEnd(recs, i) \in 0 .. n /\ i <= LastEnd(recs, i)
    BY <1>1, <2>1, <2>3
  <2>5. CASE i = 1
    <3>1. seg = SubSeq(recs, i, LastEnd(recs, i))
      <4>1. ~(i > 1)
        BY <2>5
      <4> QED
        BY Zenon, <1>2, <1>6, <4>1
    <3>2. Covered(recs, i - 1) = i - 1
      <4>1. i - 1 = 0
        BY <2>5
      <4> QED
        BY Zenon, <4>1 DEF Covered
    <3> QED
      BY Zenon, <1>4, <2>1, <2>2, <2>4, <3>1, <3>2
  <2>6. CASE i # 1
    <3>1. i \in 2 .. n /\ i > 1 /\ i - 1 # 0 /\ ~(i - 1 > n)
      BY <1>1, <2>1, <2>6
    <3>2. Covered(recs, i - 1) = LastEnd(recs, i - 1)
      BY Zenon, <3>1 DEF Covered, n
    <3>3. CASE i \in Ends(recs, i - 1)
      <4>1. LastEnd(recs, i) = LastEnd(recs, i - 1)
        BY Zenon, <3>1, <3>3, SameRun DEF n
      <4>2. seg = <<>>
        BY Zenon, <1>2, <3>1, <3>3
      <4> QED
        BY Zenon, <1>3, <2>2, <2>4, <3>2, <4>1, <4>2
    <3>4. CASE i \notin Ends(recs, i - 1)
      <4>1. LastEnd(recs, i - 1) = i - 1
        BY Zenon, <3>1, <3>4, NewRun DEF n
      <4>2. seg = SubSeq(recs, i, LastEnd(recs, i))
        BY Zenon, <1>2, <1>6, <3>4
      <4> QED
        BY Zenon, <1>4, <2>1, <2>2, <2>4, <3>2, <4>1, <4>2
    <3> QED
      BY Zenon, <3>3, <3>4
  <2> QED
    BY Zenon, <2>5, <2>6
<1> QED
  BY Zenon, <1>5, <1>6

\* The segments up to the last record, or further, hold the package.
LEMMA AllCovered ==
  ASSUME NEW recs \in Seq(Records), NEW i \in Nat, Len(recs) <= i
  PROVE  Covered(recs, i) = Len(recs)
<1> DEFINE n == Len(recs)
<1>1. n \in Nat
  OBVIOUS
<1>2. CASE i = 0
  <2>1. n = 0
    BY <1>1, <1>2
  <2> QED
    BY Zenon, <1>2, <2>1 DEF Covered
<1>3. CASE i # 0 /\ i > n
  BY Zenon, <1>3 DEF Covered
<1>4. CASE i # 0 /\ ~(i > n)
  <2>1. i = n /\ i \in 1 .. n
    BY <1>1, <1>4
  <2>2. LastEnd(recs, i) \in i .. n
    BY Zenon, <2>1, SegmentEnds
  <2> HIDE DEF n
  <2>3. LastEnd(recs, i) = n
    BY <1>1, <2>1, <2>2
  <2> QED
    BY Zenon, <1>4, <2>3 DEF Covered, n
<1> QED
  BY Zenon, <1>2, <1>3, <1>4

\* From one turn of two nested loops to the next.
LEMMA LoopNext ==
  ASSUME NEW n \in Nat \ {0}, NEW k \in Nat, k > 1
  PROVE  \/ Outer(k - 1, n) = Outer(k, n) /\ Inner(k - 1, n) = Inner(k, n) - 1
         \/ Outer(k - 1, n) = Outer(k, n) - 1 /\ Inner(k - 1, n) = n /\ Inner(k, n) = 1
<1> DEFINE q == (k - 1) \div n
           r == (k - 1) % n
           p == (k - 2) \div n
           t == (k - 2) % n
<1>1. /\ q \in Nat /\ r \in 0 .. (n - 1) /\ k - 1 = n * q + r
      /\ p \in Nat /\ t \in 0 .. (n - 1) /\ k - 2 = n * p + t
  OBVIOUS
<1>2. /\ Outer(k, n) = q + 1 /\ Inner(k, n) = r + 1
      /\ Outer(k - 1, n) = p + 1 /\ Inner(k - 1, n) = t + 1
  <2>1. (k - 1) - 1 = k - 2
    OBVIOUS
  <2> QED
    BY <2>1 DEF Outer, Inner
<1> HIDE DEF q, r, p, t
<1>3. n * q + r = n * p + t + 1 /\ n * q \in Nat /\ n * p \in Nat
  BY <1>1
<1>4. q = p \/ q = p + 1
  <2>1. CASE q < p
    <3>1. q + 1 <= p /\ n * (q + 1) <= n * p /\ n * (q + 1) = n * q + n
      BY <1>1, <2>1
    <3> QED
      BY <1>1, <1>3, <3>1
  <2>2. CASE q > p + 1
    <3>1. p + 2 <= q /\ n * (p + 2) <= n * q /\ n * (p + 2) = n * p + n + n
      BY <1>1, <2>2
    <3> QED
      BY <1>1, <1>3, <3>1
  <2> QED
    BY <1>1, <2>1, <2>2
<1>5. CASE q = p
  <2>1. r = t + 1
    BY <1>1, <1>3, <1>5
  <2> QED
    BY <1>1, <1>2, <1>5, <2>1
<1>6. CASE q = p + 1
  <2>1. n * q = n * p + n
    BY <1>1, <1>6
  <2>2. r = 0 /\ t = n - 1
    BY <1>1, <1>3, <2>1
  <2> QED
    BY <1>1, <1>2, <1>6, <2>2
<1> QED
  BY <1>4, <1>5, <1>6

\* Choosing makes a sequence no longer.
LEMMA AmongShorter ==
  ASSUME NEW S, NEW seq \in Seq(S), NEW T
  PROVE  Len(Among(seq, T)) <= Len(seq)
<1> DEFINE n == Len(seq)
           parts == Parts(seq, T)
<1>1. n \in Nat /\ <<>> \in Seq(S) /\ \A i \in 1 .. n : <<seq[i]>> \in Seq(S)
  OBVIOUS
<1>2. parts \in Seq(Seq(S)) /\ Len(parts) = n /\ Among(seq, T) = Joined(parts)
  BY Zenon, AmongIsJoined
<1>3. \A i \in 1 .. n : parts[i] \in Seq(S) /\ Len(parts[i]) <= 1
  <2>1. \A e : Len(<<e>>) <= 1
    OBVIOUS
  <2>2. Len(<<>>) <= 1
    OBVIOUS
  <2> QED
    BY Zenon, <1>1, <2>1, <2>2 DEF Parts
<1> HIDE DEF parts
<1>4. PICK f : Joining(parts, n, f) /\ Joined(parts) = f[n] /\ \A i \in 0 .. n : f[i] \in Seq(S)
  BY Zenon, <1>2, JoinedTyped
<1> HIDE DEF n
<1> DEFINE Good == {m \in 0 .. n : Len(f[m]) <= m}
<1>5. 0 \in 0 .. n /\ n \in 0 .. n /\ \A m \in 1 .. n : m \in 0 .. n /\ m - 1 \in 0 .. n
  BY <1>1
<1>6. 0 \in Good
  <2>1. f[0] = <<>>
    BY Zenon, <1>4 DEF Joining
  <2>2. Len(f[0]) <= 0
    BY <2>1
  <2> QED
    BY Zenon, <1>5, <2>2
<1>7. ASSUME NEW m \in 1 .. n, m - 1 \in Good PROVE m \in Good
  <2> DEFINE a == f[m - 1]
             b == parts[m]
  <2>1. /\ f[m] = a \o b /\ a \in Seq(S) /\ b \in Seq(S) /\ Len(b) <= 1
        /\ Len(a) <= m - 1
    BY Zenon, <1>3, <1>4, <1>5, <1>7 DEF Joining
  <2> HIDE DEF a, b
  <2>2. Len(f[m]) = Len(a) + Len(b) /\ Len(a) \in Nat /\ Len(b) \in Nat
    BY <2>1
  <2>3. Len(f[m]) <= m
    BY <1>1, <2>1, <2>2
  <2> QED
    BY Zenon, <1>5, <2>3
<1> HIDE DEF Good
<1>8. \A m \in 0 .. n : m \in Good
  BY Zenon, <1>1, <1>6, <1>7, UpTo
<1> QED
  BY Zenon, <1>2, <1>4, <1>5, <1>8 DEF Good, n

\* The records whose replica a sink is, among the sinks of its name.
Own(s) == {r \in Records : ReplicaOf(r, NameOf[s]) = s}

\* The jobs of the infra task are the segments of what each sink is given.
LEMMA InfraJobIs ==
  ASSUME NEW pkg \in Seq(Records), NEW k \in 1 .. (NSinks * Len(pkg))
  PROVE  LET s == Outer(k, Len(pkg))
         IN  InfraJobs(pkg)[k] = Job(s, SegmentAt(Among(pkg, Own(s)), Inner(k, Len(pkg))))
<1> DEFINE s == Outer(k, Len(pkg))
<1>1. \A i \in DOMAIN pkg : pkg[i] \in Records
  OBVIOUS
<1>2. {i \in DOMAIN pkg : ReplicaOf(pkg[i], NameOf[s]) = s} = {i \in DOMAIN pkg : pkg[i] \in Own(s)}
  BY Zenon, <1>1 DEF Own
<1>3. InfraJobs(pkg)[k]
        = Job(s, SegmentAt(Picked(pkg, {i \in DOMAIN pkg : ReplicaOf(pkg[i], NameOf[s]) = s}),
                           Inner(k, Len(pkg))))
  BY Zenon DEF InfraJobs
<1> QED
  BY Zenon, <1>2, <1>3 DEF Among

\* How much of the n records of sink s the first k turns have cut, when the
\* inner loop has l turns.
CutOff(own, s, l, k) ==
  IF k = 0 THEN 0
  ELSE IF Outer(k, l) < s THEN 0
  ELSE IF Outer(k, l) = s THEN Covered(own, Inner(k, l)) ELSE Len(own)

\* The k-th turn cuts the next segment, if it is one of the sink's.
CutsNext(own, s, l, k) ==
  SubSeq(own, 1, CutOff(own, s, l, k))
    = SubSeq(own, 1, CutOff(own, s, l, k - 1))
        \o (IF Outer(k, l) = s THEN SegmentAt(own, Inner(k, l)) ELSE <<>>)

\* Every turn does.
LEMMA CutOffStep ==
  ASSUME NEW own \in Seq(Records), NEW s \in Nat \ {0}, NEW l \in Nat \ {0}, Len(own) <= l,
         NEW k \in Nat \ {0}
  PROVE  CutsNext(own, s, l, k)
<1> DEFINE o == Outer(k, l)
           j == Inner(k, l)
           c == Len(own)
           P(x) == SubSeq(own, 1, x)
<1>1. c \in Nat /\ P(0) \o <<>> = P(0) /\ P(c) \o <<>> = P(c)
  OBVIOUS
<1>2. o \in Nat \ {0} /\ j \in 1 .. l
  BY DEF Outer, Inner
<1>3. \A i \in Nat \ {0} : P(Covered(own, i)) = P(Covered(own, i - 1)) \o SegmentAt(own, i)
  BY Zenon, SegmentStep
<1>4. Covered(own, 0) = 0
  BY Zenon DEF Covered
<1>5. Covered(own, l) = c
  <2>1. l \in Nat
    OBVIOUS
  <2> QED
    BY Zenon, <2>1, AllCovered
<1>6. j \in Nat \ {0} /\ k # 0
  BY <1>2
<1> HIDE DEF o, j, c, P
<1> DEFINE e == CutOff(own, s, l, k)
           d == CutOff(own, s, l, k - 1)
<1>7. e = IF o < s THEN 0 ELSE IF o = s THEN Covered(own, j) ELSE c
  BY Zenon, <1>6 DEF CutOff, o, j, c
<1>8. \/ (o < s) /\ ~(o = s)
      \/ ~(o < s) /\ o = s
      \/ ~(o < s) /\ ~(o = s)
  BY <1>2
<1>9. CASE k = 1
  <2>1. o = 1 /\ j = 1
    BY <1>9 DEF o, j, Outer, Inner
  <2>2. d = 0
    <3>1. k - 1 = 0
      BY <1>9
    <3> QED
      BY Zenon, <3>1 DEF CutOff
  <2>3. ~(~(o < s) /\ ~(o = s)) /\ j - 1 = 0
    BY <2>1
  <2> HIDE DEF e, d
  <2>4. P(e) = P(d) \o (IF o = s THEN SegmentAt(own, j) ELSE <<>>)
    BY Zenon, <1>1, <1>3, <1>4, <1>6, <1>7, <1>8, <2>2, <2>3
  <2> QED
    BY Zenon, <2>4 DEF P, e, d, o, j, CutsNext
<1>10. CASE k # 1
  <2> DEFINE oo == Outer(k - 1, l)
             jj == Inner(k - 1, l)
  <2>1. k > 1 /\ k - 1 # 0 /\ k \in Nat
    BY <1>10
  <2>2. (oo = o /\ jj = j - 1) \/ (oo = o - 1 /\ jj = l /\ j = 1)
    BY Zenon, <2>1, LoopNext DEF o, j
  <2>3. d = IF oo < s THEN 0 ELSE IF oo = s THEN Covered(own, jj) ELSE c
    BY Zenon, <2>1 DEF CutOff, c
  <2> HIDE DEF oo, jj, e, d
  <2>4. P(e) = P(d) \o (IF o = s THEN SegmentAt(own, j) ELSE <<>>)
    <3>1. CASE oo = o /\ jj = j - 1
      <4>1. CASE (o < s) /\ ~(o = s)
        BY Zenon, <1>1, <1>7, <2>3, <3>1, <4>1
      <4>2. CASE ~(o < s) /\ o = s
        BY Zenon, <1>3, <1>6, <1>7, <2>3, <3>1, <4>2
      <4>3. CASE ~(o < s) /\ ~(o = s)
        BY Zenon, <1>1, <1>7, <2>3, <3>1, <4>3
      <4> QED
        BY Zenon, <1>8, <4>1, <4>2, <4>3
    <3>2. CASE oo = o - 1 /\ jj = l /\ j = 1
      <4>1. CASE (o < s) /\ ~(o = s)
        <5>1. oo < s
          BY <1>2, <3>2, <4>1
        <5> QED
          BY Zenon, <1>1, <1>7, <2>3, <4>1, <5>1
      <4>2. CASE ~(o < s) /\ o = s
        <5>1. oo < s /\ j - 1 = 0
          BY <1>2, <3>2, <4>2
        <5> QED
          BY Zenon, <1>3, <1>4, <1>6, <1>7, <2>3, <4>2, <5>1
      <4>3. CASE ~(o < s) /\ ~(o = s)
        <5>1. ~(oo < s)
          BY <1>2, <3>2, <4>3
        <5> QED
          BY Zenon, <1>1, <1>5, <1>7, <2>3, <3>2, <4>3, <5>1
      <4> QED
        BY Zenon, <1>8, <4>1, <4>2, <4>3
    <3> QED
      BY Zenon, <2>2, <3>1, <3>2
  <2> QED
    BY Zenon, <2>4 DEF P, e, d, o, j, CutsNext
<1> QED
  BY Zenon, <1>9, <1>10

\* group_sink_batch_direct owes each sink the records it is the replica for.
LEMMA InfraJobsOwe ==
  ASSUME NEW pkg \in Seq(Records), NEW s \in Sinks
  PROVE  Debt(NonEmpty(InfraJobs(pkg)), s, Records) = Among(pkg, Own(s))
<1> DEFINE js == InfraJobs(pkg)
           own == Among(pkg, Own(s))
           l == Len(pkg)
           n == NSinks * l
           sh == Shares(js, s, Records)
           g == [k \in 0 .. n |-> SubSeq(own, 1, CutOff(own, s, l, k))]
<1>1. NSinks \in Nat \ {0} /\ s \in 1 .. NSinks /\ s \in Nat \ {0} /\ l \in Nat /\ n \in Nat
  BY GroupAssumption DEF Sinks
<1>2. js \in Seq(Jobs)
  BY Zenon, InfraJobsTyped
<1>3. Len(js) = n
  <2>1. DOMAIN js = 1 .. n
    BY Zenon DEF InfraJobs
  <2> HIDE DEF js, n
  <2> QED
    BY <1>1, <1>2, <2>1
<1>4. /\ sh \in Seq(Seq(Records)) /\ Len(sh) = n
      /\ \A k \in 1 .. n : sh[k] = Share(js[k], s, Records)
  <2>1. /\ sh \in Seq(Seq(Records)) /\ Len(sh) = Len(js)
        /\ \A k \in 1 .. Len(js) : sh[k] = Share(js[k], s, Records)
    BY <1>2, SharesTyped
  <2> QED
    BY Zenon, <1>3, <2>1
<1>5. Debt(NonEmpty(js), s, Records) = Joined(sh)
  BY Zenon, <1>2, DebtNonEmpty DEF Debt
<1>6. own \in Seq(Records) /\ Len(own) <= l
  BY Zenon, AmongIsJoined, AmongShorter
<1>7. ASSUME NEW k \in 1 .. n
      PROVE  /\ l \in Nat \ {0} /\ k \in Nat \ {0}
             /\ sh[k] = IF Outer(k, l) = s THEN SegmentAt(own, Inner(k, l)) ELSE <<>>
  <2> DEFINE t == Outer(k, l)
             seg == SegmentAt(Among(pkg, Own(t)), Inner(k, l))
  <2>1. l # 0 /\ Inner(k, l) \in 1 .. l /\ k \in Nat \ {0}
    <3>1. NSinks \in Nat /\ k \in 1 .. (NSinks * l) /\ k \in Nat \ {0}
      BY <1>1
    <3> QED
      BY Zenon, <1>1, <3>1, LoopBounds
  <2>2. l \in Nat \ {0} /\ Inner(k, l) \in Nat \ {0}
    BY <1>1, <2>1
  <2>3. js[k] = Job(t, seg)
    BY InfraJobIs
  <2>4. seg \in Seq(Records)
    BY Zenon, <2>2, AmongIsJoined, SegmentAtTyped
  <2> HIDE DEF seg, t
  <2>5. Among(seg, Records) = seg
    BY <2>4, AmongAll
  <2>6. Job(t, seg).sink = t /\ Job(t, seg).recs = seg
    BY DEF Job
  <2>7. sh[k] = IF t = s THEN seg ELSE <<>>
    BY Zenon, <1>4, <2>3, <2>5, <2>6 DEF Share
  <2> QED
    BY Zenon, <2>1, <2>2, <2>7 DEF t, seg
<1>8. \A k \in 0 .. n : g[k] = SubSeq(own, 1, CutOff(own, s, l, k))
  BY Zenon
<1> HIDE DEF g, sh, js, own, l
<1>9. 0 \in 0 .. n /\ n \in 0 .. n /\ \A k \in 1 .. n : k \in 0 .. n /\ k - 1 \in 0 .. n
  BY <1>1
<1>10. SubSeq(own, 1, 0) = <<>> /\ SubSeq(own, 1, Len(own)) = own
  BY <1>6
<1>11. g[0] = <<>>
  <2>1. CutOff(own, s, l, 0) = 0
    BY Zenon DEF CutOff
  <2> QED
    BY Zenon, <1>8, <1>9, <1>10, <2>1
<1>12. ASSUME NEW k \in 1 .. n PROVE g[k] = g[k - 1] \o sh[k]
  <2>1. /\ l \in Nat \ {0} /\ k \in Nat \ {0}
        /\ sh[k] = IF Outer(k, l) = s THEN SegmentAt(own, Inner(k, l)) ELSE <<>>
    BY Zenon, <1>7
  <2>2. CutsNext(own, s, l, k)
    BY Zenon, <1>1, <1>6, <2>1, CutOffStep
  <2> QED
    BY Zenon, <1>8, <1>9, <2>1, <2>2 DEF CutsNext
<1>13. Joined(sh) = g[n]
  <2>1. Joining(sh, n, g)
    BY Zenon, <1>11, <1>12 DEF Joining
  <2> QED
    BY Zenon, <1>1, <1>4, <2>1, JoinedBySteps
<1>14. CutOff(own, s, l, n) = Len(own)
  <2>1. Len(own) \in Nat
    BY <1>6
  <2>2. CASE l = 0
    <3>1. n = 0 /\ Len(own) = 0
      BY <1>1, <1>6, <2>1, <2>2
    <3> QED
      BY Zenon, <3>1 DEF CutOff
  <2>3. CASE l # 0
    <3>1. n \in 1 .. n /\ n # 0
      BY <1>1, <2>3
    <3>2. Outer(n, l) = NSinks /\ Inner(n, l) = l
      <4>1. n - 1 = (NSinks - 1) * l + (l - 1)
        BY <1>1
      <4>2. (n - 1) \div l = NSinks - 1 /\ (n - 1) % l = l - 1
        BY <1>1, <2>3, <4>1
      <4> QED
        BY <1>1, <4>2 DEF Outer, Inner
    <3>3. ~(Outer(n, l) < s)
      BY <1>1, <3>2
    <3>4. Covered(own, l) = Len(own)
      BY Zenon, <1>1, <1>6, AllCovered
    <3> QED
      BY Zenon, <3>1, <3>2, <3>3, <3>4 DEF CutOff
  <2> QED
    BY Zenon, <2>2, <2>3
<1>15. g[n] = own
  BY Zenon, <1>8, <1>9, <1>10, <1>14
<1> QED
  BY Zenon, <1>5, <1>13, <1>15 DEF js, own

-----------------------------------------------------------------------------
(* Records come in the order of their event ids *)

Rising(q) == \A i, j \in 1 .. Len(q) : i < j => q[i] < q[j]
Before(a, b) == \A i \in 1 .. Len(a), j \in 1 .. Len(b) : a[i] < b[j]

\* A sequence that rises is increasing.
LEMMA RisingIncreases ==
  ASSUME NEW q \in Seq(Records), Rising(q)
  PROVE  Increasing(q)
<1>1. \A i \in 2 .. Len(q) : i \in 1 .. Len(q) /\ i - 1 \in 1 .. Len(q) /\ i - 1 < i
  OBVIOUS
<1> QED
  BY Zenon, <1>1 DEF Rising, Increasing

\* Side by side, both rise, and one comes before the other.
LEMMA RisingConcat ==
  ASSUME NEW a \in Seq(Records), NEW b \in Seq(Records)
  PROVE  Rising(a \o b) <=> Rising(a) /\ Rising(b) /\ Before(a, b)
<1> DEFINE c == a \o b
           n == Len(a)
           k == Len(b)
<1>1. /\ n \in Nat /\ k \in Nat /\ Len(c) = n + k
      /\ \A i \in 1 .. n : c[i] = a[i]
      /\ \A i \in 1 .. k : c[n + i] = b[i]
  OBVIOUS
<1> HIDE DEF c, n, k
<1>2. /\ \A i \in 1 .. n : i \in 1 .. (n + k)
      /\ \A j \in 1 .. k : n + j \in 1 .. (n + k)
      /\ \A i \in 1 .. n, j \in 1 .. k : i < n + j
      /\ \A i, j \in 1 .. k : i < j => n + i < n + j
  BY <1>1
<1>3. ASSUME Rising(c) PROVE Rising(a) /\ Rising(b) /\ Before(a, b)
  <2>1. \A i, j \in 1 .. (n + k) : i < j => c[i] < c[j]
    BY Zenon, <1>1, <1>3 DEF Rising
  <2> QED
    BY Zenon, <1>1, <1>2, <2>1 DEF Rising, Before, n, k
<1>4. ASSUME Rising(a), Rising(b), Before(a, b) PROVE Rising(c)
  <2>1. ASSUME NEW i \in 1 .. (n + k), NEW j \in 1 .. (n + k), i < j PROVE c[i] < c[j]
    <3>1. CASE j \in 1 .. n
      <4>1. i \in 1 .. n
        BY <1>1, <2>1, <3>1
      <4> QED
        BY Zenon, <1>1, <1>4, <2>1, <3>1, <4>1 DEF Rising, n
    <3>2. CASE i \in 1 .. n /\ j \notin 1 .. n
      <4>1. j - n \in 1 .. k /\ n + (j - n) = j
        BY <1>1, <2>1, <3>2
      <4> QED
        BY Zenon, <1>1, <1>4, <3>2, <4>1 DEF Before, n, k
    <3>3. CASE i \notin 1 .. n /\ j \notin 1 .. n
      <4>1. /\ j - n \in 1 .. k /\ n + (j - n) = j /\ i - n \in 1 .. k /\ n + (i - n) = i
            /\ i - n < j - n
        BY <1>1, <2>1, <3>3
      <4> QED
        BY Zenon, <1>1, <1>4, <4>1 DEF Rising, k
    <3>4. i \in 1 .. n \/ j \in 1 .. n => i \in 1 .. n
      BY <1>1, <2>1
    <3> QED
      BY Zenon, <3>1, <3>2, <3>3
  <2> QED
    BY Zenon, <1>1, <2>1 DEF Rising
<1> QED
  BY Zenon, <1>3, <1>4 DEF c

\* What is chosen from a rising sequence rises.
LEMMA AmongRises ==
  ASSUME NEW seq \in Seq(Records), Rising(seq), NEW T
  PROVE  Rising(Among(seq, T))
<1> DEFINE n == Len(seq)
           parts == Parts(seq, T)
           Ahead(q, m) == \A i \in 1 .. Len(q), k \in (m + 1) .. n : q[i] < seq[k]
<1>1. n \in Nat /\ \A i \in 1 .. n : seq[i] \in Records /\ <<seq[i]>> \in Seq(Records)
  OBVIOUS
<1>2. parts \in Seq(Seq(Records)) /\ Len(parts) = n /\ Among(seq, T) = Joined(parts)
  BY Zenon, AmongIsJoined
<1>3. \A i \in 1 .. n : parts[i] = IF seq[i] \in T THEN <<seq[i]>> ELSE <<>>
  BY Zenon DEF Parts
<1> HIDE DEF parts
<1>4. PICK f : /\ Joining(parts, n, f) /\ Joined(parts) = f[n]
               /\ \A i \in 0 .. n : f[i] \in Seq(Records)
  BY Zenon, <1>2, JoinedTyped
<1> HIDE DEF n
<1> DEFINE Good == {m \in 0 .. n : Rising(f[m]) /\ Ahead(f[m], m)}
<1>5. 0 \in 0 .. n /\ n \in 0 .. n /\ \A m \in 1 .. n : m \in 0 .. n /\ m - 1 \in 0 .. n
  BY <1>1
<1>6. 0 \in Good
  <2>1. f[0] = <<>>
    BY Zenon, <1>4 DEF Joining
  <2>2. 1 .. Len(f[0]) = {}
    BY <2>1
  <2> QED
    BY Zenon, <1>5, <2>2 DEF Rising
<1>7. ASSUME NEW m \in 1 .. n, m - 1 \in Good PROVE m \in Good
  <2> DEFINE q == f[m - 1]
             e == seq[m]
  <2>1. f[m] = q \o parts[m] /\ q \in Seq(Records) /\ Rising(q) /\ Ahead(q, m - 1)
    BY Zenon, <1>4, <1>5, <1>7 DEF Joining
  <2>2. e \in Records
    BY Zenon, <1>1
  <2>3. \A i \in 1 .. Len(q) : q[i] < e
    <3>1. m \in ((m - 1) + 1) .. n
      BY <1>1
    <3> QED
      BY Zenon, <2>1, <3>1
  <2>4. Ahead(q, m)
    <3>1. \A k \in (m + 1) .. n : k \in ((m - 1) + 1) .. n
      BY <1>1
    <3> QED
      BY Zenon, <2>1, <3>1
  <2>5. \A k \in (m + 1) .. n : e < seq[k]
    <3>1. \A k \in (m + 1) .. n : k \in 1 .. n /\ m < k
      BY <1>1
    <3> QED
      BY Zenon, <3>1 DEF Rising, n
  <2> HIDE DEF q, e
  <2>6. CASE seq[m] \notin T
    <3>1. f[m] = q
      BY Zenon, <1>3, <2>1, <2>6, ConcatLaws
    <3> QED
      BY Zenon, <1>5, <2>1, <2>4, <3>1
  <2>7. CASE seq[m] \in T
    <3> DEFINE p == <<e>>
               c == q \o p
    <3>1. p \in Seq(Records) /\ Len(p) = 1 /\ \A i \in 1 .. Len(p) : p[i] = e /\ i = 1
      BY <2>2
    <3>2. f[m] = q \o p
      BY Zenon, <1>3, <2>1, <2>7 DEF e
    <3> HIDE DEF p
    <3>3. Rising(p)
      <4>1. ~(1 < 1)
        OBVIOUS
      <4> QED
        BY Zenon, <3>1, <4>1 DEF Rising
    <3>4. Before(q, p)
      BY Zenon, <2>3, <3>1 DEF Before
    <3>5. Rising(c)
      BY Zenon, <2>1, <3>1, <3>3, <3>4, RisingConcat
    <3>6. \A i \in 1 .. Len(c) : c[i] = e \/ \E h \in 1 .. Len(q) : c[i] = q[h]
      <4>1. \A a \in Seq(Records), x \in Records :
              /\ a \o <<x>> = Append(a, x)
              /\ \A i \in 1 .. Len(Append(a, x)) :
                   Append(a, x)[i] = x \/ \E h \in 1 .. Len(a) : Append(a, x)[i] = a[h]
        OBVIOUS
      <4>2. c = Append(q, e)
        BY Zenon, <2>1, <2>2, <4>1 DEF p
      <4> HIDE DEF c
      <4> QED
        BY Zenon, <2>1, <2>2, <4>1, <4>2
    <3> HIDE DEF c
    <3>7. Ahead(c, m)
      BY Zenon, <2>4, <2>5, <3>6
    <3> QED
      BY Zenon, <1>5, <3>2, <3>5, <3>7 DEF c
  <2> QED
    BY Zenon, <2>6, <2>7
<1> HIDE DEF Good
<1>8. \A m \in 0 .. n : m \in Good
  BY Zenon, <1>1, <1>6, <1>7, UpTo
<1> QED
  BY Zenon, <1>2, <1>4, <1>5, <1>8 DEF Good

=============================================================================

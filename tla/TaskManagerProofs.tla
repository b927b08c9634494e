-------------------------- MODULE TaskManagerProofs --------------------------
(***************************************************************************)
(* Proofs about TaskManager, for any number of events, any capacity of the *)
(* channels and any number of reloads.                                     *)
(***************************************************************************)
EXTENDS TaskManager, WellFoundedInduction, TLAPS

-----------------------------------------------------------------------------
(* What the registry retains *)

\* Every non-empty set of natural numbers has a least element: the induction
\* principle used below.
LEMMA LeastNatural ==
  ASSUME NEW T, T \subseteq Nat, T # {}
  PROVE  \E n \in T : \A m \in T : n <= m
<1> DEFINE less == OpToRel(<, Nat)
<1>1. PICK n \in T : \A m \in T : ~ (<<m, n>> \in less)
  <2>1. IsWellFoundedOn(less, Nat)
    BY NatLessThanWellFounded
  <2> HIDE DEF less
  <2> QED
    BY <2>1, WFMin
<1>2. less = {ss \in Nat \X Nat : ss[1] < ss[2]}
  BY DEF OpToRel
<1>3. \A m \in T : ~(m < n)
  <2> SUFFICES ASSUME NEW m \in T, m < n PROVE <<m, n>> \in less
    BY <1>1
  <2> HIDE DEF less
  <2>1. <<m, n>> \in Nat \X Nat
    OBVIOUS
  <2> QED
    BY <1>2, <2>1
<1> QED
  BY <1>3

\* The recursion of Retained, up to the n-th element.
Keeping(seq, S, n, f) ==
  f = [i \in 0 .. n |->
         IF i = 0 THEN <<>>
         ELSE IF seq[i] \in S THEN Append(f[i - 1], seq[i]) ELSE f[i - 1]]

\* The recursion has a solution.
LEMMA KeepingExists ==
  ASSUME NEW seq, NEW S, NEW n \in Nat
  PROVE  \E f : Keeping(seq, S, n, f)
<1> DEFINE Bad == {m \in Nat : ~ \E f : Keeping(seq, S, m, f)}
<1> SUFFICES ASSUME Bad # {} PROVE FALSE
  OBVIOUS
<1>1. PICK m \in Bad : \A k \in Bad : m <= k
  BY LeastNatural, Bad \subseteq Nat
<1>2. m # 0
  <2> DEFINE f == [i \in 0 .. 0 |-> <<>>]
  <2>1. Keeping(seq, S, 0, f)
    BY DEF Keeping
  <2> QED
    BY <2>1
<1>3. m - 1 \in Nat /\ m - 1 \notin Bad
  BY <1>1, <1>2
<1>4. PICK f : Keeping(seq, S, m - 1, f)
  BY <1>3
<1> DEFINE g == [i \in 0 .. m |->
                   IF i < m THEN f[i]
                   ELSE IF seq[m] \in S THEN Append(f[m - 1], seq[m]) ELSE f[m - 1]]
<1>5. Keeping(seq, S, m, g)
  <2>1. \A i \in 0 .. (m - 1) : f[i] =
          IF i = 0 THEN <<>>
          ELSE IF seq[i] \in S THEN Append(f[i - 1], seq[i]) ELSE f[i - 1]
    BY <1>4 DEF Keeping
  <2>2. \A i \in 0 .. m : g[i] =
          IF i = 0 THEN <<>>
          ELSE IF seq[i] \in S THEN Append(g[i - 1], seq[i]) ELSE g[i - 1]
    BY <1>2, <1>3, <2>1
  <2>3. g = [i \in 0 .. m |-> g[i]]
    OBVIOUS
  <2> HIDE DEF g
  <2> QED
    BY <2>2, <2>3 DEF Keeping
<1> QED
  BY <1>5

\* Retained is what the recursion yields at the end of the sequence.
LEMMA RetainedIsKept ==
  ASSUME NEW seq, NEW S, Len(seq) \in Nat
  PROVE  \E f : Keeping(seq, S, Len(seq), f) /\ Retained(seq, S) = f[Len(seq)]
<1> DEFINE k == CHOOSE kept : kept =
                  [i \in 0 .. Len(seq) |->
                     IF i = 0 THEN <<>>
                     ELSE IF seq[i] \in S THEN Append(kept[i - 1], seq[i]) ELSE kept[i - 1]]
<1>1. Retained(seq, S) = k[Len(seq)]
  BY DEF Retained
<1>2. Keeping(seq, S, Len(seq), k)
  <2>1. k = CHOOSE f : Keeping(seq, S, Len(seq), f)
    BY DEF Keeping
  <2>2. \E f : Keeping(seq, S, Len(seq), f)
    BY KeepingExists
  <2> HIDE DEF k
  <2> QED
    BY <2>1, <2>2
<1> QED
  BY <1>1, <1>2

\* e shows where the elements of s stand among the first n of seq: in order,
\* and none of those in S is missing.
Embeds(e, s, seq, S, n) ==
  /\ s \in Seq(S)
  /\ e \in [1 .. Len(s) -> 1 .. n]
  /\ \A i, j \in 1 .. Len(s) : i < j => e[i] < e[j]
  /\ \A i \in 1 .. Len(s) : s[i] = seq[e[i]]
  /\ \A k \in 1 .. n : seq[k] \in S => \E i \in 1 .. Len(s) : e[i] = k

\* One more element that is retained goes to the end.
LEMMA EmbedsAppend ==
  ASSUME NEW S, NEW seq, NEW n \in Nat \ {0}, NEW s, NEW e, Embeds(e, s, seq, S, n - 1)
  PROVE  /\ seq[n] \in S => \E g : Embeds(g, Append(s, seq[n]), seq, S, n)
         /\ seq[n] \notin S => Embeds(e, s, seq, S, n)
<1>1. CASE seq[n] \in S
  <2> DEFINE t == Append(s, seq[n])
             g == [i \in 1 .. Len(s) + 1 |-> IF i <= Len(s) THEN e[i] ELSE n]
  <2>1. /\ Len(s) \in Nat /\ t \in Seq(S) /\ Len(t) = Len(s) + 1
        /\ \A i \in 1 .. Len(s) : t[i] = s[i]
        /\ t[Len(s) + 1] = seq[n]
    BY <1>1 DEF Embeds
  <2>2. g \in [1 .. Len(t) -> 1 .. n]
    BY <2>1 DEF Embeds
  <2>3. \A i, j \in 1 .. Len(t) : i < j => g[i] < g[j]
    BY <2>1 DEF Embeds
  <2>4. \A i \in 1 .. Len(t) : t[i] = seq[g[i]]
    BY <2>1 DEF Embeds
  <2>5. ASSUME NEW k \in 1 .. n, seq[k] \in S PROVE \E i \in 1 .. Len(t) : g[i] = k
    <3>1. CASE k = n
      BY <2>1, <3>1
    <3>2. CASE k # n
      <4>1. PICK i \in 1 .. Len(s) : e[i] = k
        BY <2>5, <3>2 DEF Embeds
      <4> QED
        BY <2>1, <4>1
    <3> QED
      BY <3>1, <3>2
  <2> HIDE DEF g, t
  <2>6. Embeds(g, t, seq, S, n)
    BY <2>1, <2>2, <2>3, <2>4, <2>5 DEF Embeds
  <2> QED
    BY <1>1, <2>6 DEF t
<1>2. CASE seq[n] \notin S
  BY <1>2 DEF Embeds
<1> QED
  BY <1>1, <1>2

\* Retained keeps the elements of S, all of them and in order.
LEMMA RetainedEmbeds ==
  ASSUME NEW R, NEW seq \in Seq(R), NEW S
  PROVE  \E e : Embeds(e, Retained(seq, S), seq, S, Len(seq))
<1>1. PICK f : Keeping(seq, S, Len(seq), f) /\ Retained(seq, S) = f[Len(seq)]
  BY RetainedIsKept
<1>2. /\ Len(seq) \in Nat
      /\ f[0] = <<>>
      /\ \A i \in 1 .. Len(seq) :
           f[i] = IF seq[i] \in S THEN Append(f[i - 1], seq[i]) ELSE f[i - 1]
  <2>1. Len(seq) \in Nat
    OBVIOUS
  <2>2. \A i \in 0 .. Len(seq) : f[i] =
          IF i = 0 THEN <<>>
          ELSE IF seq[i] \in S THEN Append(f[i - 1], seq[i]) ELSE f[i - 1]
    BY <1>1 DEF Keeping
  <2> QED
    BY <2>1, <2>2
<1> DEFINE Bad == {m \in 0 .. Len(seq) : ~ \E e : Embeds(e, f[m], seq, S, m)}
<1>3. Bad = {}
  <2> SUFFICES ASSUME Bad # {} PROVE FALSE
    OBVIOUS
  <2>1. PICK m \in Bad : \A k \in Bad : m <= k
    BY <1>2, LeastNatural, Bad \subseteq Nat
  <2>2. m # 0
    <3> DEFINE e == [i \in 1 .. 0 |-> 0]
    <3>1. Embeds(e, <<>>, seq, S, 0)
      BY DEF Embeds
    <3> QED
      BY <1>2, <3>1
  <2>3. m \in Nat \ {0} /\ m - 1 \in 0 .. Len(seq) /\ m - 1 \notin Bad
    BY <1>2, <2>1, <2>2
  <2>4. PICK e : Embeds(e, f[m - 1], seq, S, m - 1)
    BY <2>3
  <2>5. \E g : Embeds(g, f[m], seq, S, m)
    <3>1. f[m] = IF seq[m] \in S THEN Append(f[m - 1], seq[m]) ELSE f[m - 1]
      BY <1>2, <2>1, <2>3
    <3>2. /\ seq[m] \in S => \E g : Embeds(g, Append(f[m - 1], seq[m]), seq, S, m)
          /\ seq[m] \notin S => Embeds(e, f[m - 1], seq, S, m)
      BY <2>3, <2>4, EmbedsAppend
    <3> QED
      BY <3>1, <3>2
  <2> QED
    BY <2>5
<1> QED
  BY <1>1, <1>2, <1>3

\* So the result is a sequence of the same elements, and what it holds is
\* what seq holds of S.
LEMMA RetainedRange ==
  ASSUME NEW R, NEW seq \in Seq(R), NEW S
  PROVE  /\ Retained(seq, S) \in Seq(R)
         /\ Range(Retained(seq, S)) = Range(seq) \cap S
<1> DEFINE s == Retained(seq, S)
<1>1. PICK e : Embeds(e, s, seq, S, Len(seq))
  BY RetainedEmbeds
<1> HIDE DEF s
<1>2. /\ s \in Seq(S) /\ Len(s) \in Nat /\ DOMAIN s = 1 .. Len(s)
      /\ DOMAIN seq = 1 .. Len(seq)
      /\ \A i \in 1 .. Len(s) : e[i] \in 1 .. Len(seq) /\ s[i] = seq[e[i]] /\ s[i] \in S
  BY <1>1 DEF Embeds
<1>3. s \in Seq(R)
  <2>1. \A i \in 1 .. Len(s) : s[i] \in R
    BY <1>2
  <2> QED
    BY <1>2, <2>1
<1>4. Range(s) \subseteq Range(seq) \cap S
  BY <1>2 DEF Range
<1>5. ASSUME NEW x \in Range(seq) \cap S PROVE x \in Range(s)
  <2>1. PICK k \in 1 .. Len(seq) : seq[k] = x
    BY <1>2 DEF Range
  <2>2. PICK i \in 1 .. Len(s) : e[i] = k
    BY <1>1, <2>1 DEF Embeds
  <2> QED
    BY <1>2, <2>1, <2>2 DEF Range
<1> QED
  BY <1>3, <1>4, <1>5 DEF s

-----------------------------------------------------------------------------
(* The inductive invariant *)

\* What the engine task can be doing.
EngineRec ==
  [pc : {"loop", "alone", "down", "prune", "command", "replace", "exited"},
   phase : {"Running", "Quiescing"}, todo : Seq(Roles), joining : BOOLEAN,
   abort : BOOLEAN, cmd : {"Isolate", "Execute"}]

\* No event is counted twice.
Conserved == src + parseq + outq["Sink"] + outq["Infra"] + lost <= NEvents

\* The types, also of what TypeOK leaves open; a join is of a group to do.
TypeInv ==
  /\ TypeOK /\ eng \in EngineRec /\ Conserved
  /\ signal \in {"none", "raised", "seen"} /\ reloads \in Nat
  /\ routed \in BOOLEAN /\ picking \in BOOLEAN
  /\ eng.joining => eng.pc = "down" /\ eng.todo # <<>>

\* A group is registered after the groups it sends to, and stopped before them.
Ordered(seq) == \A i, j \in DOMAIN seq : seq[j] \in Producers(seq[i]) => i < j

\* The same, of the order in which groups are stopped.
StopOrdered(seq) == \A i, j \in DOMAIN seq : seq[j] \in Producers(seq[i]) => j < i

\* A task that is not registered is done: prune and stop only drop those.
DroppedIsDone == \A role \in Roles : ~Registered(role) => task[role] = "done"

\* The groups are being stopped: todo is the end of the registry.
Stopping == eng.pc \in {"alone", "down"}
TodoIsRest ==
  /\ Len(eng.todo) <= Len(groups)
  /\ \A i \in 1 .. Len(eng.todo) : eng.todo[i] = groups[Len(groups) - Len(eng.todo) + i]

\* The registry is ordered until it is reversed; the groups before todo are
\* down.
StopInv ==
  /\ DroppedIsDone
  /\ IF Stopping THEN StopOrdered(groups) ELSE Ordered(groups)
  /\ Stopping => TodoIsRest
  /\ eng.pc = "down" => \A i \in 1 .. Len(groups) - Len(eng.todo) : task[groups[i]] = "done"

-----------------------------------------------------------------------------
(* Types *)

\* Concatenation puts the second sequence behind the first.
LEMMA Concat ==
  ASSUME NEW S, NEW s \in Seq(S), NEW t \in Seq(S)
  PROVE  /\ s \o t \in Seq(S) /\ Len(s \o t) = Len(s) + Len(t)
         /\ \A i \in 1 .. Len(s) : (s \o t)[i] = s[i]
         /\ \A i \in 1 .. Len(t) : (s \o t)[Len(s) + i] = t[i]
OBVIOUS

\* The registry at the start, after the acceptor of a daemon.
Start == <<"Monitor", "Infra", "Sink", "Maintainer", "Parser", "Picker">>

\* The groups are registered in this order.
LEMMA StartRegistry ==
  ASSUME Init
  PROVE  /\ groups \in Seq(Roles)
         /\ mode = "Daemon" => /\ Len(groups) = 7 /\ groups[1] = "Acceptor"
                               /\ \A i \in 1 .. 6 : groups[i + 1] = Start[i]
         /\ mode # "Daemon" => Len(groups) = 6 /\ \A i \in 1 .. 6 : groups[i] = Start[i]
<1>0. "Picker" \in Roles /\ "Acceptor" \in Roles
  BY DEF Roles
<1> DEFINE mid == <<"Monitor">> \o Processing
<1>1. /\ mid \in Seq(Roles) /\ Len(mid) = 5
      /\ \A i \in 1 .. 5 : mid[i] = Start[i]
  BY DEF Processing, Roles, Start
<1> DEFINE all == mid \o <<"Picker">>
<1> HIDE DEF mid
<1>2. /\ all \in Seq(Roles) /\ Len(all) = 6
      /\ \A i \in 1 .. 6 : all[i] = Start[i]
  <2>1. /\ all \in Seq(Roles) /\ Len(all) = 6 /\ all[6] = "Picker"
        /\ \A i \in 1 .. 5 : all[i] = mid[i]
    <3> DEFINE one == <<"Picker">>
    <3>1. one \in Seq(Roles) /\ Len(one) = 1 /\ one[1] = "Picker"
      BY <1>0
    <3>2. all = mid \o one
      OBVIOUS
    <3> HIDE DEF one, all
    <3>3. mid \in Seq(Roles) /\ one \in Seq(Roles)
      BY <1>1, <3>1
    <3>4. /\ all \in Seq(Roles) /\ Len(all) = Len(mid) + Len(one)
          /\ \A i \in 1 .. Len(mid) : all[i] = mid[i]
          /\ \A i \in 1 .. Len(one) : all[Len(mid) + i] = one[i]
      BY <3>2, <3>3, Concat
    <3> QED
      BY <1>1, <3>1, <3>4
  <2>2. Start[6] = "Picker"
    BY DEF Start
  <2> HIDE DEF all
  <2> QED
    BY <1>1, <2>1, <2>2
<1>3. groups = (IF mode = "Daemon" THEN <<"Acceptor">> ELSE <<>>) \o all
  BY DEF Init, mid
<1> HIDE DEF all
<1>4. CASE mode = "Daemon"
  <2> DEFINE one == <<"Acceptor">>
  <2>1. one \in Seq(Roles) /\ Len(one) = 1 /\ one[1] = "Acceptor"
    BY <1>0
  <2>2. groups = one \o all
    BY <1>3, <1>4
  <2> HIDE DEF one
  <2>3. all \in Seq(Roles) /\ one \in Seq(Roles)
    BY <1>2, <2>1
  <2>4. /\ groups \in Seq(Roles) /\ Len(groups) = Len(one) + Len(all)
        /\ \A i \in 1 .. Len(one) : groups[i] = one[i]
        /\ \A i \in 1 .. Len(all) : groups[Len(one) + i] = all[i]
    BY <2>2, <2>3, Concat
  <2> QED
    BY <1>2, <1>4, <2>1, <2>4
<1>5. CASE mode # "Daemon"
  <2>1. groups = <<>> \o all
    BY <1>3, <1>5
  <2>2. groups = all
    BY <1>2, <2>1
  <2> QED
    BY <1>2, <1>5, <2>2
<1> QED
  BY <1>4, <1>5

\* The initial state is well typed.
LEMMA InitType == Init => TypeInv
<1> SUFFICES ASSUME Init PROVE TypeInv
  OBVIOUS
<1> USE TaskManagerAssumption
<1>1. groups \in Seq(Roles)
  BY StartRegistry DEF Roles
<1>2. task \in [Roles -> {"run", "draining", "done"}]
  BY DEF Init
<1>3. eng \in EngineRec /\ ~eng.joining
  BY DEF Init, EngineRec
<1> QED
  BY <1>1, <1>2, <1>3 DEF Init, TypeInv, TypeOK, Conserved, EngineRec, Outputs

\* A command sent to a group keeps the types of the two queues.
LEMMA SendType ==
  ASSUME TypeInv, NEW role \in Roles, NEW cmd \in {"Isolate", "Execute", "Stop"}, Send(role, cmd)
  PROVE  /\ held' \in [Roles -> 0 .. CmdCap]
         /\ cmdq' \in [Roles -> Seq({"Isolate", "Execute", "Stop"})]
<1> USE TaskManagerAssumption
<1>1. held' \in [Roles -> 0 .. CmdCap]
  BY DEF Send, TypeInv, TypeOK
<1>2. cmdq' \in [Roles -> Seq({"Isolate", "Execute", "Stop"})]
  BY DEF Send, TypeInv, TypeOK
<1> QED
  BY <1>1, <1>2

\* The counts of events as integers, and what they add up to.
LEMMA Counts ==
  ASSUME TypeInv
  PROVE  /\ outq["Sink"] \in Nat /\ outq["Infra"] \in Nat
         /\ src \in Nat /\ parseq \in Nat /\ lost \in Nat /\ NEvents \in Nat
         /\ src + parseq + outq["Sink"] + outq["Infra"] + lost <= NEvents
<1>1. "Sink" \in Outputs /\ "Infra" \in Outputs
  BY DEF Outputs
<1> QED
  BY <1>1, TaskManagerAssumption DEF TypeInv, TypeOK, Conserved

\* The data path moves events from one count to another.
LEMMA DataType == ASSUME TypeInv, DataStep PROVE TypeInv'
<1> USE TaskManagerAssumption
<1>0. /\ "Sink" \in Outputs /\ "Infra" \in Outputs /\ "Parser" \in Roles /\ "Picker" \in Roles
      /\ Outputs \subseteq Roles /\ \A role \in Outputs : role = "Sink" \/ role = "Infra"
  BY DEF Outputs, Roles
<1>1. CASE PickerPosts
  <2>1. src' \in 0 .. NEvents /\ parseq' \in 0 .. ChanCap
    BY <1>1 DEF TypeInv, TypeOK, PickerPosts
  <2>2. Conserved'
    BY <1>1, Counts DEF PickerPosts, Conserved
  <2> QED
    BY <1>1, <2>1, <2>2 DEF TypeInv, TypeOK, PickerPosts, engine
<1>2. CASE PickerEnds
  <2>1. Conserved'
    BY <1>2 DEF TypeInv, PickerEnds, flow, Conserved
  <2> QED
    BY <1>2, <2>1 DEF TypeInv, TypeOK, PickerEnds, engine, flow
<1>3. CASE ParserWorks
  <2>1. PICK out \in Outputs :
          LET open == task[out] = "run"
              fails == ~open /\ out = "Infra"
          IN  /\ open => outq[out] < ChanCap
              /\ outq' = IF open THEN [outq EXCEPT ![out] = @ + 1] ELSE outq
              /\ parseq' = IF fails THEN 0 ELSE parseq - 1
              /\ lost' = lost + (IF open THEN 0 ELSE parseq - parseq')
              /\ task' = IF fails THEN [task EXCEPT !["Parser"] = "done"] ELSE task
    BY <1>3 DEF ParserWorks
  <2>2. /\ parseq \in 1 .. ChanCap /\ outq \in [Outputs -> 0 .. ChanCap]
        /\ task \in [Roles -> {"run", "draining", "done"}]
    BY <1>3 DEF ParserWorks, TypeInv, TypeOK
  <2>3. CASE task[out] = "run"
    <3>1. /\ outq' = [outq EXCEPT ![out] = @ + 1] /\ outq[out] < ChanCap
          /\ parseq' = parseq - 1 /\ lost' = lost /\ task' = task
      BY <2>1, <2>3, Counts
    <3>2. outq' \in [Outputs -> 0 .. ChanCap] /\ parseq' \in 0 .. ChanCap
      BY <2>2, <3>1
    <3>3. outq'["Sink"] + outq'["Infra"] = outq["Sink"] + outq["Infra"] + 1
      <4>1. CASE out = "Sink"
        BY <1>0, <2>2, <3>1, <4>1, Counts
      <4>2. CASE out = "Infra"
        BY <1>0, <2>2, <3>1, <4>2, Counts
      <4> QED
        BY <1>0, <4>1, <4>2
    <3>4. outq'["Sink"] \in Nat /\ outq'["Infra"] \in Nat /\ src' = src
      BY <1>0, <1>3, <3>2 DEF ParserWorks
    <3>5. Conserved'
      BY <3>1, <3>3, <3>4, Counts DEF Conserved
    <3> QED
      BY <1>3, <3>1, <3>2, <3>5 DEF TypeInv, TypeOK, ParserWorks, engine
  <2>4. CASE task[out] # "run"
    <3>1. /\ outq' = outq /\ parseq' \in 0 .. ChanCap /\ lost' = lost + parseq - parseq'
          /\ parseq' <= parseq
      BY <2>1, <2>2, <2>4, Counts
    <3>2. task' \in [Roles -> {"run", "draining", "done"}]
      BY <2>1, <2>2
    <3>3. src' = src
      BY <1>3 DEF ParserWorks
    <3>4. Conserved' /\ lost' \in 0 .. NEvents
      BY <3>1, <3>3, Counts DEF Conserved
    <3> QED
      BY <1>3, <3>1, <3>2, <3>4 DEF TypeInv, TypeOK, ParserWorks, engine
  <2> QED
    BY <2>3, <2>4
<1>4. CASE ParserEof
  <2>1. Conserved'
    BY <1>4 DEF TypeInv, ParserEof, flow, Conserved
  <2> QED
    BY <1>4, <2>1 DEF TypeInv, TypeOK, ParserEof, engine, flow
<1>5. ASSUME NEW role \in Outputs, OutWorks(role) PROVE TypeInv'
  <2>1. outq' \in [Outputs -> 0 .. ChanCap]
    BY <1>5 DEF OutWorks, TypeInv, TypeOK
  <2>2. outq'["Sink"] + outq'["Infra"] <= outq["Sink"] + outq["Infra"]
    <3>1. CASE role = "Sink"
      BY <1>0, <1>5, <3>1, Counts DEF OutWorks, TypeInv, TypeOK
    <3>2. CASE role = "Infra"
      BY <1>0, <1>5, <3>2, Counts DEF OutWorks, TypeInv, TypeOK
    <3> QED
      BY <1>0, <3>1, <3>2
  <2>3. outq'["Sink"] \in Nat /\ outq'["Infra"] \in Nat
    BY <1>0, <2>1
  <2>4. src' = src /\ parseq' = parseq /\ lost' = lost
    BY <1>5 DEF OutWorks
  <2>5. Conserved'
    BY <2>2, <2>3, <2>4, Counts DEF Conserved
  <2> QED
    BY <1>5, <2>1, <2>5 DEF OutWorks, TypeInv, TypeOK, engine
<1>6. ASSUME NEW role \in Outputs, OutEnds(role) PROVE TypeInv'
  <2>1. Conserved'
    BY <1>6 DEF TypeInv, OutEnds, flow, Conserved
  <2> QED
    BY <1>6, <2>1 DEF TypeInv, TypeOK, OutEnds, engine, flow
<1> QED
  BY <1>1, <1>2, <1>3, <1>4, <1>5, <1>6 DEF DataStep

\* A task that reads a command drops at most what was queued for it.
LEMMA CmdType ==
  ASSUME TypeInv, PickerCmd \/ \E role \in Roles : TaskCmd(role)
  PROVE  TypeInv'
<1>1. CASE PickerCmd
  <2>0. "Picker" \in Roles
    BY DEF Roles
  <2>1. Tail(cmdq["Picker"]) \in Seq({"Isolate", "Execute", "Stop"})
    BY <2>0, <1>1 DEF PickerCmd, TypeInv, TypeOK
  <2>2. cmdq' \in [Roles -> Seq({"Isolate", "Execute", "Stop"})]
    BY <1>1, <2>1 DEF PickerCmd, TypeInv, TypeOK
  <2>3. task' \in [Roles -> {"run", "draining", "done"}] /\ picking' \in BOOLEAN
    BY <1>1 DEF PickerCmd, TypeInv, TypeOK
  <2>4. Conserved'
    BY <1>1 DEF PickerCmd, flow, TypeInv, Conserved
  <2> QED
    BY <1>1, <2>2, <2>3, <2>4 DEF PickerCmd, TypeInv, TypeOK, engine, flow
<1>2. ASSUME NEW role \in Roles, TaskCmd(role) PROVE TypeInv'
  <2>1. Tail(cmdq[role]) \in Seq({"Isolate", "Execute", "Stop"})
    BY <1>2 DEF TaskCmd, TypeInv, TypeOK
  <2>2. cmdq' \in [Roles -> Seq({"Isolate", "Execute", "Stop"})]
    BY <1>2, <2>1 DEF TaskCmd, TypeInv, TypeOK
  <2>3. task' \in [Roles -> {"run", "draining", "done"}]
    BY <1>2 DEF TaskCmd, TypeInv, TypeOK
  <2>4. \/ parseq' = parseq /\ lost' = lost
        \/ parseq' = 0 /\ lost' = lost + parseq
    BY <1>2 DEF TaskCmd
  <2>5. src' = src /\ outq' = outq
    BY <1>2 DEF TaskCmd
  <2>6. Conserved' /\ lost' \in 0 .. NEvents
    BY <2>4, <2>5, Counts DEF Conserved
  <2>7. parseq' \in 0 .. ChanCap
    BY <2>4, TaskManagerAssumption DEF TypeInv, TypeOK
  <2> QED
    BY <1>2, <2>2, <2>3, <2>5, <2>6, <2>7 DEF TaskCmd, TypeInv, TypeOK, engine
<1> QED
  BY <1>1, <1>2

\* A step of the engine that leaves tasks and events alone.
LEMMA ControlType ==
  ASSUME TypeInv, UNCHANGED <<mode, tasks>>, groups' \in Seq(Roles),
         held' \in [Roles -> 0 .. CmdCap],
         cmdq' \in [Roles -> Seq({"Isolate", "Execute", "Stop"})],
         eng' \in EngineRec, eng'.joining => eng'.pc = "down" /\ eng'.todo # <<>>,
         signal' \in {"none", "raised", "seen"}, reloads' \in Nat, routed' \in BOOLEAN
  PROVE  TypeInv'
<1>1. eng'.pc \in {"loop", "alone", "down", "prune", "command", "replace", "exited"}
  BY DEF EngineRec
<1>2. Conserved'
  BY DEF TypeInv, tasks, flow, Conserved
<1> QED
  BY <1>1, <1>2 DEF TypeInv, TypeOK, tasks, flow

\* The registry reversed is a registry.
LEMMA ReversedType ==
  ASSUME TypeInv
  PROVE  /\ Reversed \in Seq(Roles) /\ Len(Reversed) = Len(groups)
         /\ \A i \in 1 .. Len(groups) : Reversed[i] = groups[Len(groups) + 1 - i]
<1>1. groups \in Seq(Roles) /\ Len(groups) \in Nat
  BY DEF TypeInv, TypeOK
<1>2. \A i \in 1 .. Len(groups) : groups[Len(groups) + 1 - i] \in Roles
  BY <1>1
<1> QED
  BY <1>1, <1>2 DEF Reversed

\* The polls, the commands and the stop keep the types.
LEMMA EngineType == ASSUME TypeInv, EngineStep \/ Raise \/ TakeRequest PROVE TypeInv'
<1> USE TaskManagerAssumption
<1>0. /\ groups \in Seq(Roles) /\ eng \in EngineRec /\ reloads \in Nat
      /\ held \in [Roles -> 0 .. CmdCap]
      /\ cmdq \in [Roles -> Seq({"Isolate", "Execute", "Stop"})]
      /\ signal \in {"none", "raised", "seen"} /\ routed \in BOOLEAN
      /\ eng.joining => eng.pc = "down" /\ eng.todo # <<>>
  BY DEF TypeInv, TypeOK
<1>1. CASE Quiesce
  <2>1. /\ held' \in [Roles -> 0 .. CmdCap]
        /\ cmdq' \in [Roles -> Seq({"Isolate", "Execute", "Stop"})]
    <3>1. "Acceptor" \in Roles
      BY DEF Roles
    <3>2. Send("Acceptor", "Stop") \/ UNCHANGED <<cmdq, held>>
      BY <1>1 DEF Quiesce
    <3> QED
      BY <1>0, <3>1, <3>2, SendType
  <2>2. eng' \in EngineRec /\ ~eng'.joining
    BY <1>0, <1>1 DEF Quiesce, EngineRec
  <2>3. signal' \in {"none", "raised", "seen"} /\ routed' \in BOOLEAN
    BY <1>0, <1>1 DEF Quiesce, Seen
  <2> QED
    BY <1>0, <1>1, <2>1, <2>2, <2>3, ControlType DEF Quiesce
<1>2. CASE EnterStopping \/ QuiescingTimeout
  <2>1. eng' \in EngineRec /\ ~eng'.joining
    BY <1>0, <1>2, ReversedType DEF EnterStopping, QuiescingTimeout, EngineRec
  <2>2. signal' \in {"none", "raised", "seen"}
    BY <1>0, <1>2 DEF EnterStopping, QuiescingTimeout, Seen
  <2>3. /\ groups' \in Seq(Roles)
        /\ UNCHANGED <<mode, cmdq, held, routed, reloads, tasks>>
    BY <1>2, ReversedType DEF EnterStopping, QuiescingTimeout
  <2> QED
    BY <1>0, <2>1, <2>2, <2>3, ControlType
<1>3. CASE Alone \/ SendStop
  <2>1. Head(eng.todo) \in Roles /\ Tail(eng.todo) \in Seq(Roles) /\ eng.todo # <<>>
    BY <1>0, <1>3 DEF Alone, SendStop, EngineRec
  <2>2. /\ held' \in [Roles -> 0 .. CmdCap]
        /\ cmdq' \in [Roles -> Seq({"Isolate", "Execute", "Stop"})]
    BY <1>3, <2>1, SendType DEF Alone, SendStop
  <2>3. eng' \in EngineRec /\ (eng'.joining => eng'.pc = "down" /\ eng'.todo # <<>>)
    BY <1>0, <1>3, <2>1 DEF Alone, SendStop, EngineRec
  <2>4. UNCHANGED <<mode, groups, signal, routed, reloads, tasks>>
    BY <1>3 DEF Alone, SendStop
  <2> QED
    BY <1>0, <2>2, <2>3, <2>4, ControlType
<1>4. CASE AllAlone \/ Join \/ AllDown \/ TakeRequest
  <2>1. eng.joining => Tail(eng.todo) \in Seq(Roles)
    BY <1>0 DEF EngineRec
  <2>2. eng' \in EngineRec /\ ~eng'.joining
    BY <1>0, <1>4, <2>1 DEF AllAlone, Join, AllDown, TakeRequest, EngineRec
  <2>3. groups' \in Seq(Roles) /\ reloads' \in Nat
    <3>1. groups' = groups \/ groups' = <<>>
      BY <1>4 DEF AllAlone, Join, AllDown, TakeRequest
    <3>2. reloads' = reloads \/ reloads' = reloads + 1
      BY <1>4 DEF AllAlone, Join, AllDown, TakeRequest
    <3>3. reloads' \in Nat
      BY <1>0, <3>2
    <3>4. <<>> \in Seq(Roles)
      OBVIOUS
    <3> QED
      BY Zenon, <1>0, <3>1, <3>3, <3>4
  <2>4. UNCHANGED <<mode, cmdq, held, signal, routed, tasks>>
    BY <1>4 DEF AllAlone, Join, AllDown, TakeRequest
  <2> QED
    BY <1>0, <2>2, <2>3, <2>4, ControlType
<1>5. CASE JoinAborts
  <2>1. Tail(eng.todo) \in Seq(Roles)
    BY <1>0, <1>5 DEF JoinAborts, EngineRec
  <2>2. eng' \in EngineRec /\ ~eng'.joining
    BY <1>0, <1>5, <2>1 DEF JoinAborts, EngineRec
  <2>3. task' \in [Roles -> {"run", "draining", "done"}]
    BY <1>5 DEF JoinAborts, TypeInv, TypeOK
  <2>4. eng'.pc \in {"loop", "alone", "down", "prune", "command", "replace", "exited"}
    BY <2>2 DEF EngineRec
  <2>5. Conserved'
    BY <1>5 DEF JoinAborts, TypeInv, flow, Conserved
  <2> QED
    BY <1>5, <2>2, <2>3, <2>4, <2>5 DEF JoinAborts, TypeInv, TypeOK, flow
<1>6. CASE PrunePicker
  <2>1. groups' \in Seq(Roles)
    BY <1>0, <1>6, RetainedRange DEF PrunePicker, Unfinished
  <2>2. eng' \in EngineRec /\ ~eng'.joining
    BY <1>0, <1>6 DEF PrunePicker, AfterCommand, EngineRec
  <2> QED
    BY <1>0, <1>6, <2>1, <2>2, ControlType DEF PrunePicker
<1>7. CASE CommandPicker
  <2>1. "Picker" \in Roles /\ eng.cmd \in {"Isolate", "Execute", "Stop"}
    BY <1>0 DEF Roles, EngineRec
  <2>2. /\ held' \in [Roles -> 0 .. CmdCap]
        /\ cmdq' \in [Roles -> Seq({"Isolate", "Execute", "Stop"})]
    BY <1>7, <2>1, SendType DEF CommandPicker
  <2>3. eng' \in EngineRec /\ ~eng'.joining
    BY <1>0, <1>7 DEF CommandPicker, AfterCommand, EngineRec
  <2> QED
    BY <1>0, <1>7, <2>2, <2>3, ControlType DEF CommandPicker
<1>8. CASE ReplaceProcessing
  <2>1. groups' \in Seq(Roles)
    <3>1. Retained(groups, Roles \ Range(Processing)) \in Seq(Roles)
      BY <1>0, RetainedRange
    <3>2. Processing \in Seq(Roles)
      BY DEF Processing, Roles
    <3> QED
      BY <1>8, <3>1, <3>2, Concat DEF ReplaceProcessing
  <2>2. eng' \in EngineRec /\ ~eng'.joining
    BY <1>0, <1>8 DEF ReplaceProcessing, EngineRec
  <2>3. task' \in [Roles -> {"run", "draining", "done"}]
    BY <1>8 DEF ReplaceProcessing, TypeInv, TypeOK
  <2>4. /\ held' \in [Roles -> 0 .. CmdCap]
        /\ cmdq' \in [Roles -> Seq({"Isolate", "Execute", "Stop"})]
    BY <1>0, <1>8 DEF ReplaceProcessing
  <2>5. outq' = [role \in Outputs |-> 0] /\ parseq' = 0 /\ src' = src
    BY <1>8 DEF ReplaceProcessing
  <2>6. outq' \in [Outputs -> 0 .. ChanCap] /\ outq'["Sink"] = 0 /\ outq'["Infra"] = 0
    BY <2>5 DEF Outputs
  <2>7. PICK n \in 0 .. parseq : lost' = lost + n
    BY <1>8 DEF ReplaceProcessing
  <2>8. Conserved' /\ lost' \in 0 .. NEvents
    BY <2>5, <2>6, <2>7, Counts DEF Conserved
  <2>9. eng'.pc \in {"loop", "alone", "down", "prune", "command", "replace", "exited"}
    BY <2>2 DEF EngineRec
  <2>10. parseq' \in 0 .. ChanCap /\ src' \in 0 .. NEvents /\ mode' \in Modes
    BY <1>8, <2>5 DEF ReplaceProcessing, TypeInv, TypeOK
  <2>11. TypeOK'
    BY <2>1, <2>3, <2>4, <2>6, <2>8, <2>9, <2>10 DEF TypeOK
  <2>12. UNCHANGED <<signal, routed, reloads, picking>>
    BY <1>8 DEF ReplaceProcessing
  <2> QED
    BY <2>2, <2>8, <2>11, <2>12 DEF TypeInv
<1>9. CASE Raise
  BY <1>0, <1>9, ControlType DEF Raise
<1> QED
  BY <1>1, <1>2, <1>3, <1>4, <1>5, <1>6, <1>7, <1>8, <1>9 DEF EngineStep

\* Every step keeps the types.
LEMMA NextType == ASSUME TypeInv, [Next]_vars PROVE TypeInv'
<1>1. CASE UNCHANGED vars
  BY <1>1 DEF vars, flow, TypeInv, TypeOK, Conserved
<1> QED
  BY <1>1, DataType, CmdType, EngineType DEF Next

\* Type correctness, for any bounds: no channel or command queue exceeds its
\* capacity, and no event is counted twice.
THEOREM TypeCorrect == Spec => []TypeOK
<1>1. TypeInv => TypeOK
  BY DEF TypeInv
<1> QED
  BY <1>1, InitType, NextType, PTL DEF Spec

-----------------------------------------------------------------------------
(* The order in which the groups are stopped *)

\* What a registry retains is in the same order.
LEMMA RetainedOrdered ==
  ASSUME NEW seq \in Seq(Roles), NEW S, Ordered(seq)
  PROVE  Ordered(Retained(seq, S))
<1> DEFINE s == Retained(seq, S)
<1>1. PICK e : Embeds(e, s, seq, S, Len(seq))
  BY RetainedEmbeds
<1> HIDE DEF s
<1>2. DOMAIN s = 1 .. Len(s) /\ Len(s) \in Nat /\ DOMAIN seq = 1 .. Len(seq)
  BY <1>1 DEF Embeds
<1>3. ASSUME NEW i \in DOMAIN s, NEW j \in DOMAIN s, s[j] \in Producers(s[i]) PROVE i < j
  <2>1. /\ e[i] \in DOMAIN seq /\ e[j] \in DOMAIN seq
        /\ s[i] = seq[e[i]] /\ s[j] = seq[e[j]]
    BY <1>1, <1>2 DEF Embeds
  <2>2. e[i] < e[j]
    BY <1>3, <2>1 DEF Ordered
  <2>3. e[i] \in Int /\ e[j] \in Int
    BY <1>2, <2>1
  <2>4. ~(j < i)
    <3> SUFFICES ASSUME j < i PROVE FALSE
      OBVIOUS
    <3>1. e[j] < e[i]
      BY <1>1, <1>2 DEF Embeds
    <3> QED
      BY <2>2, <2>3, <3>1
  <2>5. i # j
    BY <2>2, <2>3
  <2> QED
    BY <1>2, <2>4, <2>5
<1>4. Ordered(s)
  BY <1>3 DEF Ordered
<1> QED
  BY <1>4 DEF s

\* At the start the groups are in order, and all tasks that exist run.
LEMMA InitStop == Init => StopInv
<1> SUFFICES ASSUME Init PROVE StopInv
  OBVIOUS
<1>1. DroppedIsDone
  BY DEF Init, DroppedIsDone
<1>2. Ordered(groups)
  <2>1. /\ Start[1] = "Monitor" /\ Start[2] = "Infra" /\ Start[3] = "Sink"
        /\ Start[4] = "Maintainer" /\ Start[5] = "Parser" /\ Start[6] = "Picker"
    BY DEF Start
  <2>2. \A i, j \in 1 .. 6 : Start[j] \in Producers(Start[i]) => i < j
    BY <2>1 DEF Producers
  <2>3. \A i \in 1 .. 6 : "Acceptor" \notin Producers(Start[i]) /\ Start[i] \notin Producers("Acceptor")
    BY <2>1 DEF Producers
  <2>4. "Acceptor" \notin Producers("Acceptor")
    BY DEF Producers
  <2>5. CASE mode = "Daemon"
    <3>1. /\ DOMAIN groups = 1 .. 7 /\ groups[1] = "Acceptor"
          /\ \A i \in 2 .. 7 : i - 1 \in 1 .. 6 /\ groups[i] = Start[i - 1]
      <4>1. groups \in Seq(Roles) /\ Len(groups) = 7 /\ groups[1] = "Acceptor"
        BY <2>5, StartRegistry
      <4>2. \A i \in 1 .. 6 : groups[i + 1] = Start[i]
        BY <2>5, StartRegistry
      <4>3. \A i \in 2 .. 7 : i - 1 \in 1 .. 6 /\ (i - 1) + 1 = i
        OBVIOUS
      <4>4. \A i \in 2 .. 7 : groups[i] = Start[i - 1]
        BY <4>2, <4>3
      <4> QED
        BY <4>1, <4>3, <4>4
    <3>2. ASSUME NEW i \in 1 .. 7, NEW j \in 1 .. 7, groups[j] \in Producers(groups[i])
          PROVE  i < j
      <4>1. CASE i = 1
        BY <2>3, <2>4, <3>1, <3>2, <4>1
      <4>2. CASE j = 1
        BY <2>3, <2>4, <3>1, <3>2, <4>2
      <4>3. CASE i # 1 /\ j # 1
        BY <2>2, <3>1, <3>2, <4>3
      <4> QED
        BY <4>1, <4>2, <4>3
    <3> QED
      BY <3>1, <3>2 DEF Ordered
  <2>6. CASE mode # "Daemon"
    <3>1. DOMAIN groups = 1 .. 6 /\ \A i \in 1 .. 6 : groups[i] = Start[i]
      BY <2>6, StartRegistry
    <3> QED
      BY <2>2, <3>1 DEF Ordered
  <2> QED
    BY <2>5, <2>6
<1>3. ~Stopping /\ eng.pc # "down"
  BY DEF Init, Stopping
<1> QED
  BY <1>1, <1>2, <1>3 DEF StopInv

\* The tasks never touch the registry, and a task that is done stays so.
LEMMA DoneStays ==
  ASSUME TypeInv, DataStep \/ PickerCmd \/ \E role \in Roles : TaskCmd(role)
  PROVE  /\ UNCHANGED <<groups, eng>>
         /\ \A role \in Roles : task[role] = "done" => task'[role] = "done"
<1>0. task \in [Roles -> {"run", "draining", "done"}]
  BY DEF TypeInv, TypeOK
<1>1. CASE DataStep
  BY <1>0, <1>1 DEF DataStep, PickerPosts, PickerEnds, ParserWorks, ParserEof, OutWorks, OutEnds,
                    engine
<1>2. CASE PickerCmd
  BY <1>0, <1>2 DEF PickerCmd, engine
<1>3. ASSUME NEW role \in Roles, TaskCmd(role)
      PROVE  /\ UNCHANGED <<groups, eng>>
             /\ \A r \in Roles : task[r] = "done" => task'[r] = "done"
  BY <1>0, <1>3 DEF TaskCmd, engine
<1> QED
  BY <1>1, <1>2, <1>3

\* Such a step keeps the invariant.
LEMMA TasksStop ==
  ASSUME TypeInv, StopInv, UNCHANGED <<groups, eng>>,
         \A role \in Roles : task[role] = "done" => task'[role] = "done"
  PROVE  StopInv'
<1>1. DroppedIsDone'
  BY DEF StopInv, DroppedIsDone, Registered
<1>2. eng.pc = "down" => \A i \in 1 .. Len(groups) - Len(eng.todo) : task'[groups[i]] = "done"
  <2>1. /\ groups \in Seq(Roles) /\ Len(groups) \in Nat /\ Len(eng.todo) \in Nat
    BY DEF TypeInv, TypeOK, EngineRec
  <2>2. \A i \in 1 .. Len(groups) - Len(eng.todo) : groups[i] \in Roles
    BY <2>1
  <2> QED
    BY <2>2 DEF StopInv
<1> QED
  BY <1>1, <1>2 DEF StopInv, Stopping, TodoIsRest, Ordered, StopOrdered

\* So does a step of the engine that stays outside the stop.
LEMMA LoopStop ==
  ASSUME StopInv, ~Stopping, ~Stopping', UNCHANGED <<groups, task>>
  PROVE  StopInv'
BY DEF StopInv, DroppedIsDone, Registered, Ordered, Stopping

\* A reversed registry holds the same groups.
LEMMA ReversedRange ==
  ASSUME groups \in Seq(Roles)
  PROVE  Range(Reversed) = Range(groups)
<1> DEFINE n == Len(groups)
           r == Reversed
<1>1. n \in Nat /\ DOMAIN groups = 1 .. n
  OBVIOUS
<1>2. DOMAIN r = 1 .. n /\ \A i \in 1 .. n : r[i] = groups[n + 1 - i]
  BY <1>1 DEF Reversed
<1> HIDE DEF n, r
<1>3. \A i \in 1 .. n : n + 1 - i \in 1 .. n /\ groups[i] = r[n + 1 - i]
  <2> SUFFICES ASSUME NEW i \in 1 .. n
               PROVE  n + 1 - i \in 1 .. n /\ groups[i] = r[n + 1 - i]
    OBVIOUS
  <2>1. n + 1 - i \in 1 .. n /\ n + 1 - (n + 1 - i) = i
    BY <1>1
  <2> QED
    BY <1>2, <2>1
<1>4. Range(groups) \subseteq Range(r)
  BY <1>1, <1>2, <1>3 DEF Range
<1>5. \A i \in 1 .. n : r[i] \in Range(groups)
  BY <1>1, <1>2, <1>3 DEF Range
<1>6. Range(r) \subseteq Range(groups)
  BY <1>2, <1>5 DEF Range
<1> QED
  BY <1>4, <1>6 DEF r

\* The registry is reversed and all of it is to do.
LEMMA EnterStop ==
  ASSUME TypeInv, StopInv, EnterStopping \/ QuiescingTimeout
  PROVE  StopInv'
<1> DEFINE n == Len(groups)
<1>1. /\ groups \in Seq(Roles) /\ n \in Nat /\ DOMAIN groups = 1 .. n
      /\ task' = task /\ groups' = Reversed /\ eng'.todo = Reversed /\ eng'.pc = "alone"
  <2>1. groups \in Seq(Roles) /\ eng \in EngineRec
    BY DEF TypeInv, TypeOK
  <2>2. n \in Nat /\ DOMAIN groups = 1 .. n
    BY <2>1
  <2>3. CASE EnterStopping
    BY <2>1, <2>2, <2>3 DEF EnterStopping, tasks, EngineRec
  <2>4. CASE QuiescingTimeout
    BY <2>1, <2>2, <2>4 DEF QuiescingTimeout, tasks, EngineRec
  <2> QED
    BY <2>3, <2>4
<1>2. /\ groups' \in Seq(Roles) /\ Len(groups') = n /\ DOMAIN groups' = 1 .. n
      /\ \A i \in 1 .. n : groups'[i] = groups[n + 1 - i]
  BY <1>1, ReversedType
<1> HIDE DEF n
<1>3. Range(groups') = Range(groups)
  BY <1>1, ReversedRange
<1>4. Ordered(groups)
  BY DEF StopInv, Stopping, EnterStopping, QuiescingTimeout
<1>5. StopOrdered(groups')
  <2> SUFFICES ASSUME NEW i \in 1 .. n, NEW j \in 1 .. n, groups'[j] \in Producers(groups'[i])
               PROVE  j < i
    BY <1>2 DEF StopOrdered
  <2>1. n + 1 - i \in 1 .. n /\ n + 1 - j \in 1 .. n
    BY <1>1
  <2>2. n + 1 - i < n + 1 - j
    BY <1>1, <1>2, <1>4, <2>1 DEF Ordered
  <2> QED
    BY <1>1, <2>2
<1>6. TodoIsRest'
  BY <1>1, <1>2 DEF TodoIsRest
<1>7. DroppedIsDone'
  BY <1>1, <1>3 DEF StopInv, DroppedIsDone, Registered
<1> QED
  BY <1>1, <1>5, <1>6, <1>7 DEF StopInv, Stopping

\* The next group of todo is handled: the rest is again the end of the
\* registry.
LEMMA NextOfTodo ==
  ASSUME TypeInv, StopInv, Stopping, eng.todo # <<>>, groups' = groups,
         eng'.todo = Tail(eng.todo)
  PROVE  /\ TodoIsRest'
         /\ Len(groups) - Len(eng.todo) + 1 \in 1 .. Len(groups)
         /\ groups[Len(groups) - Len(eng.todo) + 1] = Head(eng.todo)
         /\ Len(groups') - Len(eng'.todo) = Len(groups) - Len(eng.todo) + 1
<1> DEFINE t == eng.todo
<1>1. t \in Seq(Roles) /\ groups \in Seq(Roles) /\ t # <<>>
  BY DEF TypeInv, TypeOK, EngineRec
<1>2. Len(t) <= Len(groups) /\ \A i \in 1 .. Len(t) : t[i] = groups[Len(groups) - Len(t) + i]
  BY DEF StopInv, TodoIsRest
<1>3. eng'.todo = Tail(t)
  OBVIOUS
<1> HIDE DEF t
<1>4. /\ Len(t) \in Nat \ {0} /\ Len(groups) \in Nat /\ Len(Tail(t)) = Len(t) - 1 /\ Head(t) = t[1]
      /\ \A i \in 1 .. Len(Tail(t)) : Tail(t)[i] = t[i + 1]
  BY <1>1
<1>5. \A i \in 1 .. Len(Tail(t)) :
         Tail(t)[i] = groups[Len(groups) - Len(Tail(t)) + i]
  <2> SUFFICES ASSUME NEW i \in 1 .. Len(Tail(t))
               PROVE  Tail(t)[i] = groups[Len(groups) - Len(Tail(t)) + i]
    OBVIOUS
  <2>1. i + 1 \in 1 .. Len(t) /\ Len(groups) - Len(t) + (i + 1) = Len(groups) - Len(Tail(t)) + i
    BY <1>4
  <2> QED
    BY <1>2, <1>4, <2>1
<1>6. Len(Tail(t)) <= Len(groups)
  BY <1>2, <1>4
<1>7. TodoIsRest'
  BY <1>3, <1>5, <1>6 DEF TodoIsRest
<1>8. /\ Len(groups) - Len(t) + 1 \in 1 .. Len(groups)
      /\ Len(groups) - Len(Tail(t)) = Len(groups) - Len(t) + 1
      /\ 1 \in 1 .. Len(t)
  BY <1>2, <1>4
<1>9. groups[Len(groups) - Len(t) + 1] = Head(t)
  BY <1>2, <1>4, <1>8
<1>10. Len(groups') - Len(eng'.todo) = Len(groups) - Len(t) + 1
  BY <1>3, <1>8
<1> QED
  BY Zenon, <1>7, <1>8, <1>9, <1>10 DEF t

\* Isolating and stopping the groups one after the other keeps the invariant:
\* a group leaves todo only when it is down.
LEMMA StopStep ==
  ASSUME TypeInv, StopInv, Alone \/ AllAlone \/ SendStop \/ Join \/ JoinAborts \/ AllDown
  PROVE  StopInv'
<1>0. /\ groups \in Seq(Roles) /\ Len(groups) \in Nat /\ DOMAIN groups = 1 .. Len(groups)
      /\ eng \in EngineRec /\ Len(eng.todo) \in Nat
      /\ task \in [Roles -> {"run", "draining", "done"}]
      /\ Stopping
  BY DEF TypeInv, TypeOK, EngineRec, Stopping, Alone, AllAlone, SendStop, Join, JoinAborts, AllDown
<1>1. CASE Alone
  <2>1. /\ groups' = groups /\ task' = task /\ eng.todo # <<>>
        /\ eng'.todo = Tail(eng.todo) /\ eng'.pc = "alone"
    BY <1>0, <1>1 DEF Alone, tasks, EngineRec
  <2>2. TodoIsRest'
    BY <1>0, <2>1, NextOfTodo
  <2> QED
    BY <1>0, <2>1, <2>2 DEF StopInv, Stopping, DroppedIsDone, Registered, StopOrdered
<1>2. CASE AllAlone
  <2>1. groups' = groups /\ task' = task /\ eng'.todo = groups /\ eng'.pc = "down"
    BY <1>0, <1>2 DEF AllAlone, tasks, EngineRec
  <2>2. TodoIsRest' /\ Len(groups') - Len(eng'.todo) = 0
    BY <1>0, <2>1 DEF TodoIsRest
  <2> QED
    BY <1>0, <2>1, <2>2 DEF StopInv, Stopping, DroppedIsDone, Registered, StopOrdered
<1>3. CASE SendStop
  <2>1. /\ groups' = groups /\ task' = task /\ eng'.todo = eng.todo /\ eng'.pc = "down"
        /\ eng.pc = "down"
    BY <1>0, <1>3 DEF SendStop, tasks, EngineRec
  <2> QED
    BY <1>0, <2>1 DEF StopInv, Stopping, DroppedIsDone, Registered, StopOrdered, TodoIsRest
<1>4. CASE Join \/ JoinAborts
  <2>1. /\ groups' = groups /\ eng.todo # <<>> /\ eng.pc = "down"
        /\ eng'.todo = Tail(eng.todo) /\ eng'.pc = "down"
    BY <1>0, <1>4 DEF Join, JoinAborts, TypeInv, EngineRec
  <2>2. /\ \A role \in Roles : task[role] = "done" => task'[role] = "done"
        /\ task'[Head(eng.todo)] = "done"
    <3>1. Head(eng.todo) \in Roles
      BY <1>0, <2>1 DEF EngineRec
    <3> QED
      BY <1>0, <1>4, <3>1 DEF Join, JoinAborts, tasks
  <2>3. /\ TodoIsRest'
        /\ groups[Len(groups) - Len(eng.todo) + 1] = Head(eng.todo)
        /\ Len(groups') - Len(eng'.todo) = Len(groups) - Len(eng.todo) + 1
        /\ Len(groups) - Len(eng.todo) + 1 \in 1 .. Len(groups)
    BY <1>0, <2>1, NextOfTodo
  <2>4. \A i \in 1 .. Len(groups') - Len(eng'.todo) : task'[groups'[i]] = "done"
    <3> SUFFICES ASSUME NEW i \in 1 .. Len(groups) - Len(eng.todo) + 1
                 PROVE  task'[groups[i]] = "done"
      BY <2>1, <2>3
    <3>1. CASE i = Len(groups) - Len(eng.todo) + 1
      BY <2>2, <2>3, <3>1
    <3>2. CASE i # Len(groups) - Len(eng.todo) + 1
      <4>1. i \in 1 .. Len(groups) - Len(eng.todo) /\ i \in 1 .. Len(groups)
        BY <1>0, <2>3, <3>2
      <4>2. task[groups[i]] = "done" /\ groups[i] \in Roles
        BY <1>0, <2>1, <4>1 DEF StopInv
      <4> QED
        BY <2>2, <4>2
    <3> QED
      BY <3>1, <3>2
  <2>5. DroppedIsDone'
    BY <2>1, <2>2 DEF StopInv, DroppedIsDone, Registered
  <2> QED
    BY <1>0, <2>1, <2>3, <2>4, <2>5 DEF StopInv, Stopping, StopOrdered
<1>5. CASE AllDown
  <2>1. groups' = <<>> /\ task' = task /\ eng'.pc = "exited" /\ eng.todo = <<>> /\ eng.pc = "down"
    BY <1>0, <1>5 DEF AllDown, tasks, EngineRec
  <2>2. \A role \in Roles : task[role] = "done"
    <3> SUFFICES ASSUME NEW role \in Roles, Registered(role) PROVE task[role] = "done"
      BY DEF StopInv, DroppedIsDone
    <3>1. PICK i \in 1 .. Len(groups) : groups[i] = role
      BY <1>0 DEF Registered, Range
    <3>2. Len(groups) - Len(eng.todo) = Len(groups)
      BY <1>0, <2>1
    <3> QED
      BY <2>1, <3>1, <3>2 DEF StopInv
  <2>3. DroppedIsDone'
    BY <2>1, <2>2 DEF DroppedIsDone
  <2>4. Ordered(groups')
    BY <2>1 DEF Ordered
  <2> QED
    BY <2>1, <2>3, <2>4 DEF StopInv, Stopping
<1> QED
  BY <1>1, <1>2, <1>3, <1>4, <1>5

\* A reload drops only what is done, and what it registers comes last and in
\* order.
LEMMA ReloadStop ==
  ASSUME TypeInv, StopInv, PrunePicker \/ ReplaceProcessing
  PROVE  StopInv'
<1>0. /\ groups \in Seq(Roles) /\ eng \in EngineRec
      /\ task \in [Roles -> {"run", "draining", "done"}]
      /\ ~Stopping /\ ~Stopping' /\ Ordered(groups)
  BY DEF TypeInv, TypeOK, EngineRec, Stopping, PrunePicker, ReplaceProcessing, AfterCommand, StopInv
<1>1. CASE PrunePicker
  <2>1. groups' = Unfinished /\ task' = task
    BY <1>1 DEF PrunePicker, tasks
  <2>2. Range(groups') = Range(groups) \cap {role \in Roles : task[role] # "done"}
    BY <1>0, <2>1, RetainedRange DEF Unfinished
  <2>3. DroppedIsDone'
    BY <2>1, <2>2 DEF StopInv, DroppedIsDone, Registered
  <2>4. Ordered(groups')
    BY <1>0, <2>1, RetainedOrdered DEF Unfinished
  <2> QED
    BY <1>0, <2>3, <2>4 DEF StopInv, Stopping
<1>2. CASE ReplaceProcessing
  <2> DEFINE kept == Retained(groups, Roles \ Range(Processing))
             new == Processing
  <2>1. groups' = kept \o new
    BY <1>2 DEF ReplaceProcessing
  <2>2. /\ new \in Seq(Roles) /\ Len(new) = 4
        /\ new[1] = "Infra" /\ new[2] = "Sink" /\ new[3] = "Maintainer" /\ new[4] = "Parser"
    BY DEF Processing, Roles
  <2>3. kept \in Seq(Roles) /\ Range(kept) = Range(groups) \cap (Roles \ Range(new)) /\ Ordered(kept)
    BY <1>0, RetainedRange, RetainedOrdered
  <2> HIDE DEF kept, new
  <2>4. Range(new) = {"Infra", "Sink", "Maintainer", "Parser"}
    BY <2>2 DEF Range
  <2>5. /\ kept \in Seq(Roles) /\ new \in Seq(Roles)
        /\ groups' \in Seq(Roles) /\ Len(groups') = Len(kept) + Len(new)
        /\ \A i \in 1 .. Len(kept) : groups'[i] = kept[i]
        /\ \A i \in 1 .. Len(new) : groups'[Len(kept) + i] = new[i]
    <3>1. kept \in Seq(Roles) /\ new \in Seq(Roles)
      BY <2>2, <2>3
    <3> QED
      BY <2>1, <3>1, Concat
  <2>6. /\ Len(kept) \in Nat /\ DOMAIN kept = 1 .. Len(kept)
        /\ DOMAIN groups' = 1 .. Len(kept) + 4
        /\ \A i \in 1 .. 4 : groups'[Len(kept) + i] = new[i]
    BY <2>2, <2>5
  <2>7. Range(groups') = Range(kept) \cup Range(new)
    <3>1. \A i \in 1 .. Len(kept) + 4 : groups'[i] \in Range(kept) \cup Range(new)
      <4> SUFFICES ASSUME NEW i \in 1 .. Len(kept) + 4
                   PROVE  groups'[i] \in Range(kept) \cup Range(new)
        OBVIOUS
      <4>1. CASE i <= Len(kept)
        <5>1. i \in 1 .. Len(kept)
          BY <2>6, <4>1
        <5> QED
          BY <2>5, <2>6, <5>1 DEF Range
      <4>2. CASE i > Len(kept)
        <5>1. i - Len(kept) \in 1 .. 4 /\ Len(kept) + (i - Len(kept)) = i
          BY <2>6, <4>2
        <5>2. groups'[i] = new[i - Len(kept)]
          BY <2>6, <5>1
        <5> QED
          BY <2>2, <5>1, <5>2 DEF Range
      <4> QED
        BY <2>6, <4>1, <4>2
    <3>2. Range(kept) \subseteq Range(groups')
      BY <2>5, <2>6 DEF Range
    <3>3. Range(new) \subseteq Range(groups')
      <4>1. \A i \in 1 .. 4 : Len(kept) + i \in DOMAIN groups'
        BY <2>6
      <4> QED
        BY <2>2, <2>6, <4>1 DEF Range
    <3> QED
      BY <2>6, <3>1, <3>2, <3>3 DEF Range
  <2>8. DroppedIsDone'
    <3> SUFFICES ASSUME NEW role \in Roles, role \notin Range(groups') PROVE task'[role] = "done"
      BY DEF DroppedIsDone, Registered
    <3>1. role \notin {"Infra", "Sink", "Maintainer", "Parser"} /\ role \notin Range(groups)
      BY <2>3, <2>4, <2>7
    <3>2. task'[role] = task[role]
      BY <1>0, <1>2, <3>1 DEF ReplaceProcessing
    <3> QED
      BY <3>1, <3>2 DEF StopInv, DroppedIsDone, Registered
  <2>9. Ordered(groups')
    <3> SUFFICES ASSUME NEW i \in 1 .. Len(kept) + 4, NEW j \in 1 .. Len(kept) + 4,
                        groups'[j] \in Producers(groups'[i])
                 PROVE  i < j
      BY <2>6 DEF Ordered
    <3>1. CASE i <= Len(kept) /\ j <= Len(kept)
      <4>1. i \in 1 .. Len(kept) /\ j \in 1 .. Len(kept)
        BY <2>6, <3>1
      <4>2. kept[j] \in Producers(kept[i])
        BY <2>5, <4>1
      <4> QED
        BY <2>3, <2>6, <4>1, <4>2 DEF Ordered
    <3>2. CASE i <= Len(kept) /\ j > Len(kept)
      BY <2>6, <3>2
    <3>3. CASE i > Len(kept) /\ j <= Len(kept)
      <4>1. i - Len(kept) \in 1 .. 4 /\ Len(kept) + (i - Len(kept)) = i
        BY <2>6, <3>3
      <4>2. groups'[i] \in {"Infra", "Sink", "Maintainer", "Parser"}
        BY <2>2, <2>6, <4>1
      <4>3. Producers(groups'[i]) \subseteq {"Sink", "Parser"}
        BY <4>2 DEF Producers
      <4>4. groups'[j] \in Range(kept)
        <5>1. j \in 1 .. Len(kept)
          BY <2>6, <3>3
        <5> QED
          BY <2>5, <2>6, <5>1 DEF Range
      <4>5. groups'[j] \notin {"Sink", "Parser"}
        BY <2>3, <2>4, <4>4
      <4> QED
        BY <4>3, <4>5
    <3>4. CASE i > Len(kept) /\ j > Len(kept)
      <4> DEFINE a == i - Len(kept)
                 b == j - Len(kept)
      <4>1. a \in 1 .. 4 /\ Len(kept) + a = i /\ b \in 1 .. 4 /\ Len(kept) + b = j
        BY <2>6, <3>4
      <4>2. groups'[i] = new[a] /\ groups'[j] = new[b]
        BY <2>6, <4>1
      <4>3. new[b] \in Producers(new[a])
        BY <4>2
      <4> HIDE DEF a, b
      <4>4. a < b
        BY <2>2, <4>1, <4>3 DEF Producers
      <4> QED
        BY <2>6, <4>1, <4>4
    <3> QED
      BY <2>6, <3>1, <3>2, <3>3, <3>4
  <2> QED
    BY <1>0, <2>8, <2>9 DEF StopInv, Stopping
<1> QED
  BY <1>1, <1>2

\* Every step keeps the order of the stop.
LEMMA NextStop == ASSUME TypeInv, StopInv, [Next]_vars PROVE StopInv'
<1>0. eng \in EngineRec
  BY DEF TypeInv
<1>1. CASE UNCHANGED vars
  BY <1>1, TasksStop DEF vars
<1>2. CASE DataStep \/ PickerCmd \/ \E role \in Roles : TaskCmd(role)
  BY <1>2, DoneStays, TasksStop
<1>3. CASE Raise
  BY <1>3, TasksStop DEF Raise, tasks
<1>4. CASE Quiesce
  <2>1. ~Stopping /\ ~Stopping' /\ UNCHANGED <<groups, task>>
    BY <1>0, <1>4 DEF Quiesce, tasks, Stopping, EngineRec
  <2> QED
    BY <2>1, LoopStop
<1>5. CASE TakeRequest
  <2>1. ~Stopping /\ ~Stopping' /\ UNCHANGED <<groups, task>>
    BY <1>0, <1>5 DEF TakeRequest, tasks, Stopping, EngineRec
  <2> QED
    BY <2>1, LoopStop
<1>6. CASE CommandPicker
  <2>1. ~Stopping /\ ~Stopping' /\ UNCHANGED <<groups, task>>
    BY <1>0, <1>6 DEF CommandPicker, AfterCommand, tasks, Stopping, EngineRec
  <2> QED
    BY <2>1, LoopStop
<1> QED
  BY <1>1, <1>2, <1>3, <1>4, <1>5, <1>6, EnterStop, StopStep, ReloadStop DEF Next, EngineStep

\* The group that is joined has no producer left: one that is registered
\* stands before it in the reversed registry, one that is not is done.
LEMMA StopInvSuffices == ASSUME TypeInv, StopInv PROVE ProducersStopFirst
<1> SUFFICES ASSUME eng.pc = "down", eng.joining, NEW producer \in Producers(Head(eng.todo))
             PROVE  task[producer] = "done"
  BY DEF ProducersStopFirst
<1> DEFINE t == eng.todo
           k == Len(groups) - Len(t) + 1
<1>1. /\ groups \in Seq(Roles) /\ t \in Seq(Roles) /\ t # <<>>
      /\ StopOrdered(groups) /\ TodoIsRest /\ DroppedIsDone
      /\ \A i \in 1 .. Len(groups) - Len(t) : task[groups[i]] = "done"
  BY DEF TypeInv, TypeOK, EngineRec, StopInv, Stopping
<1>2. /\ Len(t) <= Len(groups)
      /\ \A i \in 1 .. Len(t) : t[i] = groups[Len(groups) - Len(t) + i]
  BY <1>1 DEF TodoIsRest
<1>3. producer \in Producers(Head(t))
  OBVIOUS
<1> HIDE DEF t
<1>4. /\ Len(t) \in Nat \ {0} /\ Len(groups) \in Nat /\ Head(t) = t[1]
      /\ DOMAIN groups = 1 .. Len(groups)
  BY <1>1
<1>5. k \in 1 .. Len(groups) /\ 1 \in 1 .. Len(t)
  BY <1>2, <1>4
<1>6. Head(t) = groups[k]
  BY <1>2, <1>4, <1>5
<1>7. Head(t) \in Roles /\ producer \in Roles
  <2>1. Head(t) \in Roles
    BY <1>1
  <2>2. Producers(Head(t)) \subseteq {"Picker", "Parser", "Sink", "Infra"}
    BY <2>1 DEF Producers
  <2> QED
    BY <1>3, <2>1, <2>2 DEF Roles
<1>8. CASE Registered(producer)
  <2>1. PICK j \in 1 .. Len(groups) : groups[j] = producer
    BY <1>4, <1>8 DEF Registered, Range
  <2>2. j < k
    BY <1>1, <1>3, <1>4, <1>5, <1>6, <2>1 DEF StopOrdered
  <2>3. j \in 1 .. Len(groups) - Len(t)
    BY <1>4, <1>5, <2>2
  <2> QED
    BY <1>1, <2>1, <2>3
<1>9. CASE ~Registered(producer)
  BY <1>1, <1>7, <1>9 DEF DroppedIsDone
<1> QED
  BY <1>8, <1>9

\* Whatever reloads and prunes did to the registry, and whenever the stop
\* begins: a group is told to stop and joined only when the tasks that send to
\* it have ended.
THEOREM ProducersGoFirst == Spec => []ProducersStopFirst
<1> DEFINE Inv == TypeInv /\ StopInv
<1>1. Init => Inv
  BY InitType, InitStop
<1>2. Inv /\ [Next]_vars => Inv'
  BY NextType, NextStop
<1>3. Inv => ProducersStopFirst
  BY StopInvSuffices
<1> QED
  BY <1>1, <1>2, <1>3, PTL DEF Spec

-----------------------------------------------------------------------------
(* A batch run that no signal ends *)

\* The engine leaves its loop only when the parser has ended, and until then
\* nobody is told anything: the outputs take all the parser sends.
BatchFacts ==
  /\ eng.pc \in {"loop", "alone", "down", "exited"}
  /\ eng.pc # "exited" => Range(groups) = Roles \ {"Acceptor"}
  /\ eng.pc = "loop" => /\ \A role \in Roles : cmdq[role] = <<>>
                        /\ \A role \in Outputs : task[role] = "run"
  /\ eng.pc # "loop" => task["Parser"] = "done"
  /\ eng.pc = "exited" => \A role \in Outputs : task[role] = "done"
  /\ lost = 0
  /\ task["Picker"] = "done" => src = 0
  /\ ~routed => task["Picker"] = "done"
  /\ task["Parser"] = "done" => parseq = 0 /\ ~routed
  /\ \A role \in Outputs : task[role] = "done" => outq[role] = 0
BatchInv == mode = "Batch" /\ signal # "seen" => BatchFacts

\* A batch run starts with every group but the acceptor running.
LEMMA InitBatch == Init => BatchInv
<1> SUFFICES ASSUME Init, mode = "Batch" PROVE BatchFacts
  BY DEF BatchInv
<1>1. Range(groups) = Roles \ {"Acceptor"}
  <2>1. DOMAIN groups = 1 .. 6 /\ \A i \in 1 .. 6 : groups[i] = Start[i]
    BY StartRegistry
  <2>2. /\ Start[1] = "Monitor" /\ Start[2] = "Infra" /\ Start[3] = "Sink"
        /\ Start[4] = "Maintainer" /\ Start[5] = "Parser" /\ Start[6] = "Picker"
    BY DEF Start
  <2>3. Range(groups) = {"Monitor", "Infra", "Sink", "Maintainer", "Parser", "Picker"}
    BY <2>1, <2>2 DEF Range
  <2> QED
    BY <2>3 DEF Roles
<1> QED
  BY <1>1 DEF Init, BatchFacts, Registered, Roles, Outputs

\* The tasks keep the facts.
LEMMA TasksBatch ==
  ASSUME TypeInv, BatchFacts, DataStep \/ PickerCmd \/ \E role \in Roles : TaskCmd(role)
  PROVE  BatchFacts'
<1>0. /\ task \in [Roles -> {"run", "draining", "done"}]
      /\ cmdq \in [Roles -> Seq({"Isolate", "Execute", "Stop"})]
      /\ parseq \in Nat /\ src \in Nat /\ outq \in [Outputs -> 0 .. ChanCap]
      /\ "Parser" \in Roles /\ "Picker" \in Roles /\ "Sink" \in Roles /\ "Infra" \in Roles
      /\ Outputs = {"Sink", "Infra"}
  BY TaskManagerAssumption DEF TypeInv, TypeOK, Roles, Outputs
<1>1. CASE PickerPosts
  BY <1>0, <1>1 DEF PickerPosts, engine, BatchFacts
<1>2. CASE PickerEnds
  BY <1>0, <1>2 DEF PickerEnds, engine, flow, BatchFacts
<1>3. CASE ParserWorks
  BY <1>0, <1>3 DEF ParserWorks, engine, BatchFacts
<1>4. CASE ParserEof
  BY <1>0, <1>4 DEF ParserEof, engine, flow, BatchFacts
<1>5. ASSUME NEW role \in Outputs, OutWorks(role) \/ OutEnds(role) PROVE BatchFacts'
  BY <1>0, <1>5 DEF OutWorks, OutEnds, engine, flow, BatchFacts
<1>6. CASE PickerCmd
  BY <1>0, <1>6 DEF PickerCmd, engine, flow, BatchFacts
<1>7. ASSUME NEW role \in Roles, TaskCmd(role) PROVE BatchFacts'
  BY <1>0, <1>7 DEF TaskCmd, engine, BatchFacts
<1> QED
  BY <1>1, <1>2, <1>3, <1>4, <1>5, <1>6, <1>7 DEF DataStep

\* The engine keeps them too, unless it acts on a signal: in batch mode no
\* reload is taken, and without a signal only the end of the parser begins the
\* stop.
LEMMA EngineBatch ==
  ASSUME TypeInv, StopInv, BatchInv, mode = "Batch", signal' # "seen",
         EngineStep \/ Raise \/ TakeRequest
  PROVE  BatchFacts'
<1>0. /\ task \in [Roles -> {"run", "draining", "done"}]
      /\ eng \in EngineRec /\ groups \in Seq(Roles)
  BY DEF TypeInv, TypeOK
<1>1. BatchFacts
  <2>1. signal # "seen"
    BY DEF EngineStep, Raise, TakeRequest, Quiesce, EnterStopping, QuiescingTimeout, Alone, AllAlone,
           SendStop, Join, JoinAborts, AllDown, PrunePicker, CommandPicker, ReplaceProcessing, Seen
  <2> QED
    BY <2>1 DEF BatchInv
<1>2. eng.pc \in {"loop", "alone", "down", "exited"}
  BY <1>1 DEF BatchFacts
<1>3. CASE Raise
  BY <1>1, <1>3 DEF Raise, tasks, flow, BatchFacts
<1>4. CASE Quiesce
  <2>1. task["Picker"] = "done"
    <3>1. role_finished("Picker")
      BY <1>0, <1>4 DEF Quiesce, decide, Seen, EngineRec
    <3> QED
      BY <3>1 DEF role_finished
  <2>2. /\ cmdq' = cmdq /\ ~routed' /\ eng'.pc = eng.pc /\ groups' = groups
        /\ task' = task /\ UNCHANGED flow
    BY <1>0, <1>4 DEF Quiesce, tasks, EngineRec
  <2> QED
    BY <1>1, <2>1, <2>2 DEF BatchFacts, flow
<1>5. CASE EnterStopping
  <2>1. task["Parser"] = "done"
    <3>1. role_finished("Parser")
      BY <1>0, <1>5 DEF EnterStopping, decide, Seen, EngineRec
    <3> QED
      BY <3>1 DEF role_finished
  <2>2. /\ eng'.pc = "alone" /\ routed' = routed /\ task' = task /\ UNCHANGED flow
        /\ groups' = Reversed /\ eng.pc = "loop"
    BY <1>0, <1>5 DEF EnterStopping, tasks, EngineRec
  <2>3. Range(groups') = Range(groups)
    BY <1>0, <2>2, ReversedRange
  <2> QED
    BY <1>1, <2>1, <2>2, <2>3 DEF BatchFacts, flow
<1>6. ~QuiescingTimeout
  BY <1>0 DEF QuiescingTimeout, decide, EngineRec
<1>7. CASE Alone \/ AllAlone \/ SendStop \/ Join
  <2>1. /\ eng.pc \in {"alone", "down"} /\ eng'.pc \in {"alone", "down"}
        /\ routed' = routed /\ task' = task /\ UNCHANGED flow /\ groups' = groups
    BY <1>0, <1>7 DEF Alone, AllAlone, SendStop, Join, tasks, EngineRec
  <2> QED
    BY <1>1, <2>1 DEF BatchFacts, flow
<1>8. CASE JoinAborts
  <2>1. /\ eng.pc = "down" /\ eng'.pc = "down" /\ routed' = routed /\ UNCHANGED flow
        /\ groups' = groups /\ task' = [task EXCEPT !["Acceptor"] = "done"]
    BY <1>0, <1>8 DEF JoinAborts, EngineRec
  <2>2. /\ task'["Parser"] = task["Parser"] /\ task'["Picker"] = task["Picker"]
        /\ \A role \in Outputs : task'[role] = task[role]
    BY <1>0, <2>1 DEF Outputs, Roles
  <2> QED
    BY <1>1, <2>1, <2>2 DEF BatchFacts, flow
<1>9. CASE AllDown
  <2>1. /\ eng.pc = "down" /\ eng'.pc = "exited" /\ routed' = routed /\ task' = task /\ UNCHANGED flow
        /\ groups' = <<>>
    BY <1>0, <1>9 DEF AllDown, tasks, EngineRec
  <2>2. \A role \in Roles : task'[role] = "done"
    <3>1. DroppedIsDone'
      BY <1>9, StopStep DEF StopInv
    <3>2. Range(groups') = {}
      BY <2>1 DEF Range
    <3> QED
      BY <3>1, <3>2 DEF DroppedIsDone, Registered
  <2>3. \A role \in Outputs : task'[role] = "done"
    BY <2>2 DEF Outputs, Roles
  <2> QED
    BY <1>1, <2>1, <2>3 DEF BatchFacts, flow
<1>10. ~(PrunePicker \/ CommandPicker \/ ReplaceProcessing \/ TakeRequest)
  BY <1>2 DEF PrunePicker, CommandPicker, ReplaceProcessing, TakeRequest
<1> QED
  BY <1>3, <1>4, <1>5, <1>6, <1>7, <1>8, <1>9, <1>10 DEF EngineStep

\* Every step of a batch run keeps what it delivers.
LEMMA NextBatch == ASSUME TypeInv, StopInv, BatchInv, [Next]_vars PROVE BatchInv'
<1>1. CASE UNCHANGED vars
  BY <1>1 DEF vars, flow, BatchInv, BatchFacts
<1>2. CASE DataStep \/ PickerCmd \/ \E role \in Roles : TaskCmd(role)
  <2>1. UNCHANGED <<mode, signal>>
    BY <1>2 DEF DataStep, PickerPosts, PickerEnds, ParserWorks, ParserEof, OutWorks, OutEnds, PickerCmd,
                TaskCmd, engine
  <2> QED
    BY <1>2, <2>1, TasksBatch DEF BatchInv
<1>3. CASE EngineStep \/ Raise \/ TakeRequest
  <2>1. mode' = mode
    BY <1>3 DEF EngineStep, Raise, TakeRequest, Quiesce, EnterStopping, QuiescingTimeout, Alone, AllAlone,
                SendStop, Join, JoinAborts, AllDown, PrunePicker, CommandPicker, ReplaceProcessing
  <2> QED
    BY <1>3, <2>1, EngineBatch DEF BatchInv
<1> QED
  BY <1>1, <1>2, <1>3 DEF Next

\* A batch run that no signal ends delivers everything, for any number of
\* events and any capacity of the channels.
THEOREM BatchRunDelivers == Spec => []BatchDeliversAll
<1> DEFINE Inv == TypeInv /\ StopInv /\ BatchInv
<1>1. Init => Inv
  BY InitType, InitStop, InitBatch
<1>2. Inv /\ [Next]_vars => Inv'
  BY NextType, NextStop, NextBatch
<1>3. Inv => BatchDeliversAll
  <2> SUFFICES ASSUME BatchInv, mode = "Batch", eng.pc = "exited", signal # "seen"
               PROVE  src = 0 /\ parseq = 0 /\ (\A role \in Outputs : outq[role] = 0) /\ lost = 0
    BY DEF BatchDeliversAll
  <2> QED
    BY DEF BatchInv, BatchFacts
<1> QED
  BY <1>1, <1>2, <1>3, PTL DEF Spec

=============================================================================

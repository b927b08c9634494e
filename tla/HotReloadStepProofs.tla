------------------------- MODULE HotReloadStepProofs -------------------------
(***************************************************************************)
(* Proofs about HotReload: the types of every variable, what each step     *)
(* does, where the reload and its waits stand, how tasks end, which        *)
(* generations are over and what the pickers have heard.                   *)
(* The constants are any numbers of pickers, parsers, sink groups, events, *)
(* reloads and faults, any routes and any capacities.                      *)
(***************************************************************************)
EXTENDS HotReload, TLAPS

-----------------------------------------------------------------------------
(* The type invariant *)

\* The parts of the types; TypeInv is TypeOK with what it leaves open.
RoleSet == {"Parser", "Sink", "Infra"}
EngineRec ==
  [pc : {"idle", "isolate", "disconnect", "drain", "force", "join", "shutdown", "install", "resume",
         "dead"},
   active : Gens, built : Gens, todo : Seq(RoleSet), join : Nat, awaiting : BOOLEAN,
   groups : SUBSET ((Gens \X RoleSet) \cup {PickerGroup}), detached : SUBSET (Gens \X RoleSet),
   groupsLost : BOOLEAN]
Reports == [worker : Workers, outcome : {"Drained", "Aborted"}]
WaitStates == {"idle", "waiting", "quiesced", "failed"}

\* The types, also of what TypeOK leaves open; a picker that tries to send has
\* a batch and a sender to try.
PickersType ==
  /\ pk \in [Pickers -> PickerRec]
  /\ \A p \in Pickers : pk[p].pc = "try" => pk[p].k \in 1 .. Len(pk[p].snap) /\ pk[p].pend # <<>>
RouterType == router \in [senders : Seq(ParserSet), next : Nat, reloading : BOOLEAN]
WorkersType ==
  /\ wk \in [Workers -> WorkerRec]
  /\ \A w \in ParserSet : Len(wk[w].ch) <= ChanCap
  /\ \A w \in OutSet : Len(wk[w].ch) <= OutCap
DrainType ==
  /\ drain \in [Gens -> [bus : Seq(Reports), pending : [RoleSet -> Nat], wait : WaitStates]]
  /\ \A g \in Gens : \A i \in DOMAIN drain[g].bus : Gen(drain[g].bus[i].worker) = g
EngineType ==
  /\ eng \in EngineRec /\ eng.active <= eng.built
  /\ eng.pc = "join" => eng.todo # <<>>
  /\ eng.awaiting => eng.pc = "join" /\ eng.join > 0
DataType == delivered \subseteq Events /\ lost \subseteq Events /\ faults \in Nat
TypeInv == PickersType /\ RouterType /\ WorkersType /\ DrainType /\ EngineType /\ DataType

-----------------------------------------------------------------------------
(* Sequences *)

\* Taking the first element of a sequence, and appending one.
LEMMA HeadTail ==
  ASSUME NEW S, NEW s \in Seq(S), s # <<>>
  PROVE  /\ Head(s) \in S /\ Tail(s) \in Seq(S)
         /\ Len(s) \in Nat \ {0} /\ Head(s) = s[1] /\ Len(Tail(s)) = Len(s) - 1
         /\ \A i \in 1 .. Len(s) - 1 : Tail(s)[i] = s[i + 1]
         /\ Range(s) = {Head(s)} \cup Range(Tail(s))
<1>1. /\ Head(s) \in S /\ Tail(s) \in Seq(S)
      /\ Len(s) \in Nat \ {0} /\ Head(s) = s[1] /\ Len(Tail(s)) = Len(s) - 1
      /\ \A i \in 1 .. Len(s) - 1 : Tail(s)[i] = s[i + 1]
  OBVIOUS
<1>2. DOMAIN s = 1 .. Len(s) /\ DOMAIN Tail(s) = 1 .. Len(s) - 1
  BY <1>1
<1> DEFINE t == Tail(s)
<1> HIDE DEF t
<1>3. \A i \in 1 .. Len(s) : s[i] \in {Head(s)} \cup Range(t)
  <2> SUFFICES ASSUME NEW i \in 1 .. Len(s), i # 1 PROVE s[i] \in Range(t)
    BY <1>1
  <2>1. i - 1 \in 1 .. Len(s) - 1 /\ (i - 1) + 1 = i
    BY <1>1
  <2>2. t[i - 1] = s[i]
    BY <1>1, <2>1 DEF t
  <2> QED
    BY Zenon, <1>2, <2>1, <2>2 DEF t, Range
<1>4. \A i \in 1 .. Len(s) - 1 : t[i] \in Range(s)
  <2> SUFFICES ASSUME NEW i \in 1 .. Len(s) - 1 PROVE t[i] \in Range(s)
    OBVIOUS
  <2>1. i + 1 \in 1 .. Len(s)
    BY <1>1
  <2>2. t[i] = s[i + 1]
    BY <1>1 DEF t
  <2> QED
    BY <1>2, <2>1, <2>2 DEF Range
<1>5. Range(s) \subseteq {Head(s)} \cup Range(t)
  BY <1>2, <1>3 DEF Range
<1>6. Range(t) \subseteq Range(s)
  BY <1>2, <1>4 DEF t, Range
<1>7. Head(s) \in Range(s)
  BY <1>1, <1>2 DEF Range
<1> QED
  BY <1>1, <1>5, <1>6, <1>7 DEF t

\* What appending an element does to a sequence.
LEMMA Appended ==
  ASSUME NEW S, NEW s \in Seq(S), NEW e \in S
  PROVE  /\ Append(s, e) \in Seq(S) /\ Len(s) \in Nat /\ Len(Append(s, e)) = Len(s) + 1
         /\ \A i \in 1 .. Len(s) : Append(s, e)[i] = s[i]
         /\ Append(s, e)[Len(s) + 1] = e
         /\ Range(Append(s, e)) = Range(s) \cup {e}
<1> DEFINE t == Append(s, e)
<1>1. /\ t \in Seq(S) /\ Len(s) \in Nat /\ Len(t) = Len(s) + 1
      /\ \A i \in 1 .. Len(s) : t[i] = s[i]
      /\ t[Len(s) + 1] = e
      /\ DOMAIN s = 1 .. Len(s) /\ DOMAIN t = 1 .. Len(s) + 1
  OBVIOUS
<1> HIDE DEF t
<1>2. Range(t) \subseteq Range(s) \cup {e}
  <2>1. \A i \in 1 .. Len(s) + 1 : t[i] \in Range(s) \cup {e}
    <3> SUFFICES ASSUME NEW i \in 1 .. Len(s) + 1, i # Len(s) + 1 PROVE t[i] \in Range(s)
      BY <1>1
    <3>1. i \in 1 .. Len(s)
      BY <1>1
    <3> QED
      BY <1>1, <3>1 DEF Range
  <2> QED
    BY <1>1, <2>1 DEF Range
<1>3. Range(s) \cup {e} \subseteq Range(t)
  <2>1. \A i \in 1 .. Len(s) : i \in DOMAIN t /\ t[i] = s[i]
    BY <1>1
  <2>2. Len(s) + 1 \in DOMAIN t
    BY <1>1
  <2> QED
    BY <1>1, <2>1, <2>2 DEF Range
<1> QED
  BY <1>1, <1>2, <1>3 DEF t

-----------------------------------------------------------------------------
(* Workers and their groups *)

\* The three roles.
LEMMA RolesAre ==
  /\ Range(Roles) = RoleSet /\ Roles \in Seq(RoleSet) /\ Roles # <<>>
  /\ \A role \in RoleSet : NumOf(role) \in Nat
<1>1. Range(Roles) = RoleSet
  BY DEF Range, Roles, RoleSet
<1>2. Roles \in Seq(RoleSet) /\ Roles # <<>>
  BY DEF Roles, RoleSet
<1>3. \A role \in RoleSet : NumOf(role) \in Nat
  BY HotReloadAssumption DEF RoleSet, NumOf
<1> QED
  BY <1>1, <1>2, <1>3

\* A worker is its generation, its role and its index.
LEMMA WorkerIs ==
  ASSUME NEW w \in Workers
  PROVE  /\ Gen(w) \in Gens /\ Role(w) \in RoleSet /\ w[3] \in 1 .. NumOf(Role(w))
         /\ w = <<Gen(w), Role(w), w[3]>>
<1>1. PICK g \in Gens, role \in RoleSet : \E i \in 1 .. NumOf(role) : w = <<g, role, i>>
  BY RolesAre DEF Workers, WorkersOf, Group
<1> QED
  BY <1>1 DEF Gen, Role

\* And these are the workers.
LEMMA IsWorker ==
  ASSUME NEW g \in Gens, NEW role \in RoleSet, NEW i \in 1 .. NumOf(role)
  PROVE  /\ <<g, role, i>> \in Workers
         /\ Gen(<<g, role, i>>) = g /\ Role(<<g, role, i>>) = role
<1>1. <<g, role, i>> \in Group(g, role)
  BY DEF Group
<1>2. <<g, role, i>> \in WorkersOf(g)
  BY <1>1, RolesAre DEF WorkersOf
<1> QED
  BY <1>2 DEF Workers, Gen, Role

\* The workers of a group and of a generation.
LEMMA GroupIs ==
  ASSUME NEW g \in Gens, NEW role \in RoleSet
  PROVE  Group(g, role) = {w \in Workers : Gen(w) = g /\ Role(w) = role}
<1>1. ASSUME NEW w \in Group(g, role) PROVE w \in Workers /\ Gen(w) = g /\ Role(w) = role
  <2>1. PICK i \in 1 .. NumOf(role) : w = <<g, role, i>>
    BY DEF Group
  <2> QED
    BY <2>1, IsWorker
<1>2. ASSUME NEW w \in Workers, Gen(w) = g, Role(w) = role PROVE w \in Group(g, role)
  BY <1>2, WorkerIs DEF Group
<1> QED
  BY <1>1, <1>2

\* The workers of a generation are the workers with that generation.
LEMMA WorkersOfIs ==
  ASSUME NEW g \in Gens
  PROVE  WorkersOf(g) = {w \in Workers : Gen(w) = g}
<1>1. WorkersOf(g) = UNION {Group(g, role) : role \in RoleSet}
  BY RolesAre DEF WorkersOf
<1>2. ASSUME NEW w \in WorkersOf(g) PROVE w \in Workers /\ Gen(w) = g
  <2>1. PICK role \in RoleSet : w \in Group(g, role)
    BY <1>1
  <2> QED
    BY <2>1, GroupIs
<1>3. ASSUME NEW w \in Workers, Gen(w) = g PROVE w \in WorkersOf(g)
  <2>1. Role(w) \in RoleSet /\ w \in Group(g, Role(w))
    BY <1>3, WorkerIs, GroupIs
  <2> QED
    BY <1>1, <2>1
<1> QED
  BY <1>2, <1>3

\* The senders of a generation are its parsers.
LEMMA SendersAre ==
  ASSUME NEW g \in Gens
  PROVE  /\ Senders(g) \in Seq(ParserSet) /\ Len(Senders(g)) = NParsers /\ Senders(g) # <<>>
         /\ \A w \in Range(Senders(g)) : w \in ParserSet /\ Gen(w) = g
<1>1. \A i \in 1 .. NParsers : <<g, "Parser", i>> \in ParserSet /\ Gen(<<g, "Parser", i>>) = g
  BY IsWorker DEF ParserSet, RoleSet, NumOf
<1>2. Senders(g) \in [1 .. NParsers -> ParserSet] /\ NParsers \in Nat \ {0}
  BY <1>1, HotReloadAssumption DEF Senders
<1>3. Senders(g) \in Seq(ParserSet) /\ Len(Senders(g)) = NParsers /\ Senders(g) # <<>>
  BY <1>2
<1>4. \A w \in Range(Senders(g)) : w \in ParserSet /\ Gen(w) = g
  BY <1>1, <1>2 DEF Range, Senders
<1> QED
  BY <1>3, <1>4

\* An event that is not dropped at once goes to an output of its parser's
\* generation.
LEMMA RouteIs ==
  ASSUME NEW w \in Workers, NEW n \in 1 .. NEvents, Route[n] # <<>>
  PROVE  LET out == <<Gen(w), Route[n][1], Route[n][2]>>
         IN  out \in OutSet /\ Gen(out) = Gen(w)
<1>0. PICK role \in {"Sink", "Infra"} : \E i \in 1 .. NumOf(role) : Route[n] = <<role, i>>
  BY RouteAssumption
<1>1. PICK i \in 1 .. NumOf(role) : Route[n] = <<role, i>>
  BY <1>0
<1>2. Route[n][1] = role /\ Route[n][2] = i
  BY <1>1
<1>3. /\ <<Gen(w), role, i>> \in Workers /\ Gen(<<Gen(w), role, i>>) = Gen(w)
      /\ Role(<<Gen(w), role, i>>) = role
  BY WorkerIs, IsWorker DEF RoleSet
<1> QED
  BY <1>2, <1>3 DEF OutSet, ParserSet

-----------------------------------------------------------------------------
(* Types *)

\* The pieces are what TypeOK says.
LEMMA TypeInvSuffices == TypeInv => TypeOK
BY DEF TypeInv, TypeOK, PickersType, RouterType, WorkersType, EngineType, EngineRec, DataType

\* The types hold initially.
LEMMA InitType == Init => TypeInv
<1> SUFFICES ASSUME Init PROVE TypeInv
  OBVIOUS
<1> USE HotReloadAssumption
<1>1. 1 \in Gens /\ Senders(1) \in Seq(ParserSet)
  BY SendersAre DEF Gens
<1>2. RouterType
  BY <1>1 DEF Init, RouterType
<1>3. PickersType
  <2>1. <<>> \in Seq(ParserSet) /\ <<>> \in Seq({"Execute", "Isolate"}) /\ <<>> \in Seq(1 .. NEvents)
    OBVIOUS
  <2> QED
    BY <2>1 DEF Init, PickersType, PickerRec
<1>4. WorkersType
  <2>1. <<>> \in Seq(Events)
    OBVIOUS
  <2>2. wk \in [Workers -> WorkerRec] /\ \A w \in Workers : wk[w].ch = <<>>
    BY <2>1 DEF Init, WorkerRec, NoEvent
  <2>3. \A w \in Workers : Len(wk[w].ch) = 0
    BY <2>2
  <2> QED
    BY <2>2, <2>3 DEF WorkersType, ParserSet, OutSet
<1>5. EngineType
  <2>1. GroupsOf(1) \subseteq Gens \X RoleSet
    BY <1>1, RolesAre DEF GroupsOf
  <2>2. <<>> \in Seq(RoleSet)
    OBVIOUS
  <2> QED
    BY <1>1, <2>1, <2>2 DEF Init, EngineType, EngineRec
<1>6. DrainType
  <2>1. [role \in Range(Roles) |-> NumOf(role)] \in [RoleSet -> Nat]
    BY RolesAre
  <2>2. <<>> \in Seq(Reports) /\ DOMAIN <<>> = {}
    OBVIOUS
  <2>3. NewTracker \in [bus : Seq(Reports), pending : [RoleSet -> Nat], wait : WaitStates]
    BY <2>1, <2>2 DEF NewTracker, WaitStates
  <2>4. NewTracker.bus = <<>>
    BY DEF NewTracker
  <2> QED
    BY <2>2, <2>3, <2>4 DEF Init, DrainType
<1>7. DataType
  BY DEF Init, DataType
<1> QED
  BY <1>2, <1>3, <1>4, <1>5, <1>6, <1>7 DEF TypeInv

\* What a step leaves alone keeps its type.
LEMMA SameType ==
  /\ PickersType /\ UNCHANGED pk => PickersType'
  /\ RouterType /\ UNCHANGED router => RouterType'
  /\ WorkersType /\ UNCHANGED wk => WorkersType'
  /\ DrainType /\ UNCHANGED drain => DrainType'
  /\ EngineType /\ UNCHANGED eng => EngineType'
  /\ DataType /\ UNCHANGED <<data, faults>> => DataType'
BY DEF PickersType, RouterType, WorkersType, DrainType, EngineType, DataType, data

\* The round robin tries each sender once, starting somewhere.
LEMMA RotatedIs ==
  ASSUME NEW senders \in Seq(ParserSet), senders # <<>>, NEW start \in Nat
  PROVE  /\ Rotated(senders, start) \in Seq(ParserSet)
         /\ Len(Rotated(senders, start)) = Len(senders) /\ Len(senders) \in Nat \ {0}
         /\ Range(Rotated(senders, start)) \subseteq Range(senders)
<1> DEFINE n == Len(senders)
           r == Rotated(senders, start)
<1>1. n \in Nat \ {0} /\ DOMAIN senders = 1 .. n /\ \A i \in 1 .. n : senders[i] \in ParserSet
  OBVIOUS
<1>2. \A i \in 1 .. n : ((start + i - 1) % n) + 1 \in 1 .. n
  <2> HIDE DEF n
  <2> SUFFICES ASSUME NEW i \in 1 .. n PROVE ((start + i - 1) % n) + 1 \in 1 .. n
    OBVIOUS
  <2> DEFINE x == start + i - 1
  <2>1. x \in Nat
    BY <1>1
  <2> HIDE DEF x
  <2>2. x % n \in 0 .. n - 1
    BY <1>1, <2>1
  <2>3. (x % n) + 1 \in 1 .. n
    BY <1>1, <2>2
  <2> QED
    BY <2>3 DEF x
<1>3. /\ r \in [1 .. n -> ParserSet]
      /\ \A i \in 1 .. n : r[i] \in Range(senders)
  BY Zenon, <1>1, <1>2 DEF Rotated, Range
<1> HIDE DEF r, n
<1>4. r \in Seq(ParserSet) /\ Len(r) = n /\ DOMAIN r = 1 .. n
  BY <1>1, <1>3
<1>5. Range(r) \subseteq Range(senders)
  BY <1>3, <1>4 DEF Range
<1> QED
  BY <1>1, <1>4, <1>5 DEF r, n

\* One picker, or one worker, changes.
LEMMA OnePicker ==
  ASSUME PickersType, NEW p \in Pickers, NEW rec \in PickerRec,
         rec.pc = "try" => rec.k \in 1 .. Len(rec.snap) /\ rec.pend # <<>>,
         pk' = [pk EXCEPT ![p] = rec]
  PROVE  PickersType'
BY DEF PickersType

\* A step that gives one worker a typed record keeps the types of the workers.
LEMMA OneWorker ==
  ASSUME WorkersType, NEW w \in Workers, NEW rec \in WorkerRec,
         w \in ParserSet => Len(rec.ch) <= ChanCap, w \in OutSet => Len(rec.ch) <= OutCap,
         wk' = [wk EXCEPT ![w] = rec]
  PROVE  WorkersType'
BY DEF WorkersType, ParserSet, OutSet

\* A picker's step.
LEMMA PickerType ==
  ASSUME TypeInv, NEW p \in Pickers, PickerStep(p)
  PROVE  TypeInv'
<1> USE DEF TypeInv
<1>0. /\ pk \in [Pickers -> PickerRec] /\ pk[p] \in PickerRec
      /\ router.senders \in Seq(ParserSet) /\ router.next \in Nat
  BY DEF PickersType, RouterType
<1>1. CASE PollCmd(p)
  <2> DEFINE rec == [pk[p] EXCEPT !.cmd = Head(pk[p].q), !.q = Tail(pk[p].q)]
  <2>1. /\ Head(pk[p].q) \in {"Execute", "Isolate"}
        /\ Tail(pk[p].q) \in Seq({"Execute", "Isolate"})
    BY <1>0, <1>1 DEF PollCmd, PickerRec
  <2>2. rec \in PickerRec /\ rec.pc = "idle" /\ pk' = [pk EXCEPT ![p] = rec]
    BY Zenon, <1>0, <1>1, <2>1 DEF PollCmd, PickerRec
  <2> HIDE DEF rec
  <2>3. PickersType'
    BY Zenon, <2>2, OnePicker
  <2> QED
    BY <1>1, <2>3, SameType DEF PollCmd
<1>2. CASE Fetch(p)
  <2> DEFINE n == pk[p].src + 1
             rec == [pk[p] EXCEPT !.src = n, !.pend = Append(pk[p].pend, n)]
  <2>1. n \in 1 .. NEvents /\ n \in 0 .. NEvents
    BY <1>0, <1>2, HotReloadAssumption DEF Fetch, PickerRec
  <2>2. pk[p].pend \in Seq(1 .. NEvents)
    BY <1>0 DEF PickerRec
  <2>3. pk' = [pk EXCEPT ![p] = rec]
    BY <1>0, <1>2 DEF Fetch, PickerRec
  <2> HIDE DEF n
  <2>4. Append(pk[p].pend, n) \in Seq(1 .. NEvents)
    BY <2>1, <2>2
  <2>5. rec \in PickerRec /\ rec.pc = "idle"
    BY <1>0, <1>2, <2>1, <2>4 DEF Fetch, PickerRec
  <2> HIDE DEF rec
  <2>6. PickersType'
    BY Zenon, <2>3, <2>5, OnePicker
  <2> QED
    BY <1>2, <2>6, SameType DEF Fetch
<1>3. CASE Snapshot(p)
  <2>1. CASE router.senders = <<>>
    <3> DEFINE rec == [pk[p] EXCEPT !.pc = "empty"]
    <3>1. rec \in PickerRec /\ rec.pc = "empty" /\ pk' = [pk EXCEPT ![p] = rec]
      BY Zenon, <1>0, <1>3, <2>1 DEF Snapshot, PickerRec
    <3> HIDE DEF rec
    <3>2. PickersType'
      BY Zenon, <3>1, OnePicker
    <3> QED
      BY <1>3, <2>1, <3>2, SameType DEF Snapshot
  <2>2. CASE router.senders # <<>>
    <3> DEFINE r == Rotated(router.senders, router.next)
    <3>1. r \in Seq(ParserSet) /\ Len(r) \in Nat \ {0} /\ Len(router.senders) \in Nat \ {0}
      BY <1>0, <2>2, RotatedIs
    <3>2. pk' = [pk EXCEPT ![p].pc = "try", ![p].k = 1, ![p].full = FALSE, ![p].snap = r]
      BY <1>3, <2>2 DEF Snapshot
    <3> HIDE DEF r
    <3>3. PickersType'
      <4> DEFINE rec == [pk[p] EXCEPT !.pc = "try", !.k = 1, !.full = FALSE, !.snap = r]
      <4>1. pk' = [pk EXCEPT ![p] = rec]
        BY Zenon, <1>0, <3>2 DEF PickerRec
      <4>2. rec \in PickerRec /\ rec.k = 1 /\ rec.snap = r /\ rec.pend = pk[p].pend
        BY Zenon, <1>0, <3>1 DEF PickerRec
      <4>3. rec.k \in 1 .. Len(rec.snap) /\ rec.pend # <<>>
        BY <1>3, <3>1, <4>2 DEF Snapshot
      <4> HIDE DEF rec
      <4> QED
        BY Zenon, <4>1, <4>2, <4>3, OnePicker
    <3>4. RouterType'
      <4>1. (router.next + 1) % Len(router.senders) \in Nat
        BY <1>0, <3>1
      <4>2. router' = [router EXCEPT !.next = (router.next + 1) % Len(router.senders)]
        BY <1>3, <2>2 DEF Snapshot
      <4> QED
        BY <4>1, <4>2 DEF RouterType
    <3> QED
      BY <1>3, <3>3, <3>4, SameType DEF Snapshot
  <2> QED
    BY <2>1, <2>2
<1>4. CASE LoadReloading(p)
  <2>1. PickersType'
    BY Zenon, <1>0, <1>4 DEF LoadReloading, PickersType, PickerRec
  <2> QED
    BY <1>4, <2>1, SameType DEF LoadReloading
<1>5. CASE TrySend(p)
  <2> DEFINE w == pk[p].snap[pk[p].k]
             sent == RecvAlive(w) /\ Len(wk[w].ch) < ChanCap
             full == pk[p].full \/ (RecvAlive(w) /\ ~sent)
  <2>0. /\ pk[p].k \in 1 .. Len(pk[p].snap) /\ pk[p].pend # <<>>
    BY Zenon, <1>5 DEF TrySend, PickersType
  <2>1. /\ pk[p].snap \in Seq(ParserSet) /\ pk[p].pend \in Seq(1 .. NEvents)
        /\ w \in ParserSet
    BY <1>0, <2>0 DEF PickerRec
  <2>2. full \in BOOLEAN /\ sent \in BOOLEAN
    BY <1>0 DEF PickerRec, RecvAlive
  <2>3. /\ pk' = [pk EXCEPT ![p] = AfterTrySend(p, sent, full)]
        /\ wk' = IF sent THEN [wk EXCEPT ![w].ch = Append(@, <<p, Head(pk[p].pend)>>)] ELSE wk
    BY Zenon, <1>5 DEF TrySend
  <2> HIDE DEF sent, full, w
  <2>4. PickersType'
    <3>1. /\ AfterTrySend(p, sent, full) \in PickerRec
          /\ AfterTrySend(p, sent, full).pc = "try" =>
               /\ AfterTrySend(p, sent, full).k \in 1 .. Len(AfterTrySend(p, sent, full).snap)
               /\ AfterTrySend(p, sent, full).pend # <<>>
      <4>0. <<>> \in Seq(ParserSet)
        OBVIOUS
      <4>1. Tail(pk[p].pend) \in Seq(1 .. NEvents)
        BY Zenon, <2>0, <2>1, HeadTail
      <4>2. Len(pk[p].snap) \in Nat
        BY <2>1
      <4>3. CASE sent
        BY Zenon, <1>0, <4>0, <4>1, <4>3 DEF AfterTrySend, PickerRec
      <4>4. CASE ~sent /\ pk[p].k = Len(pk[p].snap)
        BY Zenon, <1>0, <4>0, <4>4 DEF AfterTrySend, PickerRec
      <4>5. CASE ~sent /\ pk[p].k # Len(pk[p].snap)
        <5>1. pk[p].k + 1 \in 1 .. Len(pk[p].snap) /\ pk[p].k + 1 \in Nat
          BY <2>0, <4>2, <4>5
        <5> QED
          BY Zenon, <1>0, <2>0, <2>1, <2>2, <4>5, <5>1 DEF AfterTrySend, PickerRec
      <4> QED
        BY <4>3, <4>4, <4>5
    <3> QED
      BY <1>0, <2>3, <3>1 DEF PickersType
  <2>5. WorkersType'
    <3>1. CASE ~sent
      BY <2>3, <3>1, SameType
    <3>2. CASE sent
      <4>0. Head(pk[p].pend) \in 1 .. NEvents
        BY Zenon, <2>0, <2>1, HeadTail
      <4>1. /\ <<p, Head(pk[p].pend)>> \in Events /\ w \in Workers /\ w \notin OutSet
        BY <2>1, <4>0 DEF Events, ParserSet, OutSet
      <4>2. /\ wk \in [Workers -> WorkerRec] /\ wk[w].ch \in Seq(Events) /\ Len(wk[w].ch) < ChanCap
        BY <3>2, <4>1 DEF WorkersType, WorkerRec, sent
      <4>3. /\ Append(wk[w].ch, <<p, Head(pk[p].pend)>>) \in Seq(Events)
            /\ Len(Append(wk[w].ch, <<p, Head(pk[p].pend)>>)) <= ChanCap
        BY <4>1, <4>2, HotReloadAssumption
      <4> DEFINE c == Append(wk[w].ch, <<p, Head(pk[p].pend)>>)
      <4>4. wk' = [wk EXCEPT ![w].ch = c]
        BY <2>3, <3>2
      <4>5. c \in Seq(Events) /\ Len(c) <= ChanCap
        BY <4>3
      <4> HIDE DEF c
      <4>6. wk' \in [Workers -> WorkerRec]
        BY ZenonT(40), <4>1, <4>2, <4>4, <4>5 DEF WorkerRec
      <4> QED
        BY <4>1, <4>2, <4>4, <4>5, <4>6 DEF WorkersType, ParserSet, OutSet
    <3> QED
      BY <3>1, <3>2
  <2> QED
    BY Zenon, <1>5, <2>4, <2>5, SameType DEF TrySend
<1> QED
  BY <1>1, <1>2, <1>3, <1>4, <1>5 DEF PickerStep

\* A report is put on the bus of the worker's generation.
LEMMA ReportType ==
  ASSUME DrainType, NEW w \in Workers, NEW outcome \in {"Drained", "Aborted"}, Report(w, outcome)
  PROVE  DrainType'
<1> DEFINE g == Gen(w)
           ev == [worker |-> w, outcome |-> outcome]
           b == Append(drain[g].bus, ev)
           T == [bus : Seq(Reports), pending : [RoleSet -> Nat], wait : WaitStates]
<1>1. g \in Gens /\ ev \in Reports /\ ev.worker = w /\ drain \in [Gens -> T] /\ drain[g] \in T
  BY Zenon, WorkerIs DEF Reports, DrainType
<1>2. drain[g].bus \in Seq(Reports)
  BY <1>1
<1>3. drain' = [drain EXCEPT ![g] = [drain[g] EXCEPT !.bus = b]]
  BY <1>1 DEF Report
<1>4. /\ b \in Seq(Reports) /\ Len(drain[g].bus) \in Nat /\ Len(b) = Len(drain[g].bus) + 1
      /\ \A i \in 1 .. Len(drain[g].bus) : b[i] = drain[g].bus[i]
      /\ b[Len(drain[g].bus) + 1] = ev
  <2> HIDE DEF ev, g
  <2> QED
    BY <1>1, <1>2, Appended
<1> HIDE DEF b, ev, g
<1>5. drain' \in [Gens -> T] /\ drain'[g].bus = b /\ \A h \in Gens : h # g => drain'[h] = drain[h]
  BY Zenon, <1>1, <1>3, <1>4
<1>6. \A i \in DOMAIN b : Gen(b[i].worker) = g
  <2> SUFFICES ASSUME NEW i \in 1 .. Len(drain[g].bus) + 1 PROVE Gen(b[i].worker) = g
    BY <1>4
  <2>1. CASE i = Len(drain[g].bus) + 1
    BY <1>1, <1>4, <2>1 DEF g
  <2>2. CASE i # Len(drain[g].bus) + 1
    <3>1. i \in 1 .. Len(drain[g].bus) /\ i \in DOMAIN drain[g].bus
      BY <1>2, <1>4, <2>2
    <3> QED
      BY <1>1, <1>4, <3>1 DEF DrainType
  <2> QED
    BY <2>1, <2>2
<1> QED
  BY <1>5, <1>6 DEF DrainType

\* What a worker's record and channel hold.
LEMMA WorkerHas ==
  ASSUME WorkersType, NEW w \in Workers
  PROVE  /\ wk \in [Workers -> WorkerRec] /\ wk[w] \in WorkerRec /\ wk[w].ch \in Seq(Events)
         /\ wk[w].hand \in Events \cup {NoEvent} /\ Range(wk[w].ch) \subseteq Events
         /\ Len(wk[w].ch) \in Nat /\ <<>> \in Seq(Events) /\ Len(<<>>) = 0
         /\ w \in ParserSet => w \notin OutSet /\ Len(wk[w].ch) <= ChanCap
         /\ w \notin ParserSet => w \in OutSet /\ Len(wk[w].ch) <= OutCap
         /\ ChanCap \in Nat /\ OutCap \in Nat /\ wk[w].stop \in BOOLEAN
<1>1. wk \in [Workers -> WorkerRec] /\ wk[w] \in WorkerRec /\ wk[w].ch \in Seq(Events)
  BY DEF WorkersType, WorkerRec
<1>2. wk[w].hand \in Events \cup {NoEvent} /\ wk[w].stop \in BOOLEAN
  BY <1>1 DEF WorkerRec
<1>3. Range(wk[w].ch) \subseteq Events
  BY <1>1 DEF Range
<1>4. Len(wk[w].ch) \in Nat /\ <<>> \in Seq(Events) /\ Len(<<>>) = 0
  BY <1>1
<1>5. /\ w \in ParserSet => w \notin OutSet /\ Len(wk[w].ch) <= ChanCap
      /\ w \notin ParserSet => w \in OutSet /\ Len(wk[w].ch) <= OutCap
  BY DEF WorkersType, OutSet
<1> QED
  BY <1>1, <1>2, <1>3, <1>4, <1>5, HotReloadAssumption

\* A parser's step.
LEMMA ParserRecvType == ASSUME TypeInv, NEW w \in Workers, ParserRecv(w) PROVE TypeInv'
<1> DEFINE rec == [wk[w] EXCEPT !.hand = Head(wk[w].ch), !.ch = Tail(wk[w].ch)]
<1>0. WorkersType
  BY DEF TypeInv
<1>1. /\ Head(wk[w].ch) \in Events /\ Tail(wk[w].ch) \in Seq(Events)
      /\ Len(Tail(wk[w].ch)) = Len(wk[w].ch) - 1 /\ Len(wk[w].ch) \in Nat \ {0}
  BY <1>0, WorkerHas, HeadTail DEF ParserRecv
<1>2. rec \in WorkerRec /\ rec.ch = Tail(wk[w].ch)
  BY Zenon, <1>0, <1>1, WorkerHas DEF WorkerRec
<1>3. wk' = [wk EXCEPT ![w] = rec]
  BY <1>0, WorkerHas DEF ParserRecv, WorkerRec
<1> HIDE DEF rec
<1>4. (w \in ParserSet => Len(rec.ch) <= ChanCap) /\ (w \in OutSet => Len(rec.ch) <= OutCap)
  BY <1>0, <1>1, <1>2, WorkerHas
<1>5. WorkersType'
  BY Zenon, <1>0, <1>2, <1>3, <1>4, OneWorker
<1> QED
  BY <1>5, SameType DEF TypeInv, ParserRecv

\* A worker drops its channel or keeps it, and what it has in hand.
LEMMA ClearedType ==
  ASSUME WorkersType, NEW w \in Workers,
         NEW st \in {"off", "run", "draining", "tail", "done", "failed", "panicked"},
         NEW ch \in {wk[w].ch, <<>>}, NEW hand \in {wk[w].hand, NoEvent},
         NEW rep \in {"armed", "Drained", "Aborted"},
         wk' = [wk EXCEPT ![w] = [wk[w] EXCEPT !.st = st, !.ch = ch, !.hand = hand, !.rep = rep]]
  PROVE  WorkersType'
<1> DEFINE rec == [wk[w] EXCEPT !.st = st, !.ch = ch, !.hand = hand, !.rep = rep]
<1>1. rec \in WorkerRec /\ rec.ch = ch
  BY Zenon, WorkerHas DEF WorkerRec
<1>2. (w \in ParserSet => Len(rec.ch) <= ChanCap) /\ (w \in OutSet => Len(rec.ch) <= OutCap)
  BY <1>1, WorkerHas
<1> HIDE DEF rec
<1> QED
  BY Zenon, <1>1, <1>2, OneWorker DEF rec

\* An event moves from a parser's hand into an output's channel.
LEMMA HandedType ==
  ASSUME WorkersType, NEW w \in Workers, NEW out \in OutSet, out # w, NEW ev \in Events,
         Len(wk[out].ch) < OutCap,
         wk' = [wk EXCEPT ![w].hand = NoEvent, ![out].ch = Append(@, ev)]
  PROVE  WorkersType'
<1> DEFINE c == Append(wk[out].ch, ev)
<1>1. out \in Workers /\ out \notin ParserSet
  BY DEF OutSet
<1>2. c \in Seq(Events) /\ Len(c) <= OutCap
  BY <1>1, WorkerHas, Appended
<1>3. wk' = [wk EXCEPT ![w].hand = NoEvent, ![out].ch = c]
  BY <1>1, WorkerHas
<1> HIDE DEF c
<1>4. /\ wk' \in [Workers -> WorkerRec] /\ wk'[out].ch = c
      /\ \A v \in Workers : v # out => wk'[v].ch = wk[v].ch
  <2> DEFINE r1 == [wk[w] EXCEPT !.hand = NoEvent]
             r2 == [wk[out] EXCEPT !.ch = c]
  <2>1. r1 \in WorkerRec /\ r1.ch = wk[w].ch
    BY Zenon, WorkerHas DEF WorkerRec
  <2>2. r2 \in WorkerRec /\ r2.ch = c
    BY Zenon, <1>1, <1>2, WorkerHas DEF WorkerRec
  <2>3. wk \in [Workers -> WorkerRec] /\ wk' = [wk EXCEPT ![w] = r1, ![out] = r2]
    BY Zenon, <1>1, <1>3, WorkerHas
  <2> HIDE DEF r1, r2
  <2> QED
    BY Zenon, <1>1, <2>1, <2>2, <2>3
<1>5. \A v \in ParserSet : v \in Workers /\ v # out
  BY <1>1 DEF ParserSet
<1>6. \A v \in OutSet : v \in Workers
  BY DEF OutSet
<1> QED
  BY Zenon, <1>2, <1>4, <1>5, <1>6 DEF WorkersType

\* A parser that sends its event on, or gives it up.
LEMMA ParserForwardType == ASSUME TypeInv, NEW w \in ParserSet, ParserForward(w) PROVE TypeInv'
<1> DEFINE ev == wk[w].hand
           out == <<Gen(w), Route[ev[2]][1], Route[ev[2]][2]>>
<1>0. WorkersType /\ w \in Workers /\ DataType
  BY DEF TypeInv, ParserSet
<1>1. ev \in Events /\ ev[2] \in 1 .. NEvents
  BY Zenon, <1>0, WorkerHas DEF ParserForward, Events
<1>2. Route[ev[2]] # <<>> => out \in OutSet /\ out # w
  <2> DEFINE n == ev[2]
  <2>1. n \in 1 .. NEvents
    BY <1>1
  <2> HIDE DEF n
  <2>2. Route[n] # <<>> => <<Gen(w), Route[n][1], Route[n][2]>> \in OutSet
    BY <1>0, <2>1, RouteIs
  <2>3. w \notin OutSet
    BY DEF OutSet
  <2> QED
    BY <2>2, <2>3 DEF n
<1>3. UNCHANGED <<pk, router, eng, faults>>
  BY Zenon DEF ParserForward
<1>4. CASE /\ Route[ev[2]] = <<>>
           /\ wk' = [wk EXCEPT ![w].hand = NoEvent]
           /\ delivered' = delivered \cup {ev} /\ UNCHANGED <<drain, lost>>
  <2>1. wk' = [wk EXCEPT ![w] = [wk[w] EXCEPT !.st = wk[w].st, !.ch = wk[w].ch, !.hand = NoEvent,
                                              !.rep = wk[w].rep]]
    BY Zenon, <1>0, <1>4, WorkerHas DEF WorkerRec
  <2>2. WorkersType'
    BY Zenon, <1>0, <2>1, ClearedType, WorkerHas DEF WorkerRec
  <2>3. DataType'
    BY <1>0, <1>1, <1>3, <1>4 DEF DataType
  <2> QED
    BY <1>3, <1>4, <2>2, <2>3, SameType DEF TypeInv
<1>5. CASE /\ Route[ev[2]] # <<>> /\ Len(wk[out].ch) < OutCap
           /\ wk' = [wk EXCEPT ![w].hand = NoEvent, ![out].ch = Append(@, ev)]
           /\ UNCHANGED <<drain, data>>
  <2>1. WorkersType'
    <3> HIDE DEF out, ev
    <3> QED
      BY Zenon, <1>0, <1>1, <1>2, <1>5, HandedType
  <2> QED
    BY Zenon, <1>3, <1>5, <2>1, SameType DEF TypeInv
<1>6. CASE /\ wk' = [wk EXCEPT ![w].st = "failed", ![w].hand = NoEvent, ![w].ch = <<>>,
                               ![w].rep = "Aborted"]
           /\ Report(w, "Aborted")
           /\ lost' = lost \cup {ev} \cup Range(wk[w].ch) /\ UNCHANGED delivered
  <2>1. wk' = [wk EXCEPT ![w] = [wk[w] EXCEPT !.st = "failed", !.ch = <<>>, !.hand = NoEvent,
                                              !.rep = "Aborted"]]
    BY Zenon, <1>0, <1>6, WorkerHas DEF WorkerRec
  <2>2. WorkersType'
    BY Zenon, <1>0, <2>1, ClearedType
  <2>3. DataType'
    BY <1>0, <1>1, <1>3, <1>6, WorkerHas DEF DataType
  <2>4. DrainType'
    BY <1>0, <1>6, ReportType DEF TypeInv
  <2> QED
    BY <1>3, <2>2, <2>3, <2>4, SameType DEF TypeInv
<1>7. CASE /\ wk' = [wk EXCEPT ![w].hand = NoEvent]
           /\ lost' = lost \cup {ev} /\ UNCHANGED <<drain, delivered>>
  <2>1. wk' = [wk EXCEPT ![w] = [wk[w] EXCEPT !.st = wk[w].st, !.ch = wk[w].ch, !.hand = NoEvent,
                                              !.rep = wk[w].rep]]
    BY Zenon, <1>0, <1>7, WorkerHas DEF WorkerRec
  <2>2. WorkersType'
    BY Zenon, <1>0, <2>1, ClearedType, WorkerHas DEF WorkerRec
  <2>3. DataType'
    BY <1>0, <1>1, <1>3, <1>7 DEF DataType
  <2> QED
    BY <1>3, <1>7, <2>2, <2>3, SameType DEF TypeInv
<1> HIDE DEF ev, out
<1> QED
  BY Zenon, <1>4, <1>5, <1>6, <1>7 DEF ParserForward, ev, out

\* A worker's loop or task ends.
LEMMA EndType ==
  ASSUME TypeInv, NEW w \in Workers,
         \/ ParserLoopEnds(w) \/ OutDrained(w) \/ TaskReturns(w) \/ OutStop(w) \/ OutRecv(w)
         \/ \E st \in {"failed", "panicked"} : Fault(w, st)
  PROVE  TypeInv'
<1>0. WorkersType /\ DataType /\ DrainType
  BY DEF TypeInv
<1>1. CASE ParserLoopEnds(w) \/ OutDrained(w)
  <2>1. wk' = [wk EXCEPT ![w] = [wk[w] EXCEPT !.st = "tail", !.ch = wk[w].ch, !.hand = wk[w].hand,
                                              !.rep = "Drained"]]
    BY Zenon, <1>0, <1>1, WorkerHas DEF WorkerRec, ParserLoopEnds, OutDrained
  <2>2. WorkersType'
    BY Zenon, <1>0, <2>1, ClearedType
  <2>3. DrainType'
    BY <1>0, <1>1, ReportType DEF ParserLoopEnds, OutDrained
  <2> QED
    BY <1>1, <2>2, <2>3, SameType DEF TypeInv, ParserLoopEnds, OutDrained
<1>2. CASE TaskReturns(w)
  <2>1. wk' = [wk EXCEPT ![w] = [wk[w] EXCEPT !.st = "done", !.ch = <<>>, !.hand = wk[w].hand,
                                              !.rep = wk[w].rep]]
    BY Zenon, <1>0, <1>2, WorkerHas DEF WorkerRec, TaskReturns
  <2>2. WorkersType'
    BY Zenon, <1>0, <2>1, ClearedType, WorkerHas DEF WorkerRec
  <2>3. DataType'
    BY <1>0, <1>2, WorkerHas DEF DataType, TaskReturns
  <2> QED
    BY <1>2, <2>2, <2>3, SameType DEF TypeInv, TaskReturns
<1>3. CASE OutStop(w)
  <2>1. wk' = [wk EXCEPT ![w] = [wk[w] EXCEPT !.st = "draining", !.ch = wk[w].ch, !.hand = wk[w].hand,
                                              !.rep = wk[w].rep]]
    BY Zenon, <1>0, <1>3, WorkerHas DEF WorkerRec, OutStop
  <2>2. WorkersType'
    BY Zenon, <1>0, <2>1, ClearedType, WorkerHas DEF WorkerRec
  <2> QED
    BY <1>3, <2>2, SameType DEF TypeInv, OutStop
<1>4. ASSUME NEW st \in {"failed", "panicked"}, Fault(w, st) PROVE TypeInv'
  <2>1. wk' = [wk EXCEPT ![w] = [wk[w] EXCEPT !.st = st, !.ch = <<>>, !.hand = NoEvent,
                                              !.rep = "Aborted"]]
    BY Zenon, <1>0, <1>4, WorkerHas DEF WorkerRec, Fault
  <2>2. WorkersType'
    BY Zenon, <1>0, <2>1, ClearedType
  <2>3. DataType'
    BY <1>0, <1>4, WorkerHas DEF DataType, Fault
  <2>4. DrainType'
    BY <1>0, <1>4, ReportType DEF Fault
  <2> QED
    BY <1>4, <2>2, <2>3, <2>4, SameType DEF TypeInv, Fault
<1>5. CASE OutRecv(w)
  <2> DEFINE rec == [wk[w] EXCEPT !.ch = Tail(wk[w].ch)]
  <2>1. /\ Head(wk[w].ch) \in Events /\ Tail(wk[w].ch) \in Seq(Events)
        /\ Len(Tail(wk[w].ch)) = Len(wk[w].ch) - 1 /\ Len(wk[w].ch) \in Nat \ {0}
    BY <1>0, <1>5, WorkerHas, HeadTail DEF OutRecv
  <2>2. rec \in WorkerRec /\ rec.ch = Tail(wk[w].ch)
    BY Zenon, <1>0, <2>1, WorkerHas DEF WorkerRec
  <2>3. wk' = [wk EXCEPT ![w] = rec]
    BY <1>0, <1>5, WorkerHas DEF OutRecv, WorkerRec
  <2> HIDE DEF rec
  <2>4. (w \in ParserSet => Len(rec.ch) <= ChanCap) /\ (w \in OutSet => Len(rec.ch) <= OutCap)
    BY <1>0, <2>1, <2>2, WorkerHas
  <2>5. WorkersType'
    BY Zenon, <1>0, <2>2, <2>3, <2>4, OneWorker
  <2>6. DataType'
    BY <1>0, <1>5, <2>1 DEF DataType, OutRecv
  <2> QED
    BY <1>5, <2>5, <2>6, SameType DEF TypeInv, OutRecv
<1> QED
  BY <1>1, <1>2, <1>3, <1>4, <1>5

\* A step of the engine starts or stops workers: their channels stay.
LEMMA SignalledType ==
  ASSUME WorkersType, wk' \in [Workers -> WorkerRec],
         \A w \in Workers : wk'[w].ch = wk[w].ch
  PROVE  WorkersType'
BY DEF WorkersType, ParserSet, OutSet

\* The pickers are sent a command.
LEMMA CommandType ==
  ASSUME PickersType, NEW e, NEW cmd \in {"Execute", "Isolate"}, pk' = Command(e, cmd)
  PROVE  PickersType'
<1>1. CASE PickerGroup \notin e.groups
  BY <1>1, SameType DEF Command
<1>2. CASE PickerGroup \in e.groups
  <2>1. pk' = [p \in Pickers |-> IF Exited(p) THEN pk[p] ELSE [pk[p] EXCEPT !.q = Append(@, cmd)]]
    BY <1>2 DEF Command
  <2>2. ASSUME NEW p \in Pickers
        PROVE  /\ pk'[p] \in PickerRec
               /\ pk'[p].pc = "try" => pk'[p].k \in 1 .. Len(pk'[p].snap) /\ pk'[p].pend # <<>>
    <3>1. pk[p] \in PickerRec /\ Append(pk[p].q, cmd) \in Seq({"Execute", "Isolate"})
      BY DEF PickersType, PickerRec
    <3> DEFINE q == Append(pk[p].q, cmd)
               rec == [pk[p] EXCEPT !.q = q]
    <3>2. pk'[p] = IF Exited(p) THEN pk[p] ELSE rec
      BY <2>1
    <3> HIDE DEF q
    <3>3. /\ rec \in PickerRec /\ rec.pc = pk[p].pc /\ rec.k = pk[p].k /\ rec.snap = pk[p].snap
          /\ rec.pend = pk[p].pend
      BY Zenon, <3>1 DEF PickerRec, q
    <3> HIDE DEF rec
    <3> QED
      BY <3>1, <3>2, <3>3 DEF PickersType
  <2> QED
    BY <2>1, <2>2 DEF PickersType
<1> QED
  BY <1>1, <1>2

\* Finished groups are pruned.
LEMMA PrunedIs ==
  ASSUME NEW e \in EngineRec
  PROVE  /\ Pruned(e) \in EngineRec
         /\ Pruned(e) = [e EXCEPT !.groups = Pruned(e).groups, !.detached = Pruned(e).detached]
         /\ Pruned(e).groups = {grp \in e.groups : ~GroupFinished(grp)}
BY Zenon DEF Pruned, EngineRec

\* The wait, the bus and the counts of the active generation change.
LEMMA TrackerType ==
  ASSUME TypeInv, NEW tracker, drain' = [drain EXCEPT ![eng.active] = tracker],
         tracker \in [bus : Seq(Reports), pending : [RoleSet -> Nat], wait : WaitStates],
         \A i \in DOMAIN tracker.bus : Gen(tracker.bus[i].worker) = eng.active
  PROVE  DrainType'
<1>1. eng.active \in Gens
  BY DEF TypeInv, EngineType, EngineRec
<1> QED
  BY <1>1 DEF TypeInv, DrainType

\* The tracker of the active generation.
LEMMA TrackerIs ==
  ASSUME TypeInv
  PROVE  /\ eng.active \in Gens
         /\ Tracker \in [bus : Seq(Reports), pending : [RoleSet -> Nat], wait : WaitStates]
         /\ Tracker.bus \in Seq(Reports) /\ Tracker.pending \in [RoleSet -> Nat]
         /\ \A i \in DOMAIN Tracker.bus : Gen(Tracker.bus[i].worker) = eng.active
<1>1. eng.active \in Gens
  BY DEF TypeInv, EngineType, EngineRec
<1>2. Tracker \in [bus : Seq(Reports), pending : [RoleSet -> Nat], wait : WaitStates]
  BY <1>1 DEF TypeInv, DrainType, Tracker
<1>3. \A i \in DOMAIN Tracker.bus : Gen(Tracker.bus[i].worker) = eng.active
  BY <1>1 DEF TypeInv, DrainType, Tracker
<1> QED
  BY <1>1, <1>2, <1>3

\* The wait of the active generation gets a new state.
LEMMA WaitType ==
  ASSUME TypeInv, NEW st \in WaitStates, drain' = [drain EXCEPT ![eng.active].wait = st]
  PROVE  DrainType'
<1> DEFINE t == [Tracker EXCEPT !.wait = st]
<1>1. t \in [bus : Seq(Reports), pending : [RoleSet -> Nat], wait : WaitStates] /\ t.bus = Tracker.bus
  BY TrackerIs
<1>2. drain' = [drain EXCEPT ![eng.active] = t]
  BY DEF Tracker
<1> HIDE DEF t
<1>3. \A i \in DOMAIN t.bus : Gen(t.bus[i].worker) = eng.active
  BY <1>1, TrackerIs
<1> QED
  BY Zenon, <1>1, <1>2, <1>3, TrackerType

\* observe() takes the first report.
LEMMA ObserveTracker ==
  ASSUME TypeInv, Tracker.bus # <<>>
  PROVE  LET ev == Head(Tracker.bus)
             rest == [Tracker EXCEPT !.bus = Tail(@)]
         IN  /\ ev \in Reports /\ Gen(ev.worker) = eng.active /\ ev.worker \in Workers
             /\ Role(ev.worker) \in RoleSet
             /\ rest \in [bus : Seq(Reports), pending : [RoleSet -> Nat], wait : WaitStates]
             /\ rest.bus = Tail(Tracker.bus) /\ rest.pending = Tracker.pending
             /\ rest.wait = Tracker.wait
             /\ \A i \in DOMAIN rest.bus : Gen(rest.bus[i].worker) = eng.active
<1> DEFINE b == Tracker.bus
           ev == Head(b)
           rest == [Tracker EXCEPT !.bus = Tail(b)]
<1>0. /\ b \in Seq(Reports) /\ b # <<>> /\ eng.active \in Gens
      /\ \A i \in DOMAIN b : Gen(b[i].worker) = eng.active
  BY TrackerIs
<1>1. /\ ev \in Reports /\ Tail(b) \in Seq(Reports) /\ Len(b) \in Nat \ {0} /\ ev = b[1]
      /\ Len(Tail(b)) = Len(b) - 1 /\ \A i \in 1 .. Len(b) - 1 : Tail(b)[i] = b[i + 1]
      /\ DOMAIN b = 1 .. Len(b)
  <2> HIDE DEF b
  <2> QED
    BY <1>0, HeadTail
<1>2. Gen(ev.worker) = eng.active /\ ev.worker \in Workers
  BY <1>0, <1>1 DEF Reports
<1>3. Role(ev.worker) \in RoleSet
  BY <1>2, WorkerIs
<1>4. /\ rest \in [bus : Seq(Reports), pending : [RoleSet -> Nat], wait : WaitStates]
      /\ rest.bus = Tail(b) /\ rest.pending = Tracker.pending /\ rest.wait = Tracker.wait
  <2> HIDE DEF b
  <2> QED
    BY Zenon, <1>1, TrackerIs
<1>5. \A i \in DOMAIN Tail(b) : Gen(Tail(b)[i].worker) = eng.active
  <2> HIDE DEF b
  <2> SUFFICES ASSUME NEW i \in 1 .. Len(b) - 1 PROVE Gen(Tail(b)[i].worker) = eng.active
    BY <1>1
  <2>1. i + 1 \in 1 .. Len(b)
    BY <1>1
  <2> QED
    BY <1>0, <1>1, <2>1
<1>6. rest = [Tracker EXCEPT !.bus = Tail(@)]
  BY TrackerIs
<1> QED
  BY Zenon, <1>1, <1>2, <1>3, <1>4, <1>5, <1>6

\* The wait of the active generation: a report, the deadline, or its end.
LEMMA DrainStepType ==
  ASSUME TypeInv, DrainObserve \/ DrainTimeout \/ DrainQuiesced
  PROVE  TypeInv'
<1> DEFINE T == [bus : Seq(Reports), pending : [RoleSet -> Nat], wait : WaitStates]
<1>0. /\ eng \in EngineRec /\ eng.active <= eng.built /\ ~eng.awaiting /\ eng.pc = "drain"
      /\ UNCHANGED <<pk, router, wk, data, faults>>
  BY DEF TypeInv, EngineType, DrainObserve, DrainTimeout, DrainQuiesced
<1>1. ASSUME NEW tracker \in T, \A i \in DOMAIN tracker.bus : Gen(tracker.bus[i].worker) = eng.active,
             DrainFails(tracker)
      PROVE  TypeInv'
  <2> DEFINE t == [tracker EXCEPT !.wait = "failed"]
  <2>1. t \in T /\ t.bus = tracker.bus
    BY DEF WaitStates
  <2>2. drain' = [drain EXCEPT ![eng.active] = t]
    BY <1>1 DEF DrainFails
  <2> HIDE DEF t
  <2>3. DrainType'
    BY Zenon, <1>1, <2>1, <2>2, TrackerType
  <2>4. EngineType'
    BY Zenon, <1>0, <1>1, RolesAre DEF DrainFails, EngineType, EngineRec
  <2> QED
    BY <1>0, <2>3, <2>4, SameType DEF TypeInv
<1>2. CASE DrainObserve
  <2> DEFINE ev == Head(Tracker.bus)
             rest == [Tracker EXCEPT !.bus = Tail(@)]
             r == Role(ev.worker)
             counted == Tracker.pending[r] # 0
  <2>1. /\ r \in RoleSet /\ rest \in T /\ rest.pending = Tracker.pending
        /\ \A i \in DOMAIN rest.bus : Gen(rest.bus[i].worker) = eng.active
    BY Zenon, <1>2, ObserveTracker DEF DrainObserve
  <2>2. \/ DrainFails(rest)
        \/ drain' = [drain EXCEPT ![eng.active] = rest] /\ UNCHANGED eng
        \/ /\ drain' = [drain EXCEPT ![eng.active] = [rest EXCEPT !.pending[r] = @ - 1]]
           /\ UNCHANGED eng /\ counted
    BY <1>2 DEF DrainObserve
  <2> HIDE DEF rest, r
  <2>3. CASE DrainFails(rest)
    BY <1>1, <2>1, <2>3
  <2>4. CASE drain' = [drain EXCEPT ![eng.active] = rest] /\ UNCHANGED eng
    <3>1. DrainType'
      BY Zenon, <2>1, <2>4, TrackerType
    <3> QED
      BY <1>0, <2>4, <3>1, SameType DEF TypeInv
  <2>5. CASE /\ drain' = [drain EXCEPT ![eng.active] = [rest EXCEPT !.pending[r] = @ - 1]]
             /\ UNCHANGED eng /\ counted
    <3> DEFINE t == [rest EXCEPT !.pending[r] = @ - 1]
    <3>1. rest.pending \in [RoleSet -> Nat] /\ rest.pending[r] # 0
      BY <2>1, <2>5, TrackerIs
    <3>2. [rest.pending EXCEPT ![r] = @ - 1] \in [RoleSet -> Nat]
      BY <2>1, <3>1
    <3> DEFINE pend == [rest.pending EXCEPT ![r] = @ - 1]
    <3>3. t = [rest EXCEPT !.pending = pend]
      BY <2>1
    <3>4. pend \in [RoleSet -> Nat]
      BY <3>2
    <3> HIDE DEF pend
    <3>5. t \in T /\ t.bus = rest.bus
      BY Zenon, <2>1, <3>3, <3>4
    <3> HIDE DEF t
    <3>6. DrainType'
      BY Zenon, <2>1, <2>5, <3>5, TrackerType DEF t
    <3> QED
      BY <1>0, <2>5, <3>6, SameType DEF TypeInv
  <2> QED
    BY <2>2, <2>3, <2>4, <2>5
<1>3. CASE DrainTimeout
  BY <1>1, <1>3, TrackerIs DEF DrainTimeout
<1>4. CASE DrainQuiesced
  <2>1. DrainType'
    BY <1>4, WaitType DEF DrainQuiesced, WaitStates
  <2> DEFINE old == eng.groups \cap GroupsOf(eng.active)
             e == [eng EXCEPT !.pc = "install", !.groups = @ \ old, !.detached = @ \cup old]
  <2>2. eng' = Pruned(e)
    BY <1>4 DEF DrainQuiesced
  <2>3. e \in EngineRec /\ e.active = eng.active /\ e.built = eng.built /\ e.pc = "install" /\ ~e.awaiting
    <3>1. old \subseteq Gens \X RoleSet
      BY <1>0, RolesAre DEF GroupsOf, EngineRec
    <3> HIDE DEF old
    <3> QED
      BY Zenon, <1>0, <3>1 DEF EngineRec
  <2> HIDE DEF e
  <2>4. /\ eng' \in EngineRec /\ eng'.active = eng.active /\ eng'.built = eng.built
        /\ eng'.pc = "install" /\ ~eng'.awaiting
    BY Zenon, <2>2, <2>3 DEF Pruned, EngineRec
  <2>5. EngineType'
    BY <1>0, <2>4 DEF EngineType
  <2> QED
    BY <1>0, <2>1, <2>5, SameType DEF TypeInv
<1> QED
  BY <1>2, <1>3, <1>4

\* The steps of the engine before and after the wait.
LEMMA ReloadStepType ==
  ASSUME TypeInv,
         \/ Prebuild \/ IsolatePicker \/ DisconnectRouter \/ StopRole \/ JoinNext \/ JoinAwaited
         \/ UnusedShutDown \/ EngineExits \/ RoleStopped \/ ForceStopped \/ Install \/ ResumePicker
  PROVE  TypeInv'
<1>0. /\ eng \in EngineRec /\ eng.active <= eng.built /\ eng.active \in Gens /\ eng.built \in Gens
      /\ PickersType /\ WorkersType /\ EngineType
      /\ eng.todo \in Seq(RoleSet) /\ eng.join \in Nat
  BY DEF TypeInv, EngineType, EngineRec
<1>00. Gens \subseteq Nat /\ \A g \in Gens : g < MaxGen => g + 1 \in Gens
  BY HotReloadAssumption DEF Gens
<1>01. eng.todo # <<>> => Tail(eng.todo) \in Seq(RoleSet) /\ Head(eng.todo) \in RoleSet
  BY <1>0, HeadTail
<1>02. wk \in [Workers -> WorkerRec]
  BY <1>0 DEF WorkersType
<1>1. CASE Prebuild
  <2>1. EngineType'
    <3> DEFINE b == eng.built + 1
    <3>1. b \in Gens /\ eng.active <= b
      BY <1>0, <1>00, <1>1 DEF Prebuild
    <3>2. eng' = [eng EXCEPT !.pc = "isolate", !.built = b] /\ ~eng.awaiting
      BY <1>0, <1>1 DEF Prebuild, EngineType
    <3> HIDE DEF b
    <3>3. /\ eng' \in EngineRec /\ eng'.active = eng.active /\ eng'.built = b /\ eng'.pc = "isolate"
          /\ ~eng'.awaiting
      BY Zenon, <1>0, <3>1, <3>2 DEF EngineRec
    <3> QED
      BY <3>1, <3>3 DEF EngineType
  <2>2. wk' = Running(eng.built + 1) /\ UNCHANGED <<pk, router, drain, data, faults>>
    BY <1>1 DEF Prebuild
  <2>3. ASSUME NEW w \in Workers PROVE wk'[w] \in WorkerRec /\ wk'[w].ch = wk[w].ch
    BY Zenon, <1>02, <2>2 DEF Running, WorkerRec
  <2>4. WorkersType'
    <3>1. wk' \in [Workers -> WorkerRec]
      BY <2>2, <2>3 DEF Running
    <3> QED
      BY <1>0, <2>3, <3>1, SignalledType
  <2> QED
    BY <2>1, <2>2, <2>4, SameType DEF TypeInv
<1>2. CASE IsolatePicker \/ ResumePicker
  <2>1. PickersType'
    BY <1>0, <1>2, CommandType DEF IsolatePicker, ResumePicker
  <2>2. EngineType'
    <3>1. Pruned(eng) \in EngineRec /\ Pruned(eng).active = eng.active /\ Pruned(eng).built = eng.built
          /\ Pruned(eng).awaiting = eng.awaiting
      BY Zenon, <1>0 DEF Pruned, EngineRec
    <3>2. ~eng.awaiting
      BY <1>0, <1>2 DEF IsolatePicker, ResumePicker, EngineType
    <3>3. eng' = [Pruned(eng) EXCEPT !.pc = "disconnect"] \/ eng' = [Pruned(eng) EXCEPT !.pc = "idle"]
      BY <1>2 DEF IsolatePicker, ResumePicker
    <3> QED
      BY <1>0, <3>1, <3>2, <3>3 DEF EngineType, EngineRec
  <2> QED
    BY <1>2, <2>1, <2>2, SameType DEF TypeInv, IsolatePicker, ResumePicker
<1>3. CASE DisconnectRouter
  <2>1. DrainType'
    BY <1>3, WaitType DEF DisconnectRouter, WaitStates
  <2>2. EngineType'
    BY <1>0, <1>3 DEF DisconnectRouter, EngineType, EngineRec
  <2>3. RouterType'
    <3>1. <<>> \in Seq(ParserSet)
      OBVIOUS
    <3> QED
      BY <1>3, <3>1 DEF DisconnectRouter, RouterType
  <2> QED
    BY <1>3, <2>1, <2>2, <2>3, SameType DEF TypeInv, DisconnectRouter
<1>4. CASE StopRole
  <2> DEFINE role == Head(eng.todo)
             grp == <<eng.active, role>>
  <2>1. UNCHANGED <<pk, router, drain, data, faults>> /\ role \in RoleSet /\ eng.pc = "force"
    BY <1>01, <1>4 DEF StopRole
  <2>2. CASE grp \in eng.groups
    <3>1. /\ wk' = [w \in Workers |-> IF w \in Group(eng.active, role)
                                        THEN [wk[w] EXCEPT !.stop = TRUE] ELSE wk[w]]
          /\ eng' = [eng EXCEPT !.pc = "join", !.join = NumOf(role)]
      BY <1>4, <2>2 DEF StopRole
    <3>2. EngineType'
      BY Zenon, <1>0, <1>4, <2>1, <3>1, RolesAre DEF StopRole, EngineType, EngineRec
    <3>3. ASSUME NEW w \in Workers PROVE wk'[w] \in WorkerRec /\ wk'[w].ch = wk[w].ch
      BY Zenon, <1>02, <3>1 DEF WorkerRec
    <3>4. WorkersType'
      BY Zenon, <1>0, <3>1, <3>3, SignalledType
    <3> QED
      BY <2>1, <3>2, <3>4, SameType DEF TypeInv
  <2>3. CASE grp \notin eng.groups
    <3>1. eng' = [eng EXCEPT !.todo = Tail(@)] /\ UNCHANGED wk
      BY <1>4, <2>3 DEF StopRole
    <3>2. EngineType'
      BY Zenon, <1>0, <1>01, <1>4, <2>1, <3>1 DEF StopRole, EngineType, EngineRec
    <3> QED
      BY <2>1, <3>1, <3>2, SameType DEF TypeInv
  <2> QED
    BY <2>2, <2>3
<1>5. CASE JoinNext
  <2>1. EngineType'
    <3>1. eng' = [eng EXCEPT !.join = eng.join - 1] \/ eng' = [eng EXCEPT !.awaiting = TRUE]
      BY <1>5 DEF JoinNext
    <3>2. eng.join - 1 \in Nat /\ eng.pc = "join" /\ eng.join > 0 /\ ~eng.awaiting
      BY <1>0, <1>5 DEF JoinNext
    <3> QED
      BY Zenon, <1>0, <3>1, <3>2 DEF EngineType, EngineRec
  <2> QED
    BY <1>5, <2>1, SameType DEF TypeInv, JoinNext
<1>6. CASE JoinAwaited
  <2>0. UNCHANGED <<pk, router, drain, data, faults>> /\ eng.pc = "join" /\ eng.awaiting
    BY <1>6 DEF JoinAwaited
  <2>1. CASE wk[Joined].st = "panicked"
    <3>1. /\ eng' = [eng EXCEPT !.pc = "shutdown", !.awaiting = FALSE, !.join = 0,
                                !.todo = <<>>, !.groups = {}, !.groupsLost = TRUE]
          /\ wk' = [w \in Workers |-> [wk[w] EXCEPT !.stop =
                      @ \/ Gen(w) = eng.built \/ (Gen(w) = eng.active /\ Role(w) # "Parser")]]
      BY <1>6, <2>1 DEF JoinAwaited
    <3>2. EngineType'
      <4>1. <<>> \in Seq(RoleSet)
        OBVIOUS
      <4> QED
        BY Zenon, <1>0, <3>1, <4>1 DEF EngineType, EngineRec
    <3>3. ASSUME NEW w \in Workers PROVE wk'[w] \in WorkerRec /\ wk'[w].ch = wk[w].ch
      BY Zenon, <1>02, <3>1 DEF WorkerRec
    <3>4. WorkersType'
      <4>1. wk' \in [Workers -> WorkerRec]
        BY Zenon, <3>1, <3>3
      <4> QED
        BY <1>0, <3>3, <4>1, SignalledType
    <3> QED
      BY <2>0, <3>2, <3>4, SameType DEF TypeInv
  <2>2. CASE wk[Joined].st # "panicked"
    <3>1. eng' = [eng EXCEPT !.awaiting = FALSE, !.join = eng.join - 1] /\ UNCHANGED wk
      BY <1>6, <2>2 DEF JoinAwaited
    <3>2. eng.join - 1 \in Nat
      BY <1>0, <2>0 DEF EngineType
    <3>3. EngineType'
      BY Zenon, <1>0, <2>0, <3>1, <3>2 DEF EngineType, EngineRec
    <3> QED
      BY <2>0, <3>1, <3>3, SameType DEF TypeInv
  <2> QED
    BY <2>1, <2>2
<1>7. CASE UnusedShutDown \/ EngineExits
  <2>1. EngineType'
    BY <1>0, <1>7 DEF UnusedShutDown, EngineExits, EngineType, EngineRec
  <2> QED
    BY <1>7, <2>1, SameType DEF TypeInv, UnusedShutDown, EngineExits
<1>8. CASE RoleStopped
  <2>1. EngineType'
    <3>1. eng.todo # <<>> /\ ~eng.awaiting
      BY <1>0, <1>8 DEF RoleStopped, EngineType
    <3>2. Tail(eng.todo) \in Seq(RoleSet)
      BY <1>01, <3>1
    <3> QED
      BY Zenon, <1>0, <1>8, <3>1, <3>2 DEF RoleStopped, EngineType, EngineRec
  <2> QED
    BY <1>8, <2>1, SameType DEF TypeInv, RoleStopped
<1>9. CASE ForceStopped
  <2>1. EngineType'
    <3>1. Pruned(eng) \in EngineRec /\ Pruned(eng).active = eng.active /\ Pruned(eng).built = eng.built
          /\ Pruned(eng).awaiting = eng.awaiting
      BY Zenon, <1>0 DEF Pruned, EngineRec
    <3>2. ~eng.awaiting
      BY <1>0, <1>9 DEF ForceStopped, EngineType
    <3> QED
      BY <1>0, <1>9, <3>1, <3>2 DEF ForceStopped, EngineType, EngineRec
  <2> QED
    BY <1>9, <2>1, SameType DEF TypeInv, ForceStopped
<1>10. CASE Install
  <2>1. RouterType'
    BY <1>0, <1>10, SendersAre DEF Install, RouterType
  <2>2. EngineType'
    <3>1. GroupsOf(eng.built) \subseteq Gens \X RoleSet
      BY <1>0, RolesAre DEF GroupsOf
    <3>2. ~eng.awaiting
      BY <1>0, <1>10 DEF Install, EngineType
    <3>3. /\ eng' \in EngineRec /\ eng'.active = eng.built /\ eng'.built = eng.built
          /\ eng'.pc = "resume" /\ ~eng'.awaiting
      BY Zenon, <1>0, <1>10, <3>1, <3>2 DEF Install, EngineRec
    <3>4. eng.built \in Nat
      BY Zenon, <1>0, <1>00
    <3>5. eng.built <= eng.built
      BY <3>4
    <3> QED
      BY <3>3, <3>5 DEF EngineType
  <2> QED
    BY <1>10, <2>1, <2>2, SameType DEF TypeInv, Install
<1> QED
  BY <1>1, <1>2, <1>3, <1>4, <1>5, <1>6, <1>7, <1>8, <1>9, <1>10

\* Every step keeps the types.
LEMMA NextType == ASSUME TypeInv, [Next]_vars PROVE TypeInv'
<1>1. CASE UNCHANGED vars
  BY <1>1, SameType DEF TypeInv, vars, data
<1>2. ASSUME NEW p \in Pickers, PickerStep(p) PROVE TypeInv'
  BY <1>2, PickerType
<1>3. ASSUME NEW w \in ParserSet, ParserStep(w) PROVE TypeInv'
  BY <1>3, ParserRecvType, ParserForwardType, EndType DEF ParserStep, ParserSet
<1>4. ASSUME NEW w \in OutSet, OutStep(w) PROVE TypeInv'
  BY <1>4, EndType DEF OutStep, OutSet
<1>5. ASSUME NEW w \in Workers, TaskReturns(w) \/ \E st \in {"failed", "panicked"} : Fault(w, st)
      PROVE  TypeInv'
  BY <1>5, EndType
<1> QED
  BY <1>1, <1>2, <1>3, <1>4, <1>5, DrainStepType, ReloadStepType DEF Next, ReloadStep

\* Type correctness, with the capacities of every channel: no batch is put
\* into a full or a foreign channel, whichever snapshot of the senders a picker
\* still works through, and the epoch that is active has been built.
THEOREM TypeCorrect == Spec => []TypeOK
BY InitType, NextType, TypeInvSuffices, PTL DEF Spec

-----------------------------------------------------------------------------
(* What each step does to the workers *)

\* The task has left its loop.
Over(w) == wk[w].st \in {"tail", "done", "failed", "panicked"}

\* Worker w alone changes, to these values.
Becomes(w, st, ch, hand, rep) ==
  wk' = [wk EXCEPT ![w] = [wk[w] EXCEPT !.st = st, !.ch = ch, !.hand = hand, !.rep = rep]]

\* What such a step changes: the fields of w it names, and no other worker.
LEMMA BecomesIs ==
  ASSUME WorkersType, NEW w \in Workers, NEW st, NEW ch, NEW hand, NEW rep,
         Becomes(w, st, ch, hand, rep)
  PROVE  /\ wk'[w].st = st /\ wk'[w].ch = ch /\ wk'[w].hand = hand /\ wk'[w].rep = rep
         /\ wk'[w].stop = wk[w].stop
         /\ \A v \in Workers : v # w => wk'[v] = wk[v]
<1>1. wk[w] \in WorkerRec /\ wk \in [Workers -> WorkerRec]
  BY WorkerHas
<1> DEFINE r == [wk[w] EXCEPT !.st = st, !.ch = ch, !.hand = hand, !.rep = rep]
<1>2. r.st = st /\ r.ch = ch /\ r.hand = hand /\ r.rep = rep /\ r.stop = wk[w].stop
  BY <1>1 DEF WorkerRec
<1>3. wk' = [wk EXCEPT ![w] = r]
  BY DEF Becomes
<1> HIDE DEF r
<1> QED
  BY <1>1, <1>2, <1>3

\* The steps that change one worker.
LEMMA Moves ==
  ASSUME WorkersType, NEW w \in Workers
  PROVE  /\ ParserRecv(w) => Becomes(w, "run", Tail(wk[w].ch), Head(wk[w].ch), wk[w].rep)
         /\ ParserLoopEnds(w) => Becomes(w, "tail", wk[w].ch, wk[w].hand, "Drained")
         /\ OutDrained(w) => Becomes(w, "tail", wk[w].ch, wk[w].hand, "Drained")
         /\ TaskReturns(w) => Becomes(w, "done", <<>>, wk[w].hand, wk[w].rep)
         /\ OutStop(w) => Becomes(w, "draining", wk[w].ch, wk[w].hand, wk[w].rep)
         /\ OutRecv(w) => Becomes(w, wk[w].st, Tail(wk[w].ch), wk[w].hand, wk[w].rep)
         /\ \A st : Fault(w, st) => Becomes(w, st, <<>>, NoEvent, "Aborted")
<1>0. wk[w] \in WorkerRec /\ wk \in [Workers -> WorkerRec]
  BY WorkerHas
<1>1. ParserRecv(w) => Becomes(w, "run", Tail(wk[w].ch), Head(wk[w].ch), wk[w].rep)
  BY <1>0 DEF ParserRecv, Becomes, WorkerRec
<1>2. ParserLoopEnds(w) => Becomes(w, "tail", wk[w].ch, wk[w].hand, "Drained")
  BY Zenon, <1>0 DEF ParserLoopEnds, Becomes, WorkerRec
<1>3. OutDrained(w) => Becomes(w, "tail", wk[w].ch, wk[w].hand, "Drained")
  BY Zenon, <1>0 DEF OutDrained, Becomes, WorkerRec
<1>4. TaskReturns(w) => Becomes(w, "done", <<>>, wk[w].hand, wk[w].rep)
  BY Zenon, <1>0 DEF TaskReturns, Becomes, WorkerRec
<1>5. OutStop(w) => Becomes(w, "draining", wk[w].ch, wk[w].hand, wk[w].rep)
  BY Zenon, <1>0 DEF OutStop, Becomes, WorkerRec
<1>6. OutRecv(w) => Becomes(w, wk[w].st, Tail(wk[w].ch), wk[w].hand, wk[w].rep)
  BY Zenon, <1>0 DEF OutRecv, Becomes, WorkerRec
<1>7. ASSUME NEW st, Fault(w, st) PROVE Becomes(w, st, <<>>, NoEvent, "Aborted")
  BY Zenon, <1>0, <1>7 DEF Fault, Becomes, WorkerRec
<1> QED
  BY <1>1, <1>2, <1>3, <1>4, <1>5, <1>6, <1>7

\* A picker's step changes at most the channel of one parser in its snapshot.
LEMMA PickerMoves ==
  ASSUME TypeInv, NEW p \in Pickers, PickerStep(p)
  PROVE  /\ UNCHANGED <<drain, eng, data, faults>>
         /\ router'.senders = router.senders /\ router'.reloading = router.reloading
         /\ \/ wk' = wk
            \/ \E w \in ParserSet :
                 /\ TrySend(p) /\ w = pk[p].snap[pk[p].k] /\ w \in Range(pk[p].snap)
                 /\ RecvAlive(w) /\ Len(wk[w].ch) < ChanCap
                 /\ pk' = [pk EXCEPT ![p] = [pk[p] EXCEPT !.pc = "idle", !.snap = <<>>, !.pend = Tail(@)]]
                 /\ Becomes(w, wk[w].st, Append(wk[w].ch, <<p, Head(pk[p].pend)>>), wk[w].hand, wk[w].rep)
<1>0. pk \in [Pickers -> PickerRec] /\ pk[p] \in PickerRec /\ WorkersType
  BY DEF TypeInv, PickersType
<1>1. CASE PollCmd(p) \/ Fetch(p) \/ LoadReloading(p)
  BY <1>1 DEF PollCmd, Fetch, LoadReloading
<1>2. CASE Snapshot(p)
  BY <1>2 DEF Snapshot, TypeInv, RouterType
<1>3. CASE TrySend(p)
  <2> DEFINE w == pk[p].snap[pk[p].k]
             sent == RecvAlive(w) /\ Len(wk[w].ch) < ChanCap
             full == pk[p].full \/ (RecvAlive(w) /\ ~sent)
  <2>0. pk[p].k \in 1 .. Len(pk[p].snap)
    BY Zenon, <1>3 DEF TrySend, TypeInv, PickersType
  <2>1. pk[p].snap \in Seq(ParserSet) /\ w \in ParserSet /\ w \in Range(pk[p].snap)
    BY <1>0, <2>0 DEF PickerRec, Range
  <2>2. /\ UNCHANGED <<router, drain, eng, data, faults>>
        /\ wk' = IF sent THEN [wk EXCEPT ![w].ch = Append(@, <<p, Head(pk[p].pend)>>)] ELSE wk
        /\ pk' = [pk EXCEPT ![p] = AfterTrySend(p, sent, full)]
    BY Zenon, <1>3 DEF TrySend
  <2>3. CASE ~sent
    BY Zenon, <2>2, <2>3
  <2>4. CASE sent
    <3> DEFINE c == Append(wk[w].ch, <<p, Head(pk[p].pend)>>)
    <3>1. wk' = [wk EXCEPT ![w].ch = c]
      BY Zenon, <2>2, <2>4
    <3>2. pk' = [pk EXCEPT ![p] = [pk[p] EXCEPT !.pc = "idle", !.snap = <<>>, !.pend = Tail(@)]]
      BY Zenon, <2>2, <2>4 DEF AfterTrySend
    <3>3. w \in Workers /\ wk[w] \in WorkerRec /\ wk \in [Workers -> WorkerRec]
      BY <1>0, <2>1, WorkerHas DEF ParserSet
    <3> HIDE DEF c, w
    <3>4. Becomes(w, wk[w].st, c, wk[w].hand, wk[w].rep)
      BY Zenon, <3>1, <3>3 DEF Becomes, WorkerRec
    <3> QED
      BY Zenon, <1>3, <2>1, <2>2, <2>4, <3>2, <3>4 DEF c, w
  <2> QED
    BY <2>3, <2>4
<1> QED
  BY <1>1, <1>2, <1>3 DEF PickerStep

\* A parser hands an event to an output: its hand and that channel change.
Handed(w, out, ev) == wk' = [wk EXCEPT ![w].hand = NoEvent, ![out].ch = Append(@, ev)]

\* A parser lets go of the event in its hand: it is dropped by its rules,
\* handed to an output, or lost at a closed output, which fails the parser if
\* that is infra.
Forwards(w, out) ==
  LET ev == wk[w].hand IN
  \/ /\ Becomes(w, "run", wk[w].ch, NoEvent, wk[w].rep)
     /\ delivered' = delivered \cup {ev} /\ UNCHANGED <<drain, lost>>
  \/ /\ out \in OutSet /\ Gen(out) = Gen(w) /\ wk[out].st = "run" /\ Len(wk[out].ch) < OutCap
     /\ Handed(w, out, ev) /\ UNCHANGED <<drain, data>>
  \/ /\ out \in OutSet /\ Gen(out) = Gen(w) /\ wk[out].st # "run"
     /\ Becomes(w, "failed", <<>>, NoEvent, "Aborted") /\ Report(w, "Aborted")
     /\ lost' = lost \cup {ev} \cup Range(wk[w].ch) /\ UNCHANGED delivered
  \/ /\ out \in OutSet /\ Gen(out) = Gen(w) /\ wk[out].st # "run"
     /\ Becomes(w, "run", wk[w].ch, NoEvent, wk[w].rep)
     /\ lost' = lost \cup {ev} /\ UNCHANGED <<drain, delivered>>

\* A parser with an event in hand hands it to the output of its route.
LEMMA ForwardMoves ==
  ASSUME TypeInv, NEW w \in ParserSet, ParserForward(w)
  PROVE  /\ wk[w].hand \in Events /\ wk[w].st = "run" /\ UNCHANGED <<pk, router, eng, faults>>
         /\ \E out : Forwards(w, out)
<1> DEFINE ev == wk[w].hand
           n == ev[2]
           out == <<Gen(w), Route[n][1], Route[n][2]>>
<1>0. WorkersType /\ w \in Workers /\ wk[w] \in WorkerRec /\ wk \in [Workers -> WorkerRec]
  BY WorkerHas DEF TypeInv, ParserSet
<1>1. ev \in Events /\ wk[w].st = "run" /\ UNCHANGED <<pk, router, eng, faults>>
  BY Zenon, <1>0, WorkerHas DEF ParserForward
<1>2. n \in 1 .. NEvents
  BY <1>1 DEF Events
<1>3. Route[n] # <<>> => out \in OutSet /\ Gen(out) = Gen(w)
  <2> HIDE DEF n
  <2> QED
    BY <1>0, <1>2, RouteIs
<1>4. wk' = [wk EXCEPT ![w].hand = NoEvent] => Becomes(w, "run", wk[w].ch, NoEvent, wk[w].rep)
  BY Zenon, <1>0, <1>1 DEF Becomes, WorkerRec
<1>5. wk' = [wk EXCEPT ![w].st = "failed", ![w].hand = NoEvent, ![w].ch = <<>>, ![w].rep = "Aborted"]
        => Becomes(w, "failed", <<>>, NoEvent, "Aborted")
  BY ZenonT(40), <1>0, <1>1 DEF Becomes, WorkerRec
<1> HIDE DEF out
<1>6. Forwards(w, out)
  <2>1. CASE /\ wk' = [wk EXCEPT ![w].hand = NoEvent]
             /\ delivered' = delivered \cup {ev} /\ UNCHANGED <<drain, lost>>
    BY <1>4, <2>1 DEF Forwards
  <2>2. CASE /\ Route[n] # <<>> /\ wk[out].st = "run" /\ Len(wk[out].ch) < OutCap
             /\ wk' = [wk EXCEPT ![w].hand = NoEvent, ![out].ch = Append(@, ev)]
             /\ UNCHANGED <<drain, data>>
    BY <1>3, <2>2 DEF Forwards, Handed
  <2>3. CASE /\ Route[n] # <<>> /\ wk[out].st # "run"
             /\ wk' = [wk EXCEPT ![w].st = "failed", ![w].hand = NoEvent, ![w].ch = <<>>, ![w].rep = "Aborted"]
             /\ Report(w, "Aborted")
             /\ lost' = lost \cup {ev} \cup Range(wk[w].ch) /\ UNCHANGED delivered
    BY <1>3, <1>5, <2>3 DEF Forwards
  <2>4. CASE /\ Route[n] # <<>> /\ wk[out].st # "run"
             /\ wk' = [wk EXCEPT ![w].hand = NoEvent]
             /\ lost' = lost \cup {ev} /\ UNCHANGED <<drain, delivered>>
    BY <1>3, <1>4, <2>4 DEF Forwards
  <2> QED
    BY Zenon, <2>1, <2>2, <2>3, <2>4 DEF ParserForward, out
<1> QED
  BY <1>1, <1>6

\* An event handed over, worker by worker.
LEMMA HandedIs ==
  ASSUME WorkersType, NEW w \in ParserSet, NEW out \in OutSet,
         NEW ev \in Events, Handed(w, out, ev)
  PROVE  /\ w \in Workers /\ out \in Workers /\ out # w
         /\ wk'[w].hand = NoEvent /\ wk'[w].ch = wk[w].ch
         /\ wk'[out].hand = wk[out].hand /\ wk'[out].ch = Append(wk[out].ch, ev)
         /\ \A v \in Workers : /\ wk'[v].st = wk[v].st /\ wk'[v].rep = wk[v].rep
                               /\ wk'[v].stop = wk[v].stop
                               /\ v # w /\ v # out => wk'[v] = wk[v]
<1>1. w \in Workers /\ out \in Workers /\ out # w
  BY DEF ParserSet, OutSet
<1> DEFINE r1 == [wk[w] EXCEPT !.hand = NoEvent]
           c == Append(wk[out].ch, ev)
           r2 == [wk[out] EXCEPT !.ch = c]
<1>2. wk[w] \in WorkerRec /\ wk[out] \in WorkerRec /\ wk \in [Workers -> WorkerRec]
  BY <1>1, WorkerHas
<1>3. wk' = [wk EXCEPT ![w] = r1, ![out] = r2]
  BY <1>1, <1>2 DEF Handed
<1>4. /\ r1.hand = NoEvent /\ r1.ch = wk[w].ch /\ r1.st = wk[w].st /\ r1.rep = wk[w].rep
      /\ r1.stop = wk[w].stop
  BY <1>2 DEF WorkerRec
<1>5. /\ r2.hand = wk[out].hand /\ r2.ch = c /\ r2.st = wk[out].st /\ r2.rep = wk[out].rep
      /\ r2.stop = wk[out].stop
  <2> HIDE DEF c
  <2> QED
    BY <1>2 DEF WorkerRec
<1> HIDE DEF r1, r2
<1>6. wk'[w] = r1 /\ wk'[out] = r2 /\ \A v \in Workers : v # w /\ v # out => wk'[v] = wk[v]
  BY <1>1, <1>2, <1>3
<1> QED
  BY <1>1, <1>4, <1>5, <1>6

\* A report is queued for its generation and touches nothing else.
LEMMA ReportIs ==
  ASSUME DrainType, NEW w \in Workers, NEW outcome, Report(w, outcome)
  PROVE  /\ drain'[Gen(w)].bus = Append(drain[Gen(w)].bus, [worker |-> w, outcome |-> outcome])
         /\ \A g \in Gens : /\ drain'[g].wait = drain[g].wait /\ drain'[g].pending = drain[g].pending
                            /\ g # Gen(w) => drain'[g] = drain[g]
<1> DEFINE g0 == Gen(w)
           b == Append(drain[g0].bus, [worker |-> w, outcome |-> outcome])
           r == [drain[g0] EXCEPT !.bus = b]
<1>1. g0 \in Gens
  BY WorkerIs
<1>2. /\ drain[g0] \in [bus : Seq(Reports), pending : [RoleSet -> Nat], wait : WaitStates]
      /\ drain \in [Gens -> [bus : Seq(Reports), pending : [RoleSet -> Nat], wait : WaitStates]]
  BY <1>1 DEF DrainType
<1> HIDE DEF g0
<1>3. r.bus = b /\ r.wait = drain[g0].wait /\ r.pending = drain[g0].pending
  BY <1>2
<1>4. drain' = [drain EXCEPT ![g0] = r]
  BY DEF Report, g0
<1> HIDE DEF r, b
<1>5. drain'[g0] = r /\ \A g \in Gens : g # g0 => drain'[g] = drain[g]
  BY <1>1, <1>2, <1>4
<1> QED
  BY <1>3, <1>5 DEF b, g0

\* The steps of the tasks, as against the engine's.
TaskStep ==
  \/ \E p \in Pickers : PickerStep(p)
  \/ \E w \in ParserSet : ParserStep(w)
  \/ \E w \in OutSet : OutStep(w)
  \/ \E w \in Workers : TaskReturns(w)
  \/ \E w \in Workers, st \in {"failed", "panicked"} : Fault(w, st)

\* What a task's step never does: start a worker, revive one, send it Stop,
\* touch the engine or the tracker's counts, or take back a fault.
WorkersKept ==
  \A w \in Workers : /\ wk'[w].stop = wk[w].stop
                     /\ wk'[w].st = "off" <=> wk[w].st = "off"
                     /\ Over(w) => Over(w)'
RestKept ==
  /\ UNCHANGED eng
  /\ router'.senders = router.senders /\ router'.reloading = router.reloading
  /\ \A g \in Gens : drain'[g].wait = drain[g].wait /\ drain'[g].pending = drain[g].pending
  /\ faults' >= faults

\* A step that reports, or leaves the trackers alone, keeps them.
LEMMA RestIsKept ==
  ASSUME TypeInv, UNCHANGED eng, router'.senders = router.senders,
         router'.reloading = router.reloading,
         UNCHANGED drain \/ \E w \in Workers : \E outcome : Report(w, outcome),
         faults' = faults \/ faults' = faults + 1
  PROVE  RestKept
<1>1. faults' >= faults
  BY DEF TypeInv, DataType
<1>2. \A g \in Gens : drain'[g].wait = drain[g].wait /\ drain'[g].pending = drain[g].pending
  BY Zenon, ReportIs DEF TypeInv
<1> QED
  BY <1>1, <1>2 DEF RestKept

\* One worker changes.
LEMMA BecomesKept ==
  ASSUME WorkersType, NEW w \in Workers, NEW st, NEW ch, NEW hand, NEW rep,
         Becomes(w, st, ch, hand, rep), st = "off" <=> wk[w].st = "off",
         Over(w) => st \in {"tail", "done", "failed", "panicked"}
  PROVE  WorkersKept
BY BecomesIs DEF WorkersKept, Over

\* No step of a task undoes Stop, revives a worker or moves the engine.
LEMMA TaskKeeps ==
  ASSUME TypeInv, TaskStep
  PROVE  WorkersKept /\ RestKept
<1>0. WorkersType /\ DrainType /\ faults \in Nat
  BY DEF TypeInv, DataType
<1>1. ASSUME NEW p \in Pickers, PickerStep(p) PROVE WorkersKept /\ RestKept
  <2>1. RestKept
    BY Zenon, <1>1, PickerMoves, RestIsKept
  <2>2. CASE wk' = wk
    BY <2>1, <2>2 DEF WorkersKept, Over
  <2>3. ASSUME NEW w \in ParserSet,
               Becomes(w, wk[w].st, Append(wk[w].ch, <<p, Head(pk[p].pend)>>), wk[w].hand, wk[w].rep)
        PROVE  WorkersKept
    BY <1>0, <2>3, BecomesKept DEF ParserSet, Over
  <2> QED
    BY Zenon, <1>1, <2>1, <2>2, <2>3, PickerMoves
<1>2. ASSUME NEW w \in ParserSet, ParserStep(w) PROVE WorkersKept /\ RestKept
  <2>0. w \in Workers
    BY DEF ParserSet
  <2>1. CASE ParserRecv(w)
    <3>1. Becomes(w, "run", Tail(wk[w].ch), Head(wk[w].ch), wk[w].rep)
      BY <1>0, <2>0, <2>1, Moves
    <3> QED
      BY <1>0, <2>0, <2>1, <3>1, BecomesKept DEF Over, RestKept, ParserRecv
  <2>2. CASE ParserLoopEnds(w)
    <3>1. Becomes(w, "tail", wk[w].ch, wk[w].hand, "Drained")
      BY <1>0, <2>0, <2>2, Moves
    <3>2. RestKept
      BY <2>0, <2>2, RestIsKept DEF ParserLoopEnds
    <3> QED
      BY <1>0, <2>0, <2>2, <3>1, <3>2, BecomesKept DEF Over, ParserLoopEnds
  <2>3. CASE ParserForward(w)
    <3>1. PICK out : Forwards(w, out)
      BY <2>3, ForwardMoves
    <3>2. wk[w].hand \in Events /\ wk[w].st = "run" /\ UNCHANGED <<pk, router, eng, faults>>
      BY <2>3, ForwardMoves
    <3>3. RestKept
      <4>1. UNCHANGED drain \/ Report(w, "Aborted")
        BY <3>1 DEF Forwards
      <4> QED
        BY <2>0, <3>2, <4>1, RestIsKept
    <3>4. WorkersKept
      <4>1. CASE Becomes(w, "run", wk[w].ch, NoEvent, wk[w].rep)
        BY <1>0, <2>0, <3>2, <4>1, BecomesKept DEF Over
      <4>2. CASE Becomes(w, "failed", <<>>, NoEvent, "Aborted")
        BY <1>0, <2>0, <3>2, <4>2, BecomesKept DEF Over
      <4>3. CASE out \in OutSet /\ Handed(w, out, wk[w].hand)
        BY <1>0, <3>2, <4>3, HandedIs DEF WorkersKept, Over
      <4> QED
        BY <3>1, <4>1, <4>2, <4>3 DEF Forwards
    <3> QED
      BY <3>3, <3>4
  <2> QED
    BY <1>2, <2>1, <2>2, <2>3 DEF ParserStep
<1>3. ASSUME NEW w \in OutSet, OutStep(w) PROVE WorkersKept /\ RestKept
  <2>0. w \in Workers
    BY DEF OutSet
  <2>1. CASE OutRecv(w)
    <3>1. Becomes(w, wk[w].st, Tail(wk[w].ch), wk[w].hand, wk[w].rep)
      BY <1>0, <2>0, <2>1, Moves
    <3> QED
      BY <1>0, <2>0, <2>1, <3>1, BecomesKept DEF Over, RestKept, OutRecv
  <2>2. CASE OutStop(w)
    <3>1. Becomes(w, "draining", wk[w].ch, wk[w].hand, wk[w].rep)
      BY <1>0, <2>0, <2>2, Moves
    <3> QED
      BY <1>0, <2>0, <2>2, <3>1, BecomesKept DEF Over, RestKept, OutStop
  <2>3. CASE OutDrained(w)
    <3>1. Becomes(w, "tail", wk[w].ch, wk[w].hand, "Drained")
      BY <1>0, <2>0, <2>3, Moves
    <3>2. RestKept
      BY <2>0, <2>3, RestIsKept DEF OutDrained
    <3> QED
      BY <1>0, <2>0, <2>3, <3>1, <3>2, BecomesKept DEF Over, OutDrained
  <2> QED
    BY <1>3, <2>1, <2>2, <2>3 DEF OutStep
<1>4. ASSUME NEW w \in Workers, TaskReturns(w) PROVE WorkersKept /\ RestKept
  <2>1. Becomes(w, "done", <<>>, wk[w].hand, wk[w].rep)
    BY <1>0, <1>4, Moves
  <2> QED
    BY <1>0, <1>4, <2>1, BecomesKept DEF RestKept, TaskReturns
<1>5. ASSUME NEW w \in Workers, NEW st \in {"failed", "panicked"}, Fault(w, st)
      PROVE  WorkersKept /\ RestKept
  <2>1. Becomes(w, st, <<>>, NoEvent, "Aborted")
    BY <1>0, <1>5, Moves
  <2>2. RestKept
    BY <1>5, RestIsKept DEF Fault
  <2> QED
    BY <1>0, <1>5, <2>1, <2>2, BecomesKept DEF Fault
<1> QED
  BY <1>1, <1>2, <1>3, <1>4, <1>5 DEF TaskStep

\* The engine's steps.
EngineStep == Prebuild \/ ReloadStep \/ DrainTimeout

\* What an engine's step never does: touch an event, a channel, a snapshot or
\* a reporter, take a Stop back, or move a worker other than by starting it.
EngineKept ==
  /\ UNCHANGED <<data, faults>>
  /\ \A p \in Pickers : /\ pk'[p].pc = pk[p].pc /\ pk'[p].snap = pk[p].snap
                        /\ pk'[p].src = pk[p].src /\ pk'[p].pend = pk[p].pend
  /\ \A w \in Workers :
       /\ wk'[w].ch = wk[w].ch /\ wk'[w].hand = wk[w].hand /\ wk'[w].rep = wk[w].rep
       /\ wk[w].stop => wk'[w].stop
       /\ \/ wk'[w].st = wk[w].st
          \/ Prebuild /\ Gen(w) = eng.built + 1 /\ wk'[w].st = "run"

\* Every step of the engine is one of those.
LEMMA EngineKeeps ==
  ASSUME TypeInv, EngineStep
  PROVE  EngineKept
<1>0. /\ pk \in [Pickers -> PickerRec] /\ wk \in [Workers -> WorkerRec]
      /\ \A w \in Workers : wk[w] \in WorkerRec
      /\ \A p \in Pickers : pk[p] \in PickerRec
  BY DEF TypeInv, PickersType, WorkersType
<1>1. CASE UNCHANGED <<pk, wk, data, faults>>
  BY <1>1 DEF EngineKept
<1>2. CASE Prebuild
  <2>1. ASSUME NEW w \in Workers
        PROVE  /\ wk'[w].ch = wk[w].ch /\ wk'[w].hand = wk[w].hand /\ wk'[w].rep = wk[w].rep
               /\ wk'[w].stop = wk[w].stop
               /\ wk'[w].st = wk[w].st \/ (Gen(w) = eng.built + 1 /\ wk'[w].st = "run")
    <3>1. wk'[w] = IF Gen(w) = eng.built + 1 THEN [wk[w] EXCEPT !.st = "run"] ELSE wk[w]
      BY <1>2 DEF Prebuild, Running
    <3> QED
      BY <1>0, <3>1 DEF WorkerRec
  <2>2. UNCHANGED <<pk, data, faults>>
    BY <1>2 DEF Prebuild
  <2> QED
    BY <1>2, <2>1, <2>2 DEF EngineKept
<1>3. ASSUME UNCHANGED <<wk, data, faults>>, NEW e, NEW c, pk' = Command(e, c)
      PROVE  EngineKept
  <2>1. ASSUME NEW p \in Pickers
        PROVE  /\ pk'[p].pc = pk[p].pc /\ pk'[p].snap = pk[p].snap
               /\ pk'[p].src = pk[p].src /\ pk'[p].pend = pk[p].pend
    <3>1. pk'[p] = pk[p] \/ pk'[p] = [pk[p] EXCEPT !.q = Append(@, c)]
      BY <1>3 DEF Command
    <3>2. pk[p] \in PickerRec
      BY <1>0
    <3> DEFINE x == Append(pk[p].q, c)
               r == [pk[p] EXCEPT !.q = x]
    <3>3. pk'[p] = pk[p] \/ pk'[p] = r
      BY <3>1
    <3> HIDE DEF x
    <3>4. r.pc = pk[p].pc /\ r.snap = pk[p].snap /\ r.src = pk[p].src /\ r.pend = pk[p].pend
      BY <3>2 DEF PickerRec
    <3> QED
      BY Zenon, <3>3, <3>4
  <2> QED
    BY <1>3, <2>1 DEF EngineKept
<1>4. CASE StopRole
  <2>1. ASSUME NEW w \in Workers
        PROVE  /\ wk'[w].ch = wk[w].ch /\ wk'[w].hand = wk[w].hand /\ wk'[w].rep = wk[w].rep
               /\ wk[w].stop => wk'[w].stop
               /\ wk'[w].st = wk[w].st
    <3>1. wk'[w] = wk[w] \/ wk'[w] = [wk[w] EXCEPT !.stop = TRUE]
      BY Zenon, <1>4 DEF StopRole
    <3> QED
      BY <1>0, <3>1 DEF WorkerRec
  <2>2. UNCHANGED <<pk, data, faults>>
    BY <1>4 DEF StopRole
  <2> QED
    BY <2>1, <2>2 DEF EngineKept
<1>5. CASE JoinAwaited
  <2>1. ASSUME NEW w \in Workers
        PROVE  /\ wk'[w].ch = wk[w].ch /\ wk'[w].hand = wk[w].hand /\ wk'[w].rep = wk[w].rep
               /\ wk[w].stop => wk'[w].stop
               /\ wk'[w].st = wk[w].st
    <3> DEFINE b == \/ wk[w].stop \/ Gen(w) = eng.built
                    \/ (Gen(w) = eng.active /\ Role(w) # "Parser")
    <3>1. wk'[w] = wk[w] \/ wk'[w] = [wk[w] EXCEPT !.stop = b]
      BY Zenon, <1>5 DEF JoinAwaited
    <3>2. wk[w] \in WorkerRec
      BY <1>0
    <3>3. wk[w].stop => b
      OBVIOUS
    <3> HIDE DEF b
    <3> QED
      BY <3>1, <3>2, <3>3 DEF WorkerRec
  <2>2. UNCHANGED <<pk, data, faults>>
    BY <1>5 DEF JoinAwaited
  <2> QED
    BY <2>1, <2>2 DEF EngineKept
<1>6. CASE IsolatePicker
  BY <1>3, <1>6 DEF IsolatePicker
<1>7. CASE ResumePicker
  BY <1>3, <1>7 DEF ResumePicker
<1>8. CASE DisconnectRouter \/ DrainObserve \/ DrainTimeout \/ DrainQuiesced
  BY <1>1, <1>8 DEF DisconnectRouter, DrainObserve, DrainTimeout, DrainQuiesced
<1>9. CASE JoinNext \/ RoleStopped \/ ForceStopped \/ UnusedShutDown \/ EngineExits \/ Install
  BY <1>1, <1>9 DEF JoinNext, RoleStopped, ForceStopped, UnusedShutDown, EngineExits, Install
<1> QED
  BY <1>2, <1>4, <1>5, <1>6, <1>7, <1>8, <1>9 DEF EngineStep, ReloadStep

-----------------------------------------------------------------------------
(* What each step of the engine does *)

\* The numbers of the active and of the newest generation.
LEMMA GensAre ==
  ASSUME TypeInv
  PROVE  /\ eng.active \in Nat /\ eng.built \in Nat /\ eng.active \in Gens /\ eng.built \in Gens
         /\ eng.active <= eng.built
         /\ \A g \in Gens : g \in Nat
         /\ \A w \in Workers : Gen(w) \in Gens /\ Gen(w) \in Nat
<1>1. \A g \in Gens : g \in Nat
  BY DEF Gens
<1>2. eng.active \in Gens /\ eng.built \in Gens /\ eng.active <= eng.built
  BY DEF TypeInv, EngineType, EngineRec
<1> QED
  BY <1>1, <1>2, WorkerIs

\* The wait of the active generation moves, and nothing else of any tracker.
TrackerGoes(st) ==
  /\ drain'[eng.active].wait = st
  /\ drain'[eng.active].bus = Tracker.bus /\ drain'[eng.active].pending = Tracker.pending
  /\ \A g \in Gens : g # eng.active => drain'[g] = drain[g]

\* The steps that begin the wait or end it.
LEMMA WaitMoves ==
  ASSUME TypeInv
  PROVE  /\ DisconnectRouter => TrackerGoes("waiting")
         /\ DrainQuiesced => TrackerGoes("quiesced")
         /\ DrainTimeout => TrackerGoes("failed")
<1>0. /\ eng.active \in Gens /\ Tracker = drain[eng.active]
      /\ Tracker \in [bus : Seq(Reports), pending : [RoleSet -> Nat], wait : WaitStates]
      /\ drain \in [Gens -> [bus : Seq(Reports), pending : [RoleSet -> Nat], wait : WaitStates]]
  BY TrackerIs DEF TypeInv, DrainType, Tracker
<1>1. ASSUME NEW st, drain' = [drain EXCEPT ![eng.active] = [Tracker EXCEPT !.wait = st]]
      PROVE  TrackerGoes(st)
  <2> DEFINE t == [Tracker EXCEPT !.wait = st]
  <2>1. t.wait = st /\ t.bus = Tracker.bus /\ t.pending = Tracker.pending
    BY <1>0
  <2> HIDE DEF t
  <2>2. drain'[eng.active] = t /\ \A g \in Gens : g # eng.active => drain'[g] = drain[g]
    BY Zenon, <1>0, <1>1 DEF t
  <2> QED
    BY <2>1, <2>2 DEF TrackerGoes
<1>2. DisconnectRouter => TrackerGoes("waiting")
  BY Zenon, <1>1 DEF DisconnectRouter, Tracker
<1>3. DrainQuiesced => TrackerGoes("quiesced")
  BY Zenon, <1>1 DEF DrainQuiesced, Tracker
<1>4. DrainTimeout => TrackerGoes("failed")
  BY Zenon, <1>1 DEF DrainTimeout, DrainFails
<1> QED
  BY <1>2, <1>3, <1>4

\* A report is observed: it fails the wait, is counted, or is ignored.
LEMMA ObserveMoves ==
  ASSUME TypeInv, DrainObserve
  PROVE  LET ev == Head(Tracker.bus)
             r == Role(ev.worker)
             counted == Tracker.pending[r] # 0
         IN  /\ Tracker.bus # <<>> /\ ~FullyQuiesced
             /\ drain'[eng.active].bus = Tail(Tracker.bus)
             /\ \A g \in Gens : g # eng.active => drain'[g] = drain[g]
             /\ \/ /\ counted /\ ev.outcome = "Aborted" /\ drain'[eng.active].wait = "failed"
                   /\ eng' = [eng EXCEPT !.pc = "force", !.todo = Roles]
                \/ /\ ~(counted /\ ev.outcome = "Aborted")
                   /\ drain'[eng.active].wait = Tracker.wait /\ UNCHANGED eng
             /\ drain'[eng.active].pending =
                  IF counted /\ ev.outcome # "Aborted" THEN [Tracker.pending EXCEPT ![r] = @ - 1]
                                                       ELSE Tracker.pending
<1> DEFINE T == [bus : Seq(Reports), pending : [RoleSet -> Nat], wait : WaitStates]
           ev == Head(Tracker.bus)
           r == Role(ev.worker)
           rest == [Tracker EXCEPT !.bus = Tail(@)]
           counted == Tracker.pending[r] # 0
           fewer == [Tracker.pending EXCEPT ![r] = @ - 1]
<1>0. eng.active \in Gens /\ drain \in [Gens -> T]
  BY TrackerIs DEF TypeInv, DrainType
<1>1. /\ rest \in T /\ rest.bus = Tail(Tracker.bus) /\ rest.pending = Tracker.pending
      /\ rest.wait = Tracker.wait
  BY Zenon, ObserveTracker DEF DrainObserve
<1>2. Tracker.bus # <<>> /\ ~FullyQuiesced
  BY DEF DrainObserve
<1>3. \/ /\ counted /\ ev.outcome = "Aborted"
         /\ drain' = [drain EXCEPT ![eng.active] = [rest EXCEPT !.wait = "failed"]]
         /\ eng' = [eng EXCEPT !.pc = "force", !.todo = Roles]
      \/ /\ counted /\ ev.outcome # "Aborted" /\ UNCHANGED eng
         /\ drain' = [drain EXCEPT ![eng.active] = [rest EXCEPT !.pending = fewer]]
      \/ /\ ~counted /\ UNCHANGED eng
         /\ drain' = [drain EXCEPT ![eng.active] = rest]
  <2>1. counted => [rest EXCEPT !.pending[r] = @ - 1] = [rest EXCEPT !.pending = fewer]
    BY <1>1
  <2> QED
    BY <2>1 DEF DrainObserve, DrainFails
<1> HIDE DEF rest, ev, r, fewer
<1>4. ASSUME NEW t \in {rest, [rest EXCEPT !.wait = "failed"], [rest EXCEPT !.pending = fewer]},
             drain' = [drain EXCEPT ![eng.active] = t]
      PROVE  /\ drain'[eng.active] = t /\ t.bus = Tail(Tracker.bus)
             /\ \A g \in Gens : g # eng.active => drain'[g] = drain[g]
  <2>1. t.bus = Tail(Tracker.bus)
    BY Zenon, <1>1
  <2>2. drain'[eng.active] = t /\ \A g \in Gens : g # eng.active => drain'[g] = drain[g]
    BY <1>0, <1>4
  <2> QED
    BY <2>1, <2>2
<1>5. CASE /\ counted /\ ev.outcome = "Aborted"
           /\ drain' = [drain EXCEPT ![eng.active] = [rest EXCEPT !.wait = "failed"]]
           /\ eng' = [eng EXCEPT !.pc = "force", !.todo = Roles]
  <2> DEFINE t == [rest EXCEPT !.wait = "failed"]
  <2>1. t.wait = "failed" /\ t.pending = Tracker.pending
    BY <1>1
  <2>2. drain'[eng.active] = t
    BY <1>4, <1>5
  <2> QED
    BY Zenon, <1>2, <1>4, <1>5, <2>1, <2>2 DEF ev, r
<1>6. CASE /\ counted /\ ev.outcome # "Aborted" /\ UNCHANGED eng
           /\ drain' = [drain EXCEPT ![eng.active] = [rest EXCEPT !.pending = fewer]]
  <2> DEFINE t == [rest EXCEPT !.pending = fewer]
  <2>1. t.wait = Tracker.wait /\ t.pending = fewer
    BY <1>1
  <2>2. drain'[eng.active] = t
    BY <1>4, <1>6
  <2> QED
    BY Zenon, <1>2, <1>4, <1>6, <2>1, <2>2 DEF ev, r, fewer
<1>7. CASE /\ ~counted /\ UNCHANGED eng
           /\ drain' = [drain EXCEPT ![eng.active] = rest]
  <2>2. drain'[eng.active] = rest
    BY <1>4, <1>7
  <2> QED
    BY Zenon, <1>1, <1>2, <1>4, <1>7, <2>2 DEF ev, r
<1> QED
  BY <1>3, <1>5, <1>6, <1>7

\* What each step of the engine does to its own state.
LeftOf(groups) == {grp \in groups : ~GroupFinished(grp)}
SameSet == /\ eng'.active = eng.active /\ eng'.built = eng.built
           /\ eng'.groupsLost = eng.groupsLost

\* What each step of the engine sets, read off its handler.
LEMMA EngineMoves ==
  ASSUME TypeInv
  PROVE
  /\ Prebuild => /\ eng'.pc = "isolate" /\ eng'.active = eng.active /\ eng'.built = eng.built + 1
                 /\ eng'.groupsLost = eng.groupsLost /\ eng'.groups = eng.groups
  /\ IsolatePicker => eng'.pc = "disconnect" /\ SameSet /\ eng'.groups = LeftOf(eng.groups)
  /\ DisconnectRouter => eng'.pc = "drain" /\ SameSet /\ eng'.groups = eng.groups
  /\ DrainTimeout => eng'.pc = "force" /\ SameSet /\ eng'.groups = eng.groups /\ eng'.todo = Roles
  /\ DrainObserve => /\ SameSet /\ eng'.groups = eng.groups
                     /\ \/ UNCHANGED eng /\ drain'[eng.active].wait = Tracker.wait
                        \/ /\ eng'.pc = "force" /\ eng'.todo = Roles /\ drain'[eng.active].wait = "failed"
  /\ DrainQuiesced => /\ eng'.pc = "install" /\ SameSet
                      /\ eng'.groups = LeftOf(eng.groups \ GroupsOf(eng.active))
  /\ StopRole => /\ SameSet /\ eng'.groups = eng.groups
                 /\ \/ /\ <<eng.active, Head(eng.todo)>> \in eng.groups
                       /\ eng'.pc = "join" /\ eng'.join = NumOf(Head(eng.todo)) /\ eng'.todo = eng.todo
                    \/ /\ <<eng.active, Head(eng.todo)>> \notin eng.groups
                       /\ eng'.pc = "force" /\ eng'.todo = Tail(eng.todo)
  /\ JoinNext => /\ SameSet /\ eng'.groups = eng.groups /\ eng'.todo = eng.todo /\ eng'.pc = "join"
                 /\ eng'.join = eng.join \/ (Finished(Joined) /\ eng'.join = eng.join - 1)
  /\ JoinAwaited => /\ eng'.active = eng.active /\ eng'.built = eng.built
                    /\ \/ eng'.pc = "shutdown" /\ eng'.groupsLost = TRUE
                       \/ /\ SameSet /\ eng'.groups = eng.groups /\ eng'.todo = eng.todo
                          /\ eng'.pc = "join" /\ Finished(Joined) /\ eng'.join = eng.join - 1
  /\ RoleStopped => /\ eng'.pc = "force" /\ SameSet /\ eng'.todo = Tail(eng.todo)
                    /\ eng'.groups = eng.groups \ {<<eng.active, Head(eng.todo)>>}
  /\ ForceStopped => eng'.pc = "install" /\ SameSet /\ eng'.groups = LeftOf(eng.groups)
  /\ UnusedShutDown => eng'.pc = "idle" /\ SameSet
  /\ EngineExits => eng'.pc = "dead" /\ SameSet
  /\ Install => /\ eng'.pc = "resume" /\ eng'.active = eng.built /\ eng'.built = eng.built
                /\ eng'.groupsLost = eng.groupsLost /\ eng'.groups = eng.groups \cup GroupsOf(eng.built)
  /\ ResumePicker => eng'.pc = "idle" /\ SameSet /\ eng'.groups = LeftOf(eng.groups)
<1> USE DEF SameSet
<1>0. eng \in EngineRec
  BY DEF TypeInv, EngineType
<1>1. Pruned(eng) \in EngineRec /\ Pruned(eng).groups = LeftOf(eng.groups)
      /\ Pruned(eng).active = eng.active /\ Pruned(eng).built = eng.built
      /\ Pruned(eng).groupsLost = eng.groupsLost
  BY Zenon, <1>0 DEF Pruned, EngineRec, LeftOf
<1>2. Prebuild => /\ eng'.pc = "isolate" /\ eng'.active = eng.active /\ eng'.built = eng.built + 1
                  /\ eng'.groupsLost = eng.groupsLost /\ eng'.groups = eng.groups
  BY <1>0 DEF Prebuild, EngineRec
<1>3. IsolatePicker => eng'.pc = "disconnect" /\ SameSet /\ eng'.groups = LeftOf(eng.groups)
  BY <1>1 DEF IsolatePicker, EngineRec
<1>4. DisconnectRouter => eng'.pc = "drain" /\ SameSet /\ eng'.groups = eng.groups
  BY <1>0 DEF DisconnectRouter, EngineRec
<1>5. ASSUME NEW t, DrainFails(t)
      PROVE  eng'.pc = "force" /\ SameSet /\ eng'.groups = eng.groups /\ eng'.todo = Roles
  BY <1>0, <1>5 DEF DrainFails, EngineRec
<1>6. DrainTimeout => eng'.pc = "force" /\ SameSet /\ eng'.groups = eng.groups /\ eng'.todo = Roles
  BY <1>5 DEF DrainTimeout
<1>7. ASSUME DrainObserve
      PROVE  /\ SameSet /\ eng'.groups = eng.groups
             /\ \/ UNCHANGED eng /\ drain'[eng.active].wait = Tracker.wait
                \/ eng'.pc = "force" /\ eng'.todo = Roles /\ drain'[eng.active].wait = "failed"
  <2>1. \/ UNCHANGED eng /\ drain'[eng.active].wait = Tracker.wait
        \/ /\ eng' = [eng EXCEPT !.pc = "force", !.todo = Roles]
           /\ drain'[eng.active].wait = "failed"
    BY <1>7, ObserveMoves
  <2> QED
    BY Zenon, <1>0, <2>1 DEF EngineRec
<1>8. ASSUME DrainQuiesced
      PROVE  /\ eng'.pc = "install" /\ SameSet
             /\ eng'.groups = LeftOf(eng.groups \ GroupsOf(eng.active))
  <2> DEFINE old == eng.groups \cap GroupsOf(eng.active)
             gs == eng.groups \ GroupsOf(eng.active)
             d == eng.detached \cup old
             e == [eng EXCEPT !.pc = "install", !.groups = gs, !.detached = d]
  <2>1. eng' = Pruned(e)
    <3>1. eng.groups \ old = gs
      OBVIOUS
    <3> QED
      BY Zenon, <1>0, <1>8, <3>1 DEF DrainQuiesced
  <2>2. /\ e.groups = gs /\ e.pc = "install" /\ e.active = eng.active /\ e.built = eng.built
        /\ e.groupsLost = eng.groupsLost /\ e \in EngineRec
    <3>1. d \subseteq Gens \X RoleSet /\ gs \subseteq (Gens \X RoleSet) \cup {PickerGroup}
      <4>1. old \subseteq Gens \X RoleSet
        BY <1>0, RolesAre DEF GroupsOf, EngineRec
      <4> HIDE DEF old
      <4> QED
        BY <1>0, <4>1 DEF EngineRec
    <3> HIDE DEF gs, d
    <3> QED
      BY Zenon, <1>0, <3>1 DEF EngineRec
  <2> HIDE DEF gs, d
  <2> HIDE DEF e
  <2>3. /\ Pruned(e).groups = LeftOf(gs) /\ Pruned(e).pc = "install" /\ Pruned(e).active = eng.active
        /\ Pruned(e).built = eng.built /\ Pruned(e).groupsLost = eng.groupsLost
    BY <2>2 DEF Pruned, LeftOf, EngineRec
  <2> QED
    BY <2>1, <2>3 DEF gs
<1>9. StopRole => /\ SameSet /\ eng'.groups = eng.groups
                  /\ \/ /\ <<eng.active, Head(eng.todo)>> \in eng.groups
                        /\ eng'.pc = "join" /\ eng'.join = NumOf(Head(eng.todo)) /\ eng'.todo = eng.todo
                     \/ /\ <<eng.active, Head(eng.todo)>> \notin eng.groups
                        /\ eng'.pc = "force" /\ eng'.todo = Tail(eng.todo)
  BY Zenon, <1>0 DEF StopRole, EngineRec
<1>10. JoinNext => /\ SameSet /\ eng'.groups = eng.groups /\ eng'.todo = eng.todo /\ eng'.pc = "join"
                   /\ eng'.join = eng.join \/ (Finished(Joined) /\ eng'.join = eng.join - 1)
  BY <1>0 DEF JoinNext, EngineRec
<1>11. JoinAwaited => /\ eng'.active = eng.active /\ eng'.built = eng.built
                      /\ \/ eng'.pc = "shutdown" /\ eng'.groupsLost = TRUE
                         \/ /\ SameSet /\ eng'.groups = eng.groups /\ eng'.todo = eng.todo
                            /\ eng'.pc = "join" /\ Finished(Joined) /\ eng'.join = eng.join - 1
  BY Zenon, <1>0 DEF JoinAwaited, EngineRec
<1>12. RoleStopped => /\ eng'.pc = "force" /\ SameSet /\ eng'.todo = Tail(eng.todo)
                      /\ eng'.groups = eng.groups \ {<<eng.active, Head(eng.todo)>>}
  BY <1>0 DEF RoleStopped, EngineRec
<1>13. ForceStopped => eng'.pc = "install" /\ SameSet /\ eng'.groups = LeftOf(eng.groups)
  BY <1>1 DEF ForceStopped, EngineRec
<1>14. (UnusedShutDown => eng'.pc = "idle" /\ SameSet) /\ (EngineExits => eng'.pc = "dead" /\ SameSet)
  BY <1>0 DEF UnusedShutDown, EngineExits, EngineRec
<1>15. Install => /\ eng'.pc = "resume" /\ eng'.active = eng.built /\ eng'.built = eng.built
                  /\ eng'.groupsLost = eng.groupsLost /\ eng'.groups = eng.groups \cup GroupsOf(eng.built)
  BY <1>0 DEF Install, EngineRec
<1>16. ResumePicker => eng'.pc = "idle" /\ SameSet /\ eng'.groups = LeftOf(eng.groups)
  BY <1>1 DEF ResumePicker, EngineRec
<1> HIDE DEF SameSet
<1> QED
  BY <1>2, <1>3, <1>4, <1>6, <1>7, <1>8, <1>9, <1>10, <1>11, <1>12, <1>13, <1>14, <1>15, <1>16

-----------------------------------------------------------------------------
(* Pieces of the inductive invariant *)

\* Where the reload stands, which generations exist and how far each wait is.
GenInv ==
  /\ eng.groupsLost <=> eng.pc \in {"shutdown", "dead"} \/ (eng.pc = "idle" /\ eng.built # eng.active)
  /\ eng.built = IF eng.pc \in {"idle", "resume"} /\ ~eng.groupsLost
                   THEN eng.active ELSE eng.active + 1
  /\ \A w \in Workers : wk[w].st = "off" <=> Gen(w) > eng.built
  /\ \A g \in Gens : g > eng.active => drain[g].wait = "idle"
  /\ drain[eng.active].wait \in
       CASE eng.groupsLost \/ eng.pc \in {"force", "join"} -> {"failed"}
         [] eng.pc = "drain" -> {"waiting"}
         [] eng.pc = "install" -> {"failed", "quiesced"}
         [] OTHER -> {"idle"}

\* Stop is sent to a generation only after its wait failed, or to the new one
\* when the reload is given up.
StopInv ==
  \A w \in Workers : wk[w].stop =>
     drain[Gen(w)].wait = "failed" \/ (eng.groupsLost /\ Gen(w) > eng.active)

\* A worker's reporter tells how its task ended, only Stop or a fault ends an
\* output, and a task that is gone holds nothing.
Fits(w, st, ch, hand, rep, stop, n) ==
  /\ rep = CASE st \in {"off", "run", "draining"} -> "armed"
            [] st \in {"tail", "done"} -> "Drained"
            [] st \in {"failed", "panicked"} -> "Aborted"
  /\ st = "draining" => w \in OutSet
  /\ w \in OutSet /\ st \in {"draining", "tail", "done"} => stop
  /\ w \in OutSet /\ st \in {"failed", "panicked"} => n > 0
  /\ w \in OutSet \/ st # "run" => hand = NoEvent
  /\ st \in {"off", "done", "failed", "panicked"} => ch = <<>>
RepInv ==
  \A w \in Workers : Fits(w, wk[w].st, wk[w].ch, wk[w].hand, wk[w].rep, wk[w].stop, faults)

\* A parser whose loop ended without Stop has emptied its channel, and no
\* sender of it is left.
TailInv ==
  \A w \in ParserSet : wk[w].st \in {"tail", "done"} /\ ~wk[w].stop =>
    wk[w].ch = <<>> /\ ~SenderAlive(w)

-----------------------------------------------------------------------------
(* Where the reload stands *)

\* The first generation runs, no other is built.
LEMMA InitGen == Init => GenInv /\ StopInv /\ RepInv /\ TailInv
<1> SUFFICES ASSUME Init PROVE GenInv /\ StopInv /\ RepInv /\ TailInv
  OBVIOUS
<1>0. 1 \in Gens /\ \A g \in Gens : g \in Nat /\ g >= 1
  BY HotReloadAssumption DEF Gens
<1>1. eng.pc = "idle" /\ eng.active = 1 /\ eng.built = 1 /\ eng.groupsLost = FALSE
  BY DEF Init
<1>2. \A g \in Gens : drain[g].wait = "idle"
  BY DEF Init, NewTracker
<1>3. ASSUME NEW w \in Workers
      PROVE  /\ wk[w].st = "off" <=> Gen(w) > 1
             /\ wk[w].st \in {"off", "run"} /\ wk[w].ch = <<>> /\ wk[w].hand = NoEvent
             /\ wk[w].stop = FALSE /\ wk[w].rep = "armed"
  <2>1. Gen(w) \in Nat /\ Gen(w) >= 1
    BY <1>0, WorkerIs
  <2>2. wk[w] = [st |-> IF Gen(w) = 1 THEN "run" ELSE "off", ch |-> <<>>, hand |-> NoEvent,
                 stop |-> FALSE, rep |-> "armed"]
    BY DEF Init
  <2> QED
    BY <2>1, <2>2
<1>4. GenInv
  BY Zenon, <1>0, <1>1, <1>2, <1>3 DEF GenInv
<1>5. StopInv /\ TailInv
  BY Zenon, <1>3 DEF StopInv, TailInv, ParserSet
<1>6. RepInv
  BY Zenon, <1>3 DEF RepInv, Fits
<1> QED
  BY <1>4, <1>5, <1>6

\* What a step leaves alone keeps the invariants about it.
LEMMA TaskGen ==
  ASSUME TypeInv, GenInv, StopInv, TaskStep
  PROVE  GenInv' /\ StopInv'
<1>1. WorkersKept /\ RestKept
  BY TaskKeeps
<1>2. eng.active \in Gens /\ \A w \in Workers : Gen(w) \in Gens
  BY WorkerIs, TrackerIs
<1>3. GenInv'
  BY <1>1, <1>2 DEF GenInv, WorkersKept, RestKept
<1>4. StopInv'
  BY <1>1, <1>2 DEF StopInv, WorkersKept, RestKept
<1> QED
  BY <1>3, <1>4

\* An engine's step that neither builds nor installs a generation.
LEMMA SameGen ==
  ASSUME TypeInv, GenInv, EngineStep, ~Prebuild, eng'.active = eng.active, eng'.built = eng.built
  PROVE  \A w \in Workers : (wk[w].st = "off")' <=> Gen(w) > eng'.built
BY EngineKeeps DEF EngineKept, GenInv

\* The steps of the engine keep the places of the reload and of its waits.
LEMMA EngineGen ==
  ASSUME TypeInv, GenInv, EngineStep
  PROVE  GenInv'
<1>0. /\ eng.active \in Nat /\ eng.built \in Nat /\ eng.active \in Gens
      /\ \A g \in Gens : g \in Nat
      /\ \A w \in Workers : Gen(w) \in Nat
      /\ eng.groupsLost \in BOOLEAN
  BY GensAre DEF TypeInv, EngineType, EngineRec
<1>1. CASE Prebuild
  <2>1. /\ eng.pc = "idle" /\ ~eng.groupsLost /\ eng'.pc = "isolate" /\ eng'.active = eng.active
        /\ eng'.built = eng.built + 1 /\ ~eng'.groupsLost /\ UNCHANGED drain
    BY <1>1, EngineMoves DEF Prebuild
  <2>2. \A w \in Workers : wk'[w].st = IF Gen(w) = eng.built + 1 THEN "run" ELSE wk[w].st
    <3>1. ASSUME NEW w \in Workers
          PROVE  wk'[w].st = IF Gen(w) = eng.built + 1 THEN "run" ELSE wk[w].st
      <4>1. wk'[w] = IF Gen(w) = eng.built + 1 THEN [wk[w] EXCEPT !.st = "run"] ELSE wk[w]
        BY <1>1 DEF Prebuild, Running
      <4>2. wk[w] \in WorkerRec
        BY DEF TypeInv, WorkersType
      <4> QED
        BY <4>1, <4>2 DEF WorkerRec
    <3> QED
      BY <3>1
  <2>3. \A w \in Workers : (wk[w].st = "off")' <=> Gen(w) > eng'.built
    <3> SUFFICES ASSUME NEW w \in Workers PROVE wk'[w].st = "off" <=> Gen(w) > eng'.built
      OBVIOUS
    <3>1. wk[w].st = "off" <=> Gen(w) > eng.built
      BY DEF GenInv
    <3> QED
      BY <1>0, <2>1, <2>2, <3>1
  <2> QED
    BY <1>0, <2>1, <2>3 DEF GenInv
<1>2. CASE IsolatePicker
  <2>1. eng.pc = "isolate" /\ eng'.pc = "disconnect" /\ SameSet /\ UNCHANGED drain
    BY <1>2, EngineMoves DEF IsolatePicker
  <2>2. ~Prebuild
    BY <2>1 DEF Prebuild
  <2> QED
    BY <2>1, <2>2, SameGen DEF GenInv, SameSet
<1>3. CASE DisconnectRouter
  <2>1. eng.pc = "disconnect" /\ eng'.pc = "drain" /\ SameSet /\ TrackerGoes("waiting")
    BY <1>3, EngineMoves, WaitMoves DEF DisconnectRouter
  <2>2. ~Prebuild
    BY <2>1 DEF Prebuild
  <2> QED
    BY <1>0, <2>1, <2>2, SameGen DEF GenInv, SameSet, TrackerGoes
<1>4. CASE DrainTimeout
  <2>1. eng.pc = "drain" /\ eng'.pc = "force" /\ SameSet /\ TrackerGoes("failed")
    BY <1>4, EngineMoves, WaitMoves DEF DrainTimeout
  <2>2. ~Prebuild
    BY <2>1 DEF Prebuild
  <2> QED
    BY <1>0, <2>1, <2>2, SameGen DEF GenInv, SameSet, TrackerGoes
<1>5. CASE DrainQuiesced
  <2>1. eng.pc = "drain" /\ eng'.pc = "install" /\ SameSet /\ TrackerGoes("quiesced")
    BY <1>5, EngineMoves, WaitMoves DEF DrainQuiesced
  <2>2. ~Prebuild
    BY <2>1 DEF Prebuild
  <2> QED
    BY <1>0, <2>1, <2>2, SameGen DEF GenInv, SameSet, TrackerGoes
<1>6. CASE DrainObserve
  <2>1. /\ eng.pc = "drain" /\ SameSet
        /\ \/ eng'.pc = "drain" /\ drain'[eng.active].wait = drain[eng.active].wait
           \/ eng'.pc = "force" /\ drain'[eng.active].wait = "failed"
    BY Zenon, <1>6, EngineMoves DEF DrainObserve, Tracker
  <2>2. ~Prebuild
    BY <2>1 DEF Prebuild
  <2>3. \A g \in Gens : g # eng.active => drain'[g] = drain[g]
    BY <1>6, ObserveMoves
  <2> QED
    BY <1>0, <2>1, <2>2, <2>3, SameGen DEF GenInv, SameSet
<1>7. CASE StopRole \/ RoleStopped \/ JoinNext
  <2>1. /\ eng.pc \in {"force", "join"} /\ eng'.pc \in {"force", "join"} /\ SameSet
        /\ UNCHANGED drain
    BY <1>7, EngineMoves DEF StopRole, RoleStopped, JoinNext
  <2>2. ~Prebuild
    BY <2>1 DEF Prebuild
  <2> QED
    BY <2>1, <2>2, SameGen DEF GenInv, SameSet
<1>8. CASE JoinAwaited
  <2>1. /\ eng.pc = "join" /\ eng'.active = eng.active /\ eng'.built = eng.built
        /\ \/ eng'.pc = "shutdown" /\ eng'.groupsLost = TRUE
           \/ SameSet /\ eng'.pc = "join"
        /\ UNCHANGED drain
    BY Zenon, <1>8, EngineMoves DEF JoinAwaited
  <2>2. ~Prebuild
    BY <2>1 DEF Prebuild
  <2> QED
    BY <1>0, <2>1, <2>2, SameGen DEF GenInv, SameSet
<1>9. CASE ForceStopped
  <2>1. eng.pc = "force" /\ eng'.pc = "install" /\ SameSet /\ UNCHANGED drain
    BY <1>9, EngineMoves DEF ForceStopped
  <2>2. ~Prebuild
    BY <2>1 DEF Prebuild
  <2> QED
    BY <2>1, <2>2, SameGen DEF GenInv, SameSet
<1>10. CASE UnusedShutDown \/ EngineExits
  <2>1. /\ eng.pc = "shutdown" \/ (eng.pc = "idle" /\ eng.groupsLost)
        /\ eng'.pc \in {"idle", "dead"} /\ SameSet /\ UNCHANGED drain
    BY <1>10, EngineMoves DEF UnusedShutDown, EngineExits
  <2>2. ~Prebuild
    BY <2>1 DEF Prebuild
  <2>3. eng.groupsLost /\ eng.built = eng.active + 1
    BY <2>1 DEF GenInv
  <2> QED
    BY <1>0, <2>1, <2>2, <2>3, SameGen DEF GenInv, SameSet
<1>11. CASE Install
  <2>1. /\ eng.pc = "install" /\ eng'.pc = "resume" /\ eng'.active = eng.built
        /\ eng'.built = eng.built /\ eng'.groupsLost = eng.groupsLost
        /\ UNCHANGED <<drain, wk>>
    BY <1>11, EngineMoves DEF Install
  <2>2. eng.built = eng.active + 1 /\ ~eng.groupsLost /\ eng.built \in Gens
    BY <2>1, GensAre DEF GenInv
  <2> QED
    BY <1>0, <2>1, <2>2 DEF GenInv
<1>12. CASE ResumePicker
  <2>1. eng.pc = "resume" /\ eng'.pc = "idle" /\ SameSet /\ UNCHANGED drain
    BY <1>12, EngineMoves DEF ResumePicker
  <2>2. ~Prebuild
    BY <2>1 DEF Prebuild
  <2> QED
    BY <1>0, <2>1, <2>2, SameGen DEF GenInv, SameSet
<1> QED
  BY <1>1, <1>2, <1>3, <1>4, <1>5, <1>6, <1>7, <1>8, <1>9, <1>10, <1>11, <1>12 DEF EngineStep, ReloadStep

\* A wait that has an outcome keeps it.
LEMMA OutcomeStays ==
  ASSUME TypeInv, GenInv, EngineStep, NEW g \in Gens
  PROVE  /\ drain[g].wait \in {"failed", "quiesced"} => drain'[g].wait = drain[g].wait
         /\ drain'[g].wait = "quiesced" =>
              drain[g].wait = "quiesced" \/ (DrainQuiesced /\ g = eng.active)
         /\ eng.groupsLost => eng'.groupsLost /\ eng'.active = eng.active
<1>0. eng.active \in Gens /\ Tracker = drain[eng.active]
  BY GensAre DEF Tracker
<1>1. CASE DisconnectRouter
  <2>1. eng.pc = "disconnect" /\ SameSet /\ TrackerGoes("waiting")
    BY <1>1, EngineMoves, WaitMoves DEF DisconnectRouter
  <2>2. drain[eng.active].wait = "idle"
    BY <2>1 DEF GenInv
  <2> QED
    BY <1>0, <2>1, <2>2 DEF TrackerGoes, SameSet
<1>2. CASE DrainTimeout
  <2>1. eng.pc = "drain" /\ SameSet /\ TrackerGoes("failed")
    BY <1>2, EngineMoves, WaitMoves DEF DrainTimeout
  <2>2. drain[eng.active].wait = "waiting"
    BY <2>1 DEF GenInv
  <2> QED
    BY <1>0, <2>1, <2>2 DEF TrackerGoes, SameSet
<1>3. CASE DrainQuiesced
  <2>1. eng.pc = "drain" /\ SameSet /\ TrackerGoes("quiesced")
    BY <1>3, EngineMoves, WaitMoves DEF DrainQuiesced
  <2>2. drain[eng.active].wait = "waiting"
    BY <2>1 DEF GenInv
  <2> QED
    BY <1>0, <1>3, <2>1, <2>2 DEF TrackerGoes, SameSet
<1>4. CASE DrainObserve
  <2>1. /\ eng.pc = "drain" /\ SameSet
        /\ drain'[eng.active].wait = Tracker.wait \/ drain'[eng.active].wait = "failed"
    BY <1>4, EngineMoves DEF DrainObserve
  <2>2. drain[eng.active].wait = "waiting"
    BY <2>1 DEF GenInv
  <2>3. \A h \in Gens : h # eng.active => drain'[h] = drain[h]
    BY <1>4, ObserveMoves
  <2> QED
    BY <1>0, <2>1, <2>2, <2>3 DEF SameSet
<1>5. CASE \/ IsolatePicker \/ StopRole \/ JoinNext \/ RoleStopped \/ ForceStopped
           \/ UnusedShutDown \/ EngineExits \/ ResumePicker
  <2>1. SameSet
    BY <1>5, EngineMoves
  <2>2. UNCHANGED drain
    BY <1>5 DEF IsolatePicker, StopRole, JoinNext, RoleStopped, ForceStopped, UnusedShutDown,
               EngineExits, ResumePicker
  <2> QED
    BY <2>1, <2>2 DEF SameSet
<1>6. CASE Prebuild \/ JoinAwaited
  <2>1. eng'.active = eng.active /\ (eng.groupsLost => eng'.groupsLost)
    BY Zenon, <1>6, EngineMoves DEF Prebuild, SameSet
  <2>2. UNCHANGED drain
    BY <1>6 DEF Prebuild, JoinAwaited
  <2> QED
    BY <2>1, <2>2
<1>7. CASE Install
  <2>1. UNCHANGED drain /\ eng.pc = "install"
    BY <1>7 DEF Install
  <2>2. ~eng.groupsLost
    BY <2>1 DEF GenInv
  <2> QED
    BY <2>1, <2>2
<1> QED
  BY <1>1, <1>2, <1>3, <1>4, <1>5, <1>6, <1>7 DEF EngineStep, ReloadStep

\* Only a forced stop, of a set whose wait failed or was given up, sends Stop.
LEMMA EngineStop ==
  ASSUME TypeInv, GenInv, StopInv, EngineStep
  PROVE  StopInv'
<1> SUFFICES ASSUME NEW w \in Workers, wk'[w].stop
             PROVE  drain'[Gen(w)].wait = "failed" \/ (eng'.groupsLost /\ Gen(w) > eng'.active)
  BY DEF StopInv
<1>0. /\ Gen(w) \in Gens /\ eng.active \in Nat /\ wk[w] \in WorkerRec /\ eng.active \in Gens
      /\ \A g \in Gens : g \in Nat
  BY GensAre DEF TypeInv, WorkersType
<1>1. CASE wk[w].stop
  BY <1>0, <1>1, OutcomeStays DEF StopInv
<1>2. CASE ~wk[w].stop /\ StopRole
  <2>1. w \in Group(eng.active, Head(eng.todo)) /\ eng.pc = "force" /\ UNCHANGED drain
        /\ eng.todo # <<>>
    BY <1>2 DEF StopRole
  <2>2. Head(eng.todo) \in RoleSet
    BY <2>1, HeadTail DEF TypeInv, EngineType, EngineRec
  <2>3. Gen(w) = eng.active
    BY <1>0, <2>1, <2>2, GroupIs
  <2>4. drain[eng.active].wait = "failed"
    BY <2>1 DEF GenInv
  <2> QED
    BY <2>1, <2>3, <2>4
<1>3. CASE ~wk[w].stop /\ JoinAwaited
  <2>1. eng.pc = "join" /\ UNCHANGED drain
    BY <1>3 DEF JoinAwaited
  <2>2. drain[eng.active].wait = "failed" /\ eng.built = eng.active + 1
    BY <2>1 DEF GenInv
  <2> DEFINE b == wk[w].stop \/ Gen(w) = eng.built \/ (Gen(w) = eng.active /\ Role(w) # "Parser")
  <2>3. wk[Joined].st = "panicked" /\ wk'[w] = [wk[w] EXCEPT !.stop = b]
    BY <1>3 DEF JoinAwaited
  <2>4. b
    BY <1>0, <2>3 DEF WorkerRec
  <2>5. Gen(w) = eng.built \/ Gen(w) = eng.active
    BY <1>3, <2>4
  <2>6. eng' = [eng EXCEPT !.pc = "shutdown", !.awaiting = FALSE, !.join = 0,
                           !.todo = <<>>, !.groups = {}, !.groupsLost = TRUE]
    BY <1>3, <2>3 DEF JoinAwaited
  <2>7. eng'.groupsLost /\ eng'.active = eng.active
    BY <2>6 DEF TypeInv, EngineType, EngineRec
  <2> QED
    BY <1>0, <2>1, <2>2, <2>5, <2>7
<1>4. CASE ~wk[w].stop /\ ~StopRole /\ ~JoinAwaited
  <2>1. wk'[w].stop = wk[w].stop
    <3>1. CASE Prebuild
      <4>1. wk'[w] = wk[w] \/ wk'[w] = [wk[w] EXCEPT !.st = "run"]
        BY <3>1 DEF Prebuild, Running
      <4> QED
        BY Zenon, <1>0, <4>1 DEF WorkerRec
    <3>2. CASE DrainTimeout
      BY Zenon, <3>2 DEF DrainTimeout
    <3>3. CASE ReloadStep
      BY <1>4, <3>3 DEF ReloadStep, IsolatePicker, DisconnectRouter, DrainObserve, DrainQuiesced,
         JoinNext, RoleStopped, ForceStopped, UnusedShutDown, EngineExits, Install, ResumePicker
    <3> QED
      BY Zenon, <3>1, <3>2, <3>3 DEF EngineStep
  <2> QED
    BY <1>4, <2>1
<1> QED
  BY <1>1, <1>2, <1>3, <1>4

-----------------------------------------------------------------------------
(* How a task ends *)

\* One worker changes, to values that fit.
LEMMA BecomesFits ==
  ASSUME TypeInv, RepInv, NEW w \in Workers, NEW st, NEW ch, NEW hand, NEW rep,
         Becomes(w, st, ch, hand, rep), faults' \in Nat, faults' >= faults,
         Fits(w, st, ch, hand, rep, wk[w].stop, faults')
  PROVE  RepInv'
<1>0. WorkersType /\ faults \in Nat
  BY DEF TypeInv, DataType
<1>1. /\ wk'[w].st = st /\ wk'[w].ch = ch /\ wk'[w].hand = hand /\ wk'[w].rep = rep
      /\ wk'[w].stop = wk[w].stop
      /\ \A v \in Workers : v # w => wk'[v] = wk[v]
  BY <1>0, BecomesIs
<1>2. ASSUME NEW v \in Workers
      PROVE  Fits(v, wk'[v].st, wk'[v].ch, wk'[v].hand, wk'[v].rep, wk'[v].stop, faults')
  <2>1. CASE v = w
    BY <1>1, <2>1
  <2>2. CASE v # w
    <3>1. wk'[v] = wk[v]
      BY <1>1, <2>2
    <3>2. Fits(v, wk[v].st, wk[v].ch, wk[v].hand, wk[v].rep, wk[v].stop, faults)
      BY DEF RepInv
    <3>3. faults > 0 => faults' > 0
      BY <1>0
    <3> QED
      BY <3>1, <3>2, <3>3 DEF Fits
  <2> QED
    BY <2>1, <2>2
<1> QED
  BY Zenon, <1>2 DEF RepInv, Fits

\* A worker fits its report after every step of a task.
LEMMA TaskRep ==
  ASSUME TypeInv, RepInv, TaskStep
  PROVE  RepInv'
<1>0. WorkersType /\ faults \in Nat /\ faults <= faults
  BY DEF TypeInv, DataType
<1>00. \A w \in Workers : Fits(w, wk[w].st, wk[w].ch, wk[w].hand, wk[w].rep, wk[w].stop, faults)
  BY DEF RepInv
<1>1. ASSUME NEW p \in Pickers, PickerStep(p) PROVE RepInv'
  <2>0. faults' = faults
    BY Zenon, <1>1, PickerMoves
  <2>1. CASE wk' = wk
    BY Zenon, <2>0, <2>1 DEF RepInv, Fits
  <2>2. ASSUME NEW w \in ParserSet, NEW c, RecvAlive(w), Becomes(w, wk[w].st, c, wk[w].hand, wk[w].rep)
        PROVE  RepInv'
    <3>1. Fits(w, wk[w].st, c, wk[w].hand, wk[w].rep, wk[w].stop, faults)
      BY <1>00, <2>2 DEF Fits, RecvAlive, ParserSet
    <3> QED
      BY <1>0, <2>0, <2>2, <3>1, BecomesFits DEF ParserSet
  <2> QED
    BY Zenon, <1>1, <2>1, <2>2, PickerMoves
<1>2. ASSUME NEW w \in ParserSet, ParserStep(w) PROVE RepInv'
  <2>0. w \in Workers /\ w \notin OutSet
    BY DEF ParserSet, OutSet
  <2>1. CASE ParserRecv(w)
    <3>1. Becomes(w, "run", Tail(wk[w].ch), Head(wk[w].ch), wk[w].rep) /\ faults' = faults
      BY Zenon, <1>0, <2>0, <2>1, Moves DEF ParserRecv
    <3>2. Fits(w, "run", Tail(wk[w].ch), Head(wk[w].ch), wk[w].rep, wk[w].stop, faults)
      BY <1>00, <2>0, <2>1 DEF Fits, ParserRecv
    <3> QED
      BY <1>0, <2>0, <3>1, <3>2, BecomesFits
  <2>2. CASE ParserLoopEnds(w)
    <3>1. Becomes(w, "tail", wk[w].ch, wk[w].hand, "Drained") /\ faults' = faults
      BY Zenon, <1>0, <2>0, <2>2, Moves DEF ParserLoopEnds
    <3>2. Fits(w, "tail", wk[w].ch, wk[w].hand, "Drained", wk[w].stop, faults)
      BY <2>0, <2>2 DEF Fits, ParserLoopEnds
    <3> QED
      BY <1>0, <2>0, <3>1, <3>2, BecomesFits
  <2>3. CASE ParserForward(w)
    <3>1. PICK out : Forwards(w, out)
      BY <2>3, ForwardMoves
    <3>2. wk[w].hand \in Events /\ wk[w].st = "run" /\ faults' = faults
      BY <2>3, ForwardMoves
    <3>3. CASE Becomes(w, "run", wk[w].ch, NoEvent, wk[w].rep)
      <4>1. Fits(w, "run", wk[w].ch, NoEvent, wk[w].rep, wk[w].stop, faults)
        BY <1>00, <2>0, <3>2 DEF Fits
      <4> QED
        BY <1>0, <2>0, <3>2, <3>3, <4>1, BecomesFits
    <3>4. CASE Becomes(w, "failed", <<>>, NoEvent, "Aborted")
      <4>1. Fits(w, "failed", <<>>, NoEvent, "Aborted", wk[w].stop, faults)
        BY <2>0 DEF Fits
      <4> QED
        BY <1>0, <2>0, <3>2, <3>4, <4>1, BecomesFits
    <3>5. CASE out \in OutSet /\ wk[out].st = "run" /\ Handed(w, out, wk[w].hand)
      <4>1. ASSUME NEW v \in Workers
            PROVE  Fits(v, wk'[v].st, wk'[v].ch, wk'[v].hand, wk'[v].rep, wk'[v].stop, faults')
        <5>1. /\ wk'[v].st = wk[v].st /\ wk'[v].rep = wk[v].rep /\ wk'[v].stop = wk[v].stop
              /\ wk'[v].hand = wk[v].hand \/ wk'[v].hand = NoEvent
              /\ wk'[v].ch = wk[v].ch \/ wk[v].st = "run"
          BY <1>0, <3>2, <3>5, HandedIs
        <5> QED
          BY Zenon, <1>00, <3>2, <5>1 DEF Fits
      <4> QED
        BY Zenon, <4>1 DEF RepInv, Fits
    <3> QED
      BY <3>1, <3>3, <3>4, <3>5 DEF Forwards
  <2> QED
    BY <1>2, <2>1, <2>2, <2>3 DEF ParserStep
<1>3. ASSUME NEW w \in OutSet, OutStep(w) PROVE RepInv'
  <2>0. w \in Workers
    BY DEF OutSet
  <2>1. CASE OutRecv(w)
    <3>1. Becomes(w, wk[w].st, Tail(wk[w].ch), wk[w].hand, wk[w].rep) /\ faults' = faults
      BY Zenon, <1>0, <2>0, <2>1, Moves DEF OutRecv
    <3>2. Fits(w, wk[w].st, Tail(wk[w].ch), wk[w].hand, wk[w].rep, wk[w].stop, faults)
      BY <1>00, <2>0, <2>1 DEF Fits, OutRecv
    <3> QED
      BY <1>0, <2>0, <3>1, <3>2, BecomesFits
  <2>2. CASE OutStop(w)
    <3>1. Becomes(w, "draining", wk[w].ch, wk[w].hand, wk[w].rep) /\ faults' = faults
      BY Zenon, <1>0, <2>0, <2>2, Moves DEF OutStop
    <3>2. Fits(w, "draining", wk[w].ch, wk[w].hand, wk[w].rep, wk[w].stop, faults)
      BY <1>00, <2>0, <2>2 DEF Fits, OutStop
    <3> QED
      BY <1>0, <2>0, <3>1, <3>2, BecomesFits
  <2>3. CASE OutDrained(w)
    <3>1. Becomes(w, "tail", wk[w].ch, wk[w].hand, "Drained") /\ faults' = faults
      BY Zenon, <1>0, <2>0, <2>3, Moves DEF OutDrained
    <3>2. Fits(w, "tail", wk[w].ch, wk[w].hand, "Drained", wk[w].stop, faults)
      BY <1>00, <2>0, <2>3 DEF Fits, OutDrained
    <3> QED
      BY <1>0, <2>0, <3>1, <3>2, BecomesFits
  <2> QED
    BY <1>3, <2>1, <2>2, <2>3 DEF OutStep
<1>4. ASSUME NEW w \in Workers, TaskReturns(w) PROVE RepInv'
  <2>1. Becomes(w, "done", <<>>, wk[w].hand, wk[w].rep) /\ faults' = faults
    BY Zenon, <1>0, <1>4, Moves DEF TaskReturns
  <2>2. Fits(w, "done", <<>>, wk[w].hand, wk[w].rep, wk[w].stop, faults)
    BY <1>00, <1>4 DEF Fits, TaskReturns
  <2> QED
    BY <1>0, <2>1, <2>2, BecomesFits
<1>5. ASSUME NEW w \in Workers, NEW st \in {"failed", "panicked"}, Fault(w, st) PROVE RepInv'
  <2>1. Becomes(w, st, <<>>, NoEvent, "Aborted") /\ faults' = faults + 1
    BY Zenon, <1>0, <1>5, Moves DEF Fault
  <2>2. faults' \in Nat /\ faults' >= faults /\ faults' > 0
    BY <1>0, <2>1
  <2>3. Fits(w, st, <<>>, NoEvent, "Aborted", wk[w].stop, faults')
    BY <2>2 DEF Fits
  <2> QED
    BY <2>1, <2>2, <2>3, BecomesFits
<1> QED
  BY <1>1, <1>2, <1>3, <1>4, <1>5 DEF TaskStep

\* The engine starts a worker, or sends it Stop.
LEMMA EngineRep ==
  ASSUME TypeInv, GenInv, RepInv, EngineStep
  PROVE  RepInv'
<1>1. EngineKept
  BY EngineKeeps
<1>2. ASSUME NEW w \in Workers
      PROVE  Fits(w, wk'[w].st, wk'[w].ch, wk'[w].hand, wk'[w].rep, wk'[w].stop, faults')
  <2>0. Fits(w, wk[w].st, wk[w].ch, wk[w].hand, wk[w].rep, wk[w].stop, faults)
    BY DEF RepInv
  <2>1. /\ wk'[w].ch = wk[w].ch /\ wk'[w].hand = wk[w].hand /\ wk'[w].rep = wk[w].rep
        /\ wk[w].stop => wk'[w].stop
        /\ faults' = faults
    BY <1>1 DEF EngineKept
  <2>2. CASE wk'[w].st = wk[w].st
    BY <2>0, <2>1, <2>2 DEF Fits
  <2>3. CASE Prebuild /\ Gen(w) = eng.built + 1 /\ wk'[w].st = "run"
    <3>1. Gen(w) > eng.built
      BY <2>3, GensAre
    <3>2. wk[w].st = "off"
      BY <3>1 DEF GenInv
    <3> QED
      BY <2>0, <2>1, <2>3, <3>2 DEF Fits
  <2> QED
    BY <1>1, <2>2, <2>3 DEF EngineKept
<1> QED
  BY Zenon, <1>2 DEF RepInv, Fits

\* A picker's snapshots hold senders it had, or those of the router.
LEMMA SnapMoves ==
  ASSUME TypeInv, NEW p \in Pickers, PickerStep(p), NEW q \in Pickers
  PROVE  Range(pk'[q].snap) \subseteq Range(pk[q].snap) \cup Range(router.senders)
<1>0. pk \in [Pickers -> PickerRec] /\ pk[p] \in PickerRec /\ pk[q] \in PickerRec
  BY DEF TypeInv, PickersType
<1>1. CASE q # p
  <2>1. pk'[q] = pk[q]
    BY Zenon, <1>0, <1>1 DEF PickerStep, PollCmd, Fetch, Snapshot, LoadReloading, TrySend
  <2> QED
    BY <2>1
<1>2. CASE q = p /\ (PollCmd(p) \/ Fetch(p) \/ LoadReloading(p))
  <2>1. pk'[p].snap = pk[p].snap
    BY <1>0, <1>2 DEF PollCmd, Fetch, LoadReloading, PickerRec
  <2> QED
    BY <1>2, <2>1
<1>3. CASE q = p /\ Snapshot(p)
  <2>1. CASE router.senders = <<>>
    <3>1. pk'[p].snap = pk[p].snap
      BY <1>0, <1>3, <2>1 DEF Snapshot, PickerRec
    <3> QED
      BY <1>3, <3>1
  <2>2. CASE router.senders # <<>>
    <3> DEFINE r == Rotated(router.senders, router.next)
    <3>1. pk'[p].snap = r
      BY <1>0, <1>3, <2>2 DEF Snapshot, PickerRec
    <3>2. Range(r) \subseteq Range(router.senders)
      BY <2>2, RotatedIs DEF TypeInv, RouterType
    <3> QED
      BY <1>3, <3>1, <3>2
  <2> QED
    BY <2>1, <2>2
<1>4. CASE q = p /\ TrySend(p)
  <2>1. PICK sent, full : pk' = [pk EXCEPT ![p] = AfterTrySend(p, sent, full)]
    BY Zenon, <1>4 DEF TrySend
  <2>2. pk'[p] = AfterTrySend(p, sent, full)
    BY <1>0, <2>1
  <2>3. AfterTrySend(p, sent, full).snap = <<>> \/ AfterTrySend(p, sent, full).snap = pk[p].snap
    BY <1>0 DEF AfterTrySend, PickerRec
  <2>4. Range(<<>>) = {}
    BY DEF Range
  <2> QED
    BY <1>4, <2>2, <2>3, <2>4
<1> QED
  BY <1>1, <1>2, <1>3, <1>4 DEF PickerStep

\* The router's senders are kept, cut off, or replaced by those of a
\* generation that no picker could have had.
LEMMA SendersMove ==
  ASSUME TypeInv, GenInv, EngineStep
  PROVE  /\ \/ router' = router /\ ~DisconnectRouter /\ ~Install
            \/ DisconnectRouter /\ router'.senders = <<>> /\ router'.reloading
            \/ Install /\ router'.senders = Senders(eng.built) /\ ~router'.reloading
         /\ eng'.active = eng.active \/ (Install /\ eng'.active = eng.built)
<1>1. CASE DisconnectRouter
  BY <1>1, EngineMoves DEF DisconnectRouter, SameSet
<1>2. CASE Install
  BY <1>2, EngineMoves DEF Install
<1>3. CASE ~DisconnectRouter /\ ~Install
  <2>1. router' = router
    BY <1>3 DEF EngineStep, ReloadStep, Prebuild, IsolatePicker, DrainObserve, DrainTimeout,
       DrainQuiesced, StopRole, JoinNext, JoinAwaited, RoleStopped, ForceStopped, UnusedShutDown,
       EngineExits, ResumePicker
  <2>2. eng'.active = eng.active
    BY Zenon, <1>3, EngineMoves DEF EngineStep, ReloadStep, SameSet
  <2> QED
    BY <1>3, <2>1, <2>2
<1> QED
  BY <1>1, <1>2, <1>3

\* A parse channel whose senders are gone gets no new one.
LEMMA SenderGone ==
  ASSUME TypeInv, GenInv, TaskStep \/ EngineStep, NEW w \in ParserSet, ~SenderAlive(w)
  PROVE  ~SenderAlive(w)'
<1>0. /\ w \notin Range(router.senders) /\ ~(Gen(w) > eng.active)
      /\ \A p \in Pickers : w \notin Range(pk[p].snap)
  BY DEF SenderAlive
<1>1. ASSUME NEW p \in Pickers, PickerStep(p) PROVE ~SenderAlive(w)'
  BY Zenon, <1>0, <1>1, SnapMoves, PickerMoves DEF SenderAlive
<1>2. CASE UNCHANGED <<pk, router, eng>>
  BY <1>0, <1>2 DEF SenderAlive
<1>3. CASE EngineStep
  <2>1. \A p \in Pickers : w \notin Range(pk'[p].snap)
    BY <1>0, <1>3, EngineKeeps DEF EngineKept
  <2>2. w \in Workers /\ Gen(w) \in Nat /\ eng.active \in Nat /\ eng.built \in Gens
        /\ eng.active <= eng.built /\ eng.built \in Nat
    BY GensAre DEF ParserSet
  <2>3. CASE ~Install
    <3>1. w \notin Range(router'.senders) /\ eng'.active = eng.active
      <4>1. Range(<<>>) = {}
        BY DEF Range
      <4> QED
        BY <1>0, <1>3, <2>3, <4>1, SendersMove
    <3> QED
      BY <1>0, <2>1, <3>1 DEF SenderAlive
  <2>4. CASE Install
    <3>1. eng.pc = "install"
      BY <2>4 DEF Install
    <3>2. eng.built = eng.active + 1
      BY <3>1 DEF GenInv
    <3>3. router'.senders = Senders(eng.built) /\ eng'.active = eng.built
      BY <2>4, EngineMoves DEF Install
    <3>4. Gen(w) # eng.built /\ ~(Gen(w) > eng.built)
      BY <1>0, <2>2, <3>2
    <3>5. w \notin Range(Senders(eng.built))
      BY <2>2, <3>4, SendersAre
    <3> QED
      BY <2>1, <3>3, <3>4, <3>5 DEF SenderAlive
  <2> QED
    BY <2>3, <2>4
<1>4. ASSUME NEW v \in Workers,
             \/ ParserStep(v) \/ OutStep(v) \/ TaskReturns(v)
             \/ \E st \in {"failed", "panicked"} : Fault(v, st)
      PROVE  UNCHANGED <<pk, router, eng>>
  BY Zenon, <1>4 DEF ParserStep, ParserRecv, ParserForward, ParserLoopEnds, OutStep, OutRecv, OutStop,
     OutDrained, TaskReturns, Fault
<1> QED
  BY <1>1, <1>2, <1>3, <1>4 DEF TaskStep, ParserSet, OutSet

\* A parser leaves its loop only with an empty channel and no sender, or on Stop.
LEMMA TaskTail ==
  ASSUME TypeInv, GenInv, TailInv, TaskStep
  PROVE  TailInv'
<1> SUFFICES ASSUME NEW v \in ParserSet, wk'[v].st \in {"tail", "done"}, ~wk'[v].stop
             PROVE  wk'[v].ch = <<>> /\ ~SenderAlive(v)'
  BY DEF TailInv
<1>0. WorkersType /\ v \in Workers /\ v \notin OutSet
  BY DEF TypeInv, ParserSet, OutSet
<1>1. ASSUME wk[v].st \in {"tail", "done"}, ~wk[v].stop, wk'[v].ch = wk[v].ch \/ wk'[v].ch = <<>>
      PROVE  wk'[v].ch = <<>> /\ ~SenderAlive(v)'
  BY <1>1, SenderGone DEF TailInv
<1>2. CASE wk'[v] = wk[v]
  BY <1>1, <1>2
<1>3. ASSUME NEW p \in Pickers, PickerStep(p) PROVE wk'[v] = wk[v]
  <2>1. CASE wk' = wk
    BY <2>1
  <2>2. ASSUME NEW w \in ParserSet, w \in Range(pk[p].snap), NEW c,
               Becomes(w, wk[w].st, c, wk[w].hand, wk[w].rep)
        PROVE  wk'[v] = wk[v]
    <3>1. CASE v = w
      <4>1. wk'[v].st = wk[v].st /\ wk'[v].stop = wk[v].stop
        BY <1>0, <2>2, <3>1, BecomesIs
      <4>2. SenderAlive(v)
        BY <2>2, <3>1 DEF SenderAlive
      <4> QED
        BY <4>1, <4>2 DEF TailInv
    <3>2. CASE v # w
      <4>1. w \in Workers
        BY DEF ParserSet
      <4> QED
        BY <1>0, <2>2, <3>2, <4>1, BecomesIs
    <3> QED
      BY <3>1, <3>2
  <2> QED
    BY Zenon, <1>3, <2>1, <2>2, PickerMoves
<1>4. ASSUME NEW w \in Workers, NEW st, NEW ch, NEW hand, NEW rep, Becomes(w, st, ch, hand, rep),
             st \notin {"tail", "done"} \/ w \in OutSet
      PROVE  wk'[v] = wk[v]
  BY <1>0, <1>4, BecomesIs
<1>5. ASSUME NEW w \in ParserSet, ParserRecv(w) PROVE wk'[v] = wk[v]
  <2>1. w \in Workers /\ Becomes(w, "run", Tail(wk[w].ch), Head(wk[w].ch), wk[w].rep)
    BY <1>0, <1>5, Moves DEF ParserSet
  <2> QED
    BY <1>4, <2>1
<1>6. ASSUME NEW w \in ParserSet, ParserForward(w) PROVE wk'[v] = wk[v]
  <2>1. PICK out : Forwards(w, out)
    BY <1>6, ForwardMoves
  <2>2. w \in Workers /\ wk[w].hand \in Events /\ wk[w].st = "run"
    BY <1>6, ForwardMoves DEF ParserSet
  <2>3. CASE Becomes(w, "run", wk[w].ch, NoEvent, wk[w].rep)
    BY <1>4, <2>2, <2>3
  <2>4. CASE Becomes(w, "failed", <<>>, NoEvent, "Aborted")
    BY <1>4, <2>2, <2>4
  <2>5. CASE out \in OutSet /\ Handed(w, out, wk[w].hand)
    BY <1>0, <2>2, <2>5, HandedIs
  <2> QED
    BY Zenon, <2>1, <2>3, <2>4, <2>5 DEF Forwards
<1>7. ASSUME NEW w \in ParserSet, ParserLoopEnds(w) PROVE wk'[v].ch = <<>> /\ ~SenderAlive(v)'
  <2>1. w \in Workers /\ Becomes(w, "tail", wk[w].ch, wk[w].hand, "Drained")
    BY <1>0, <1>7, Moves DEF ParserSet
  <2>2. CASE v # w
    BY <1>0, <1>2, <2>1, <2>2, BecomesIs
  <2>3. CASE v = w
    <3>1. wk'[v].ch = wk[v].ch /\ wk'[v].stop = wk[v].stop
      BY <1>0, <2>1, <2>3, BecomesIs
    <3>2. wk[v].ch = <<>> /\ ~SenderAlive(v)
      BY <1>7, <2>3, <3>1 DEF ParserLoopEnds
    <3> QED
      BY <3>1, <3>2, SenderGone
  <2> QED
    BY <2>2, <2>3
<1>8. ASSUME NEW w \in OutSet, OutStep(w) PROVE wk'[v] = wk[v]
  <2>1. w \in Workers
    BY DEF OutSet
  <2>2. \E st, ch, hand, rep : Becomes(w, st, ch, hand, rep)
    BY <1>0, <1>8, <2>1, Moves DEF OutStep
  <2> QED
    BY <1>4, <2>1, <2>2
<1>9. ASSUME NEW w \in Workers, TaskReturns(w) PROVE wk'[v].ch = <<>> /\ ~SenderAlive(v)'
  <2>1. Becomes(w, "done", <<>>, wk[w].hand, wk[w].rep)
    BY <1>0, <1>9, Moves
  <2>2. CASE v # w
    BY <1>0, <1>2, <2>1, <2>2, BecomesIs
  <2>3. CASE v = w
    <3>1. wk'[v].ch = <<>> /\ wk'[v].stop = wk[v].stop
      BY <1>0, <2>1, <2>3, BecomesIs
    <3>2. wk[v].st = "tail"
      BY <1>9, <2>3 DEF TaskReturns
    <3> QED
      BY <1>1, <3>1, <3>2
  <2> QED
    BY <2>2, <2>3
<1>10. ASSUME NEW w \in Workers, NEW st \in {"failed", "panicked"}, Fault(w, st) PROVE wk'[v] = wk[v]
  <2>1. Becomes(w, st, <<>>, NoEvent, "Aborted")
    BY <1>0, <1>10, Moves
  <2> QED
    BY <1>4, <2>1
<1> QED
  BY <1>2, <1>3, <1>5, <1>6, <1>7, <1>8, <1>9, <1>10 DEF TaskStep, ParserStep

\* The engine gives no parser a sender back.
LEMMA EngineTail ==
  ASSUME TypeInv, GenInv, TailInv, EngineStep
  PROVE  TailInv'
<1> SUFFICES ASSUME NEW v \in ParserSet, wk'[v].st \in {"tail", "done"}, ~wk'[v].stop
             PROVE  wk'[v].ch = <<>> /\ ~SenderAlive(v)'
  BY DEF TailInv
<1>1. v \in Workers
  BY DEF ParserSet
<1>2. wk[v].st = wk'[v].st /\ ~wk[v].stop /\ wk'[v].ch = wk[v].ch
  BY <1>1, EngineKeeps DEF EngineKept
<1> QED
  BY <1>2, SenderGone DEF TailInv

\* A worker's first report, and a task's step: it reports nothing, or one
\* worker makes its first report.
FirstReport(w, outcome) ==
  /\ wk[w].rep = "armed" /\ Report(w, outcome) /\ wk'[w].rep = outcome
  /\ \A v \in Workers : v # w => wk'[v].rep = wk[v].rep
SilentOrFirst ==
  \/ UNCHANGED drain /\ \A w \in Workers : wk'[w].rep = wk[w].rep
  \/ \E w \in Workers, outcome \in {"Drained", "Aborted"} : FirstReport(w, outcome)

\* No step of a task reports for a worker that has reported.
LEMMA TaskReports ==
  ASSUME TypeInv, RepInv, TaskStep
  PROVE  SilentOrFirst
<1>0. WorkersType
  BY DEF TypeInv
<1>00. ASSUME NEW w \in Workers, wk[w].st \in {"run", "draining"} PROVE wk[w].rep = "armed"
  BY <1>00 DEF RepInv, Fits
<1>1. ASSUME UNCHANGED drain, \A w \in Workers : wk'[w].rep = wk[w].rep
      PROVE  SilentOrFirst
  BY <1>1 DEF SilentOrFirst
<1>2. ASSUME UNCHANGED drain, NEW w \in Workers, NEW st, NEW ch, NEW hand,
             Becomes(w, st, ch, hand, wk[w].rep)
      PROVE  SilentOrFirst
  <2>1. \A v \in Workers : wk'[v].rep = wk[v].rep
    BY <1>0, <1>2, BecomesIs
  <2> QED
    BY <1>1, <1>2, <2>1
<1>3. ASSUME NEW w \in Workers, NEW st, NEW ch, NEW hand, NEW rep \in {"Drained", "Aborted"},
             wk[w].st \in {"run", "draining"}, Becomes(w, st, ch, hand, rep), Report(w, rep)
      PROVE  SilentOrFirst
  <2>1. wk[w].rep = "armed"
    BY <1>00, <1>3
  <2>2. wk'[w].rep = rep /\ \A v \in Workers : v # w => wk'[v].rep = wk[v].rep
    BY <1>0, <1>3, BecomesIs
  <2> QED
    BY <1>3, <2>1, <2>2 DEF SilentOrFirst, FirstReport
<1>4. ASSUME NEW p \in Pickers, PickerStep(p) PROVE SilentOrFirst
  <2>1. UNCHANGED drain
    BY ZenonT(40), <1>4, PickerMoves
  <2>2. CASE wk' = wk
    BY <1>1, <2>1, <2>2
  <2>3. CASE \E w \in ParserSet : \E c : Becomes(w, wk[w].st, c, wk[w].hand, wk[w].rep)
    BY <1>2, <2>1, <2>3 DEF ParserSet
  <2> QED
    BY ZenonT(40), <1>4, <2>2, <2>3, PickerMoves
<1>5. ASSUME NEW w \in ParserSet, ParserStep(w) PROVE SilentOrFirst
  <2>0. w \in Workers
    BY DEF ParserSet
  <2>1. CASE ParserRecv(w)
    <3>1. UNCHANGED drain /\ Becomes(w, "run", Tail(wk[w].ch), Head(wk[w].ch), wk[w].rep)
      BY Zenon, <1>0, <2>0, <2>1, Moves DEF ParserRecv
    <3> QED
      BY <1>2, <2>0, <3>1
  <2>2. CASE ParserLoopEnds(w)
    <3>1. /\ Report(w, "Drained") /\ wk[w].st = "run"
          /\ Becomes(w, "tail", wk[w].ch, wk[w].hand, "Drained")
      BY Zenon, <1>0, <2>0, <2>2, Moves DEF ParserLoopEnds
    <3> QED
      BY <1>3, <2>0, <3>1
  <2>3. CASE ParserForward(w)
    <3>1. PICK out : Forwards(w, out)
      BY <2>3, ForwardMoves
    <3>2. wk[w].hand \in Events /\ wk[w].st = "run"
      BY <2>3, ForwardMoves
    <3>3. CASE UNCHANGED drain /\ Becomes(w, "run", wk[w].ch, NoEvent, wk[w].rep)
      BY <1>2, <2>0, <3>3
    <3>4. CASE Report(w, "Aborted") /\ Becomes(w, "failed", <<>>, NoEvent, "Aborted")
      BY <1>3, <2>0, <3>2, <3>4
    <3>5. CASE UNCHANGED drain /\ out \in OutSet /\ Handed(w, out, wk[w].hand)
      <4>1. \A v \in Workers : wk'[v].rep = wk[v].rep
        BY <1>0, <3>2, <3>5, HandedIs
      <4> QED
        BY <1>1, <3>5, <4>1
    <3> QED
      BY <3>1, <3>3, <3>4, <3>5 DEF Forwards
  <2> QED
    BY <1>5, <2>1, <2>2, <2>3 DEF ParserStep
<1>6. ASSUME NEW w \in OutSet, OutStep(w) PROVE SilentOrFirst
  <2>0. w \in Workers
    BY DEF OutSet
  <2>1. CASE OutRecv(w)
    <3>1. UNCHANGED drain /\ Becomes(w, wk[w].st, Tail(wk[w].ch), wk[w].hand, wk[w].rep)
      BY Zenon, <1>0, <2>0, <2>1, Moves DEF OutRecv
    <3> QED
      BY <1>2, <2>0, <3>1
  <2>2. CASE OutStop(w)
    <3>1. UNCHANGED drain /\ Becomes(w, "draining", wk[w].ch, wk[w].hand, wk[w].rep)
      BY Zenon, <1>0, <2>0, <2>2, Moves DEF OutStop
    <3> QED
      BY <1>2, <2>0, <3>1
  <2>3. CASE OutDrained(w)
    <3>1. /\ Report(w, "Drained") /\ wk[w].st = "draining"
          /\ Becomes(w, "tail", wk[w].ch, wk[w].hand, "Drained")
      BY Zenon, <1>0, <2>0, <2>3, Moves DEF OutDrained
    <3> QED
      BY <1>3, <2>0, <3>1
  <2> QED
    BY <1>6, <2>1, <2>2, <2>3 DEF OutStep
<1>7. ASSUME NEW w \in Workers, TaskReturns(w) PROVE SilentOrFirst
  <2>1. UNCHANGED drain /\ Becomes(w, "done", <<>>, wk[w].hand, wk[w].rep)
    BY Zenon, <1>0, <1>7, Moves DEF TaskReturns
  <2> QED
    BY <1>2, <2>1
<1>8. ASSUME NEW w \in Workers, NEW st \in {"failed", "panicked"}, Fault(w, st)
      PROVE  SilentOrFirst
  <2>1. /\ Report(w, "Aborted") /\ wk[w].st \in {"run", "draining"}
        /\ Becomes(w, st, <<>>, NoEvent, "Aborted")
    BY Zenon, <1>0, <1>8, Moves DEF Fault
  <2> QED
    BY <1>3, <2>1
<1> QED
  BY <1>4, <1>5, <1>6, <1>7, <1>8 DEF TaskStep

-----------------------------------------------------------------------------
(* The generations that are over *)

\* The router hands out senders of the active generation; older ones are over;
\* a worker of the active one that is not over is registered, unless the old
\* groups were given up; the forced stop misses none, and none is left running
\* when the next generation is installed.
SendersActive == \A w \in Range(router.senders) : Gen(w) = eng.active
OldOver == \A w \in Workers : Gen(w) < eng.active => Over(w)
Registered ==
  ~eng.groupsLost /\ eng.pc # "install" =>
    \A w \in WorkersOf(eng.active) : Over(w) \/ <<eng.active, Role(w)>> \in eng.groups
ToStop ==
  eng.pc \in {"force", "join"} =>
    \A w \in WorkersOf(eng.active) : Over(w) \/ Role(w) \in Range(eng.todo)
JoinedOver ==
  eng.pc = "join" => \A w \in Group(eng.active, Head(eng.todo)) : w[3] > eng.join => Over(w)
AllOver == eng.pc = "install" => \A w \in WorkersOf(eng.active) : Over(w)
OverInv == SendersActive /\ OldOver /\ Registered /\ ToStop /\ JoinedOver /\ AllOver

\* What the counts of the reports are good for: when none is pending, every
\* worker of the active generation has drained.
QuiescedHasDrained == FullyQuiesced => \A w \in WorkersOf(eng.active) : wk[w].rep = "Drained"

\* Between a reload's end and the next one's disconnect the router is connected;
\* until the next isolate the last word to every living picker is Execute; and
\* pickers that cannot be reached any more have all ended.
Connected ==
  eng.pc \in {"idle", "isolate", "disconnect", "resume"} /\ ~eng.groupsLost =>
    ~router.reloading /\ router.senders = Senders(eng.active)
Resumed ==
  eng.pc \in {"idle", "isolate"} /\ ~eng.groupsLost =>
    \A p \in Pickers : Exited(p) \/ LastWord(p) = "Execute"
PickersReached ==
  ~eng.groupsLost /\ PickerGroup \notin eng.groups => \A p \in Pickers : Exited(p)
PickInv == Connected /\ Resumed /\ PickersReached

\* Initially the first generation is registered and there is no older one.
LEMMA InitOver == Init => OverInv
<1> SUFFICES ASSUME Init PROVE OverInv
  OBVIOUS
<1>0. 1 \in Gens /\ \A g \in Gens : g \in Nat /\ g >= 1
  BY HotReloadAssumption DEF Gens
<1>1. /\ eng.pc = "idle" /\ eng.active = 1 /\ router.senders = Senders(1)
      /\ eng.groups = GroupsOf(1) \cup {PickerGroup}
  BY DEF Init
<1>2. SendersActive
  BY <1>0, <1>1, SendersAre DEF SendersActive
<1>3. OldOver
  <2>1. \A w \in Workers : ~(Gen(w) < 1)
    BY <1>0, WorkerIs
  <2> QED
    BY <1>1, <2>1 DEF OldOver
<1>4. Registered
  <2>1. ASSUME NEW w \in WorkersOf(1) PROVE <<1, Role(w)>> \in GroupsOf(1)
    <3>1. Role(w) \in Range(Roles)
      BY <1>0, WorkersOfIs, WorkerIs, RolesAre
    <3> QED
      BY <3>1 DEF GroupsOf
  <2> QED
    BY <1>1, <2>1 DEF Registered
<1> QED
  BY <1>1, <1>2, <1>3, <1>4 DEF OverInv, ToStop, JoinedOver, AllOver

\* Tasks only end, and leave the engine alone.
LEMMA TaskOver ==
  ASSUME TypeInv, OverInv, TaskStep
  PROVE  OverInv'
<1>1. UNCHANGED eng /\ router'.senders = router.senders
  BY TaskKeeps DEF RestKept
<1>2. \A w \in Workers : Over(w) => Over(w)'
  BY TaskKeeps DEF WorkersKept
<1>3. /\ \A w \in WorkersOf(eng.active) : w \in Workers
      /\ eng.pc = "join" => \A w \in Group(eng.active, Head(eng.todo)) : w \in Workers
  <2>1. eng.pc = "join" => Head(eng.todo) \in RoleSet
    BY HeadTail DEF TypeInv, EngineType, EngineRec
  <2> QED
    BY <2>1, GensAre, WorkersOfIs, GroupIs
<1>4. SendersActive' /\ OldOver'
  BY <1>1, <1>2 DEF OverInv, SendersActive, OldOver
<1>5. Registered' /\ ToStop' /\ AllOver'
  BY <1>1, <1>2, <1>3 DEF OverInv, Registered, ToStop, AllOver
<1>6. JoinedOver'
  BY <1>1, <1>2, <1>3 DEF OverInv, JoinedOver
<1> QED
  BY <1>4, <1>5, <1>6 DEF OverInv

\* A worker that is over stays over, also when the engine steps.
LEMMA OverStays ==
  ASSUME TypeInv, GenInv, EngineStep, NEW w \in Workers, Over(w)
  PROVE  Over(w)'
<1>1. wk'[w].st = wk[w].st \/ Gen(w) = eng.built + 1
  BY EngineKeeps DEF EngineKept
<1>2. Gen(w) # eng.built + 1
  <2>1. ~(Gen(w) > eng.built)
    BY DEF GenInv, Over
  <2> QED
    BY <2>1, GensAre
<1> QED
  BY <1>1, <1>2 DEF Over

\* Pruning leaves a group with a worker that is not over.
LEMMA LeftOfHas ==
  ASSUME TypeInv, NEW w \in Workers, ~Over(w), NEW groups, <<Gen(w), Role(w)>> \in groups
  PROVE  <<Gen(w), Role(w)>> \in LeftOf(groups)
<1> DEFINE grp == <<Gen(w), Role(w)>>
<1>1. grp[1] = Gen(w) /\ grp[2] = Role(w)
  OBVIOUS
<1>2. Gen(w) \in Gens /\ Role(w) \in RoleSet /\ w \in Group(Gen(w), Role(w))
  BY WorkerIs, GroupIs
<1>3. grp # PickerGroup
  <2>1. Gen(w) # 0
    BY <1>2 DEF Gens
  <2> QED
    BY <1>1, <2>1 DEF PickerGroup
<1>4. ~Finished(w)
  BY DEF Finished, Over
<1> HIDE DEF grp
<1>5. ~GroupFinished(grp)
  BY <1>1, <1>2, <1>3, <1>4 DEF GroupFinished
<1> QED
  BY <1>5 DEF LeftOf, grp

\* The workers of the role being joined.
LEMMA JoinFacts ==
  ASSUME TypeInv, eng.pc = "join"
  PROVE  /\ Head(eng.todo) \in RoleSet /\ eng.todo # <<>> /\ eng.todo \in Seq(RoleSet)
         /\ Range(eng.todo) = {Head(eng.todo)} \cup Range(Tail(eng.todo))
         /\ \A w \in Group(eng.active, Head(eng.todo)) :
              w \in WorkersOf(eng.active) /\ w \in Workers /\ Role(w) = Head(eng.todo)
              /\ w[3] \in Nat /\ w[3] > 0 /\ w = <<eng.active, Head(eng.todo), w[3]>>
         /\ \A w \in WorkersOf(eng.active) :
              w \in Workers /\ (Role(w) = Head(eng.todo) => w \in Group(eng.active, Head(eng.todo)))
<1>1. eng.todo \in Seq(RoleSet) /\ eng.todo # <<>>
  BY DEF TypeInv, EngineType, EngineRec
<1>2. Head(eng.todo) \in RoleSet /\ Range(eng.todo) = {Head(eng.todo)} \cup Range(Tail(eng.todo))
  BY <1>1, HeadTail
<1>3. eng.active \in Gens
  BY GensAre
<1>4. ASSUME NEW w \in Group(eng.active, Head(eng.todo))
      PROVE  /\ w \in WorkersOf(eng.active) /\ w \in Workers /\ Role(w) = Head(eng.todo)
             /\ w[3] \in Nat /\ w[3] > 0 /\ w = <<eng.active, Head(eng.todo), w[3]>>
  <2>1. w \in Workers /\ Gen(w) = eng.active /\ Role(w) = Head(eng.todo)
    BY <1>2, <1>3, GroupIs
  <2>2. w[3] \in 1 .. NumOf(Role(w)) /\ w = <<Gen(w), Role(w), w[3]>>
    BY <2>1, WorkerIs
  <2>3. w[3] \in Nat /\ w[3] > 0
    BY <2>2
  <2> QED
    BY <1>3, <2>1, <2>2, <2>3, WorkersOfIs
<1>5. ASSUME NEW w \in WorkersOf(eng.active)
      PROVE  w \in Workers /\ (Role(w) = Head(eng.todo) => w \in Group(eng.active, Head(eng.todo)))
  BY <1>2, <1>3, WorkersOfIs, GroupIs
<1> QED
  BY <1>1, <1>2, <1>4, <1>5

\* When the last handle is popped, the whole role is over.
LEMMA RoleOver ==
  ASSUME TypeInv, OverInv, RoleStopped, NEW w \in WorkersOf(eng.active), Role(w) = Head(eng.todo)
  PROVE  Over(w)
<1>1. eng.pc = "join" /\ eng.join = 0
  BY DEF RoleStopped
<1>2. w \in Group(eng.active, Head(eng.todo)) /\ w[3] > eng.join
  BY <1>1, JoinFacts
<1> QED
  BY <1>1, <1>2 DEF OverInv, JoinedOver

\* The router and the generations behind: Install moves both, when all are over.
LEMMA EngineOver1 ==
  ASSUME TypeInv, GenInv, OverInv, EngineStep
  PROVE  SendersActive' /\ OldOver'
<1>0. /\ eng.active \in Nat /\ eng.built \in Gens /\ eng.active \in Gens
      /\ \A w \in Workers : Gen(w) \in Nat
  BY GensAre
<1>1. CASE Install
  <2>1. /\ eng.pc = "install" /\ router'.senders = Senders(eng.built) /\ eng'.active = eng.built
    BY <1>1, EngineMoves DEF Install
  <2>2. eng.built = eng.active + 1
    BY <2>1 DEF GenInv
  <2>3. SendersActive'
    BY <1>0, <2>1, SendersAre DEF SendersActive
  <2>4. ASSUME NEW w \in Workers, Gen(w) < eng'.active PROVE Over(w)'
    <3>1. Gen(w) < eng.active \/ Gen(w) = eng.active
      BY <1>0, <2>1, <2>2, <2>4
    <3>2. Over(w)
      BY <1>0, <2>1, <3>1, WorkersOfIs DEF OverInv, OldOver, AllOver
    <3> QED
      BY <3>2, OverStays
  <2> QED
    BY <2>3, <2>4 DEF OldOver
<1>2. CASE ~Install
  <2>1. eng'.active = eng.active /\ (router' = router \/ router'.senders = <<>>)
    BY <1>2, SendersMove
  <2>2. Range(<<>>) = {}
    BY DEF Range
  <2>3. SendersActive'
    BY <2>1, <2>2 DEF OverInv, SendersActive
  <2>4. OldOver'
    BY <2>1, OverStays DEF OverInv, OldOver
  <2> QED
    BY <2>3, <2>4
<1> QED
  BY <1>1, <1>2

\* Only finished groups leave the registry, and Install registers the new ones.
LEMMA EngineOver2 ==
  ASSUME TypeInv, GenInv, OverInv, EngineStep
  PROVE  Registered'
<1> SUFFICES ASSUME ~eng'.groupsLost, eng'.pc # "install", NEW w \in WorkersOf(eng'.active), ~Over(w)'
             PROVE  <<eng'.active, Role(w)>> \in eng'.groups
  BY DEF Registered
<1>0. eng.active \in Gens /\ eng.built \in Gens /\ \A g \in Gens : g \in Nat
  BY GensAre
<1>1. CASE Install
  <2>1. eng'.active = eng.built /\ eng'.groups = eng.groups \cup GroupsOf(eng.built)
    BY <1>1, EngineMoves
  <2>2. Role(w) \in Range(Roles)
    BY <1>0, <2>1, WorkersOfIs, WorkerIs, RolesAre
  <2> QED
    BY <2>1, <2>2 DEF GroupsOf
<1>2. CASE ~Install
  <2>1. eng'.active = eng.active
    BY <1>2, SendersMove
  <2>2. w \in WorkersOf(eng.active) /\ w \in Workers /\ Gen(w) = eng.active /\ ~Over(w)
    BY <1>0, <2>1, OverStays, WorkersOfIs
  <2>3. ASSUME eng.pc # "install", ~eng.groupsLost PROVE <<eng.active, Role(w)>> \in eng.groups
    BY <2>2, <2>3 DEF OverInv, Registered
  <2>4. ~eng.groupsLost
    BY <1>0, OutcomeStays
  <2>5. eng.pc # "install"
    BY <1>2, <2>4 DEF EngineStep, ReloadStep, Prebuild, IsolatePicker, DisconnectRouter,
       DrainObserve, DrainTimeout, DrainQuiesced, StopRole, JoinNext, JoinAwaited, RoleStopped,
       ForceStopped, UnusedShutDown, EngineExits, ResumePicker
  <2>6. <<Gen(w), Role(w)>> \in eng.groups
    BY <2>2, <2>3, <2>4, <2>5
  <2>7. CASE eng'.groups = eng.groups
    BY <2>1, <2>2, <2>6, <2>7
  <2>8. CASE eng'.groups = LeftOf(eng.groups)
    BY <2>1, <2>2, <2>6, <2>8, LeftOfHas
  <2>9. CASE RoleStopped
    <3>1. Role(w) # Head(eng.todo)
      BY <2>2, <2>9, RoleOver
    <3>2. eng'.groups = eng.groups \ {<<eng.active, Head(eng.todo)>>}
      BY <2>9, EngineMoves
    <3> QED
      BY <2>1, <2>2, <2>6, <3>1, <3>2
  <2>10. CASE DrainQuiesced \/ ForceStopped
    BY <2>10, EngineMoves
  <2>11. CASE UnusedShutDown \/ EngineExits
    <3>1. eng.pc = "shutdown" \/ eng.groupsLost
      BY <2>11 DEF UnusedShutDown, EngineExits
    <3> QED
      BY <2>4, <3>1 DEF GenInv
  <2>12. CASE JoinAwaited
    BY ZenonT(40), <2>7, <2>12, EngineMoves
  <2>13. CASE Prebuild \/ DisconnectRouter \/ DrainTimeout \/ DrainObserve \/ StopRole \/ JoinNext
    BY <2>7, <2>13, EngineMoves
  <2>14. CASE IsolatePicker \/ ResumePicker
    BY <2>8, <2>14, EngineMoves
  <2> QED
    BY <1>2, <2>9, <2>10, <2>11, <2>12, <2>13, <2>14 DEF EngineStep, ReloadStep
<1> QED
  BY <1>1, <1>2

\* A role leaves the list of the forced stop when its workers are over.
LEMMA EngineOver3 ==
  ASSUME TypeInv, GenInv, OverInv, EngineStep
  PROVE  ToStop'
<1> SUFFICES ASSUME eng'.pc \in {"force", "join"}, NEW w \in WorkersOf(eng'.active), ~Over(w)'
             PROVE  Role(w) \in Range(eng'.todo)
  BY DEF ToStop
<1>0. eng.active \in Gens /\ eng.todo \in Seq(RoleSet)
  BY GensAre DEF TypeInv, EngineType, EngineRec
<1>1. ~Install
  BY EngineMoves
<1>2. eng'.active = eng.active
  BY <1>1, SendersMove
<1>3. w \in WorkersOf(eng.active) /\ w \in Workers /\ Gen(w) = eng.active /\ ~Over(w)
  BY <1>0, <1>2, OverStays, WorkersOfIs
<1>4. eng.pc \in {"force", "join"} => Role(w) \in Range(eng.todo)
  BY <1>3 DEF OverInv, ToStop
<1>5. CASE DrainTimeout \/ DrainObserve
  <2>1. eng.pc = "drain"
    BY <1>5 DEF DrainTimeout, DrainObserve
  <2>2. eng'.todo = Roles
    BY <1>5, <2>1, EngineMoves
  <2> QED
    BY <1>3, <2>2, WorkerIs, RolesAre
<1>6. CASE StopRole
  <2>1. eng.pc = "force" /\ eng.todo # <<>>
    BY <1>6 DEF StopRole
  <2>2. CASE eng'.todo = eng.todo
    BY <1>4, <2>1, <2>2
  <2>3. CASE <<eng.active, Head(eng.todo)>> \notin eng.groups /\ eng'.todo = Tail(eng.todo)
    <3>1. ~eng.groupsLost
      BY <2>1 DEF GenInv
    <3>2. <<eng.active, Role(w)>> \in eng.groups
      BY <1>3, <2>1, <3>1 DEF OverInv, Registered
    <3>3. Role(w) # Head(eng.todo)
      BY <2>3, <3>2
    <3>4. Range(eng.todo) = {Head(eng.todo)} \cup Range(Tail(eng.todo))
      BY <1>0, <2>1, HeadTail
    <3> QED
      BY <1>4, <2>1, <2>3, <3>3, <3>4
  <2> QED
    BY Zenon, <1>6, <2>2, <2>3, EngineMoves
<1>7. CASE JoinNext \/ JoinAwaited
  <2>1. eng.pc = "join"
    BY <1>7 DEF JoinNext, JoinAwaited
  <2>2. eng'.todo = eng.todo
    BY ZenonT(40), <1>7, EngineMoves
  <2> QED
    BY <1>4, <2>1, <2>2
<1>8. CASE RoleStopped
  <2>1. eng.pc = "join" /\ eng'.todo = Tail(eng.todo)
    BY <1>8, EngineMoves DEF RoleStopped
  <2>2. Role(w) # Head(eng.todo)
    BY <1>3, <1>8, RoleOver
  <2> QED
    BY <1>4, <2>1, <2>2, JoinFacts
<1>9. CASE Prebuild \/ IsolatePicker \/ DisconnectRouter \/ DrainQuiesced
  BY <1>9, EngineMoves
<1>10. CASE ForceStopped \/ UnusedShutDown \/ EngineExits \/ ResumePicker
  BY <1>10, EngineMoves
<1> QED
  BY <1>1, <1>5, <1>6, <1>7, <1>8, <1>9, <1>10 DEF EngineStep, ReloadStep

\* The join goes down the handles of a group, past workers that are over.
LEMMA EngineOver4 ==
  ASSUME TypeInv, GenInv, OverInv, EngineStep
  PROVE  JoinedOver'
<1> SUFFICES ASSUME eng'.pc = "join", NEW w \in Group(eng'.active, Head(eng'.todo)), w[3] > eng'.join
             PROVE  Over(w)'
  BY DEF JoinedOver
<1>0. eng.active \in Gens /\ eng.todo \in Seq(RoleSet) /\ eng.join \in Nat
  BY GensAre DEF TypeInv, EngineType, EngineRec
<1>1. CASE StopRole
  <2>1. /\ eng'.active = eng.active /\ eng'.todo = eng.todo /\ eng'.join = NumOf(Head(eng.todo))
        /\ eng.todo # <<>>
    BY <1>1, EngineMoves DEF SameSet, StopRole
  <2>2. Head(eng.todo) \in RoleSet
    BY <1>0, <2>1, HeadTail
  <2>3. w \in Workers /\ Role(w) = Head(eng.todo)
    BY <1>0, <2>1, <2>2, GroupIs
  <2>4. w[3] \in 1 .. NumOf(Head(eng.todo)) /\ NumOf(Head(eng.todo)) \in Nat
    BY <2>2, <2>3, WorkerIs, RolesAre
  <2>5. ~(w[3] > NumOf(Head(eng.todo)))
    BY <2>4
  <2> QED
    BY <2>1, <2>5
<1>2. CASE JoinNext \/ JoinAwaited
  <2>1. /\ eng.pc = "join" /\ eng'.active = eng.active /\ eng'.todo = eng.todo
        /\ eng'.join = eng.join \/ (Finished(Joined) /\ eng'.join = eng.join - 1)
    BY <1>2, EngineMoves DEF SameSet, JoinNext, JoinAwaited
  <2>2. /\ w \in Group(eng.active, Head(eng.todo)) /\ w \in Workers /\ w[3] \in Nat
        /\ w = <<eng.active, Head(eng.todo), w[3]>>
    BY <2>1, JoinFacts
  <2>3. CASE w[3] > eng.join
    <3>1. Over(w)
      BY <2>1, <2>2, <2>3 DEF OverInv, JoinedOver
    <3> QED
      BY <2>2, <3>1, OverStays
  <2>4. CASE ~(w[3] > eng.join)
    <3>1. w[3] = eng.join /\ Finished(Joined)
      BY <1>0, <2>1, <2>2, <2>4
    <3>2. w = Joined
      BY <2>2, <3>1 DEF Joined
    <3>3. Over(w)
      BY <3>1, <3>2 DEF Finished, Over
    <3> QED
      BY <2>2, <3>3, OverStays
  <2> QED
    BY <2>3, <2>4
<1>3. CASE Prebuild \/ IsolatePicker \/ DisconnectRouter \/ DrainTimeout \/ DrainQuiesced
  BY ZenonT(40), <1>3, EngineMoves
<1>4. CASE DrainObserve
  <2>1. eng.pc = "drain"
    BY <1>4 DEF DrainObserve
  <2> QED
    BY Zenon, <1>4, <2>1, EngineMoves
<1>5. CASE RoleStopped \/ ForceStopped \/ UnusedShutDown \/ EngineExits \/ Install \/ ResumePicker
  BY <1>5, EngineMoves
<1> QED
  BY <1>1, <1>2, <1>3, <1>4, <1>5 DEF EngineStep, ReloadStep

\* The next generation is installed after a full drain or a full forced stop.
LEMMA EngineOver5 ==
  ASSUME TypeInv, GenInv, RepInv, QuiescedHasDrained, OverInv, EngineStep
  PROVE  AllOver'
<1> SUFFICES ASSUME eng'.pc = "install", NEW w \in WorkersOf(eng'.active) PROVE Over(w)'
  BY DEF AllOver
<1>0. eng.active \in Gens
  BY GensAre
<1>1. CASE DrainQuiesced
  <2>1. FullyQuiesced /\ eng'.active = eng.active
    BY <1>1, EngineMoves DEF DrainQuiesced, SameSet
  <2>2. w \in WorkersOf(eng.active) /\ w \in Workers
    BY <1>0, <2>1, WorkersOfIs
  <2>3. wk[w].rep = "Drained"
    BY <2>1, <2>2 DEF QuiescedHasDrained
  <2>4. wk[w] \in WorkerRec
    BY <2>2 DEF TypeInv, WorkersType
  <2>5. Over(w)
    BY <2>2, <2>3, <2>4 DEF RepInv, Fits, Over, WorkerRec
  <2> QED
    BY <2>2, <2>5, OverStays
<1>2. CASE ForceStopped
  <2>1. eng.pc = "force" /\ eng.todo = <<>> /\ eng'.active = eng.active
    BY <1>2, EngineMoves DEF ForceStopped, SameSet
  <2>2. Range(eng.todo) = {}
    BY <2>1 DEF Range
  <2>3. w \in WorkersOf(eng.active) /\ w \in Workers
    BY <1>0, <2>1, WorkersOfIs
  <2>4. Over(w)
    BY <2>1, <2>2, <2>3 DEF OverInv, ToStop
  <2> QED
    BY <2>3, <2>4, OverStays
<1>3. CASE Prebuild \/ IsolatePicker \/ DisconnectRouter \/ DrainTimeout \/ StopRole
  BY <1>3, EngineMoves
<1>4. CASE DrainObserve
  <2>1. eng.pc = "drain"
    BY <1>4 DEF DrainObserve
  <2> QED
    BY Zenon, <1>4, <2>1, EngineMoves
<1>5. CASE \/ JoinNext \/ JoinAwaited \/ RoleStopped \/ UnusedShutDown \/ EngineExits \/ Install
           \/ ResumePicker
  BY <1>5, EngineMoves
<1> QED
  BY <1>1, <1>2, <1>3, <1>4, <1>5 DEF EngineStep, ReloadStep

-----------------------------------------------------------------------------
(* The pickers and the router *)

\* Initially the router is connected and no picker was told to stop.
LEMMA InitPick == Init => PickInv
<1> SUFFICES ASSUME Init PROVE PickInv
  OBVIOUS
<1>1. Connected
  BY DEF Init, Connected
<1>2. Resumed
  <2>1. \A p \in Pickers : pk[p].cmd = "Execute" /\ pk[p].q = <<>>
    BY DEF Init
  <2> QED
    BY <2>1 DEF Resumed, LastWord
<1>3. PickersReached
  BY DEF Init, PickersReached
<1> QED
  BY <1>1, <1>2, <1>3 DEF PickInv

\* The empty sequence is the one of length zero.
LEMMA EmptyWord ==
  ASSUME NEW S, NEW t \in Seq(S)
  PROVE  Len(t) = 0 <=> t = <<>>
OBVIOUS

\* A picker that has ended does not come back, and takes its commands in
\* order: the last word stays the last word.
LEMMA WordStays ==
  ASSUME TypeInv, NEW p \in Pickers, PickerStep(p), NEW q \in Pickers
  PROVE  (Exited(q) => Exited(q)') /\ LastWord(q)' = LastWord(q)
<1>0. pk \in [Pickers -> PickerRec] /\ pk[p] \in PickerRec /\ pk[q] \in PickerRec
  BY DEF TypeInv, PickersType
<1>1. CASE q # p
  <2>1. pk'[q] = pk[q]
    BY Zenon, <1>0, <1>1 DEF PickerStep, PollCmd, Fetch, Snapshot, LoadReloading, TrySend
  <2> QED
    BY <2>1 DEF Exited, LastWord
<1>2. CASE q = p
  <2>1. ~Exited(q)
    BY ZenonT(40), <1>2 DEF PickerStep, PollCmd, Fetch, Snapshot, LoadReloading, TrySend, Exited
  <2>2. CASE PollCmd(p)
    <3> DEFINE s == pk[p].q
    <3>1. s \in Seq({"Execute", "Isolate"}) /\ s # <<>>
      BY <1>0, <2>2 DEF PollCmd, PickerRec
    <3>2. pk'[p].cmd = Head(s) /\ pk'[p].q = Tail(s)
      BY <1>0, <2>2 DEF PollCmd, PickerRec
    <3> HIDE DEF s
    <3>3. LastWord(p) = s[Len(s)]
      BY <3>1 DEF LastWord, s
    <3>4. /\ Tail(s) \in Seq({"Execute", "Isolate"})
          /\ Len(s) \in Nat \ {0} /\ Head(s) = s[1] /\ Len(Tail(s)) = Len(s) - 1
          /\ \A i \in 1 .. Len(s) - 1 : Tail(s)[i] = s[i + 1]
      BY <3>1, HeadTail
    <3>5. LastWord(p)' = IF Tail(s) = <<>> THEN Head(s) ELSE Tail(s)[Len(Tail(s))]
      BY <3>2 DEF LastWord
    <3>6. CASE Len(s) = 1
      <4>0. Len(Tail(s)) = 0
        BY <3>4, <3>6
      <4>1. Tail(s) = <<>>
        BY Zenon, <3>4, <4>0, EmptyWord
      <4>2. LastWord(p)' = LastWord(p)
        BY <3>3, <3>4, <3>5, <3>6, <4>1
      <4> QED
        BY <1>2, <2>1, <4>2
    <3>7. CASE Len(s) # 1
      <4>0. Len(s) \in Nat \ {0} /\ Len(Tail(s)) = Len(s) - 1
        BY <3>4
      <4>00. Len(Tail(s)) # 0 /\ Len(s) - 1 \in 1 .. Len(s) - 1 /\ (Len(s) - 1) + 1 = Len(s)
        BY <3>7, <4>0
      <4>1. Tail(s) # <<>> /\ Len(s) - 1 \in 1 .. Len(s) - 1 /\ (Len(s) - 1) + 1 = Len(s)
        BY ZenonT(40), <3>4, <4>00, EmptyWord
      <4>2. Tail(s)[Len(Tail(s))] = s[Len(s)]
        BY <3>4, <4>1
      <4>3. LastWord(p)' = LastWord(p)
        BY <3>3, <3>5, <4>1, <4>2
      <4> QED
        BY <1>2, <2>1, <4>3
    <3> QED
      BY <3>6, <3>7
  <2>3. CASE Fetch(p) \/ LoadReloading(p)
    <3>1. pk'[p].cmd = pk[p].cmd /\ pk'[p].q = pk[p].q
      BY <1>0, <2>3 DEF Fetch, LoadReloading, PickerRec
    <3> QED
      BY <1>2, <2>1, <3>1 DEF LastWord
  <2>4. CASE Snapshot(p)
    <3>1. pk'[p].cmd = pk[p].cmd /\ pk'[p].q = pk[p].q
      <4>1. CASE router.senders = <<>>
        BY <1>0, <2>4, <4>1 DEF Snapshot, PickerRec
      <4>2. CASE router.senders # <<>>
        BY <1>0, <2>4, <4>2 DEF Snapshot, PickerRec
      <4> QED
        BY <4>1, <4>2
    <3> QED
      BY <1>2, <2>1, <3>1 DEF LastWord
  <2>5. CASE TrySend(p)
    <3>1. PICK sent, full : pk' = [pk EXCEPT ![p] = AfterTrySend(p, sent, full)]
      BY Zenon, <2>5 DEF TrySend
    <3>2. pk'[p] = AfterTrySend(p, sent, full)
      BY <1>0, <3>1
    <3>3. AfterTrySend(p, sent, full).cmd = pk[p].cmd /\ AfterTrySend(p, sent, full).q = pk[p].q
      BY <1>0 DEF AfterTrySend, PickerRec
    <3> QED
      BY <1>2, <2>1, <3>2, <3>3 DEF LastWord
  <2> QED
    BY <2>2, <2>3, <2>4, <2>5 DEF PickerStep
<1> QED
  BY <1>1, <1>2

\* A picker only reads its commands: the last word to it stays.
LEMMA TaskPick ==
  ASSUME TypeInv, PickInv, TaskStep
  PROVE  PickInv'
<1>1. UNCHANGED eng /\ router'.senders = router.senders /\ router'.reloading = router.reloading
  BY TaskKeeps DEF RestKept
<1>2. \A q \in Pickers : (Exited(q) => Exited(q)') /\ LastWord(q)' = LastWord(q)
  <2>1. CASE \E p \in Pickers : PickerStep(p)
    BY <2>1, WordStays
  <2>2. CASE UNCHANGED pk
    BY <2>2 DEF Exited, LastWord
  <2>3. ASSUME NEW v \in Workers,
               \/ ParserStep(v) \/ OutStep(v) \/ TaskReturns(v)
               \/ \E st \in {"failed", "panicked"} : Fault(v, st)
        PROVE  UNCHANGED pk
    BY ZenonT(40), <2>3 DEF ParserStep, ParserRecv, ParserForward, ParserLoopEnds, OutStep, OutRecv, OutStop,
       OutDrained, TaskReturns, Fault
  <2> QED
    BY <2>1, <2>2, <2>3 DEF TaskStep, ParserSet, OutSet
<1>3. Connected'
  BY <1>1 DEF PickInv, Connected
<1>4. Resumed' /\ PickersReached'
  BY <1>1, <1>2 DEF PickInv, Resumed, PickersReached
<1> QED
  BY <1>3, <1>4 DEF PickInv

\* The pickers that pruning gives up have all ended.
LEMMA PrunedPickers ==
  ASSUME NEW groups, PickerGroup \in groups, PickerGroup \notin LeftOf(groups)
  PROVE  \A p \in Pickers : Exited(p)
BY DEF LeftOf, GroupFinished

\* The engine isolates the pickers, and tells them Execute before it is idle again.
LEMMA EnginePick ==
  ASSUME TypeInv, GenInv, PickInv, EngineStep
  PROVE  PickInv'
<1>0. \A p \in Pickers : Exited(p)' <=> Exited(p)
  BY EngineKeeps DEF EngineKept, Exited
<1>1. ~eng'.groupsLost => ~eng.groupsLost
  BY GensAre, OutcomeStays
<1>2. ASSUME ~eng'.groupsLost, PickerGroup \notin eng'.groups PROVE \A p \in Pickers : Exited(p)
  <2>1. CASE PickerGroup \notin eng.groups
    BY <1>1, <1>2, <2>1 DEF PickInv, PickersReached
  <2>2. CASE PickerGroup \in eng.groups
    <3>0. \A g, role : g \in Gens => <<g, role>> # PickerGroup
      BY DEF Gens, PickerGroup
    <3>1. CASE IsolatePicker \/ ForceStopped \/ ResumePicker
      BY <1>2, <2>2, <3>1, EngineMoves, PrunedPickers
    <3>2. CASE DrainQuiesced
      <4>1. PickerGroup \in eng.groups \ GroupsOf(eng.active)
        BY <2>2, <3>0, GensAre DEF GroupsOf
      <4> QED
        BY <1>2, <3>2, <4>1, EngineMoves, PrunedPickers
    <3>3. CASE RoleStopped
      <4>1. PickerGroup # <<eng.active, Head(eng.todo)>>
        BY <3>0, GensAre
      <4> QED
        BY <1>2, <2>2, <3>3, <4>1, EngineMoves
    <3>4. CASE UnusedShutDown \/ EngineExits
      <4>1. eng.pc = "shutdown" \/ eng.groupsLost
        BY <3>4 DEF UnusedShutDown, EngineExits
      <4> QED
        BY <1>1, <1>2, <4>1 DEF GenInv
    <3>5. CASE \/ Prebuild \/ DisconnectRouter \/ DrainTimeout \/ DrainObserve \/ StopRole
               \/ JoinNext \/ JoinAwaited \/ Install
      BY ZenonT(40), <1>2, <2>2, <3>5, EngineMoves
    <3> QED
      BY <3>1, <3>2, <3>3, <3>4, <3>5 DEF EngineStep, ReloadStep
  <2> QED
    BY <2>1, <2>2
<1>3. PickersReached'
  BY <1>0, <1>2 DEF PickersReached
<1>4. CASE ResumePicker
  <2>1. /\ eng.pc = "resume" /\ SameSet /\ pk' = Command(Pruned(eng), "Execute")
        /\ UNCHANGED router
    BY <1>4, EngineMoves DEF ResumePicker
  <2>2. Connected'
    BY <2>1 DEF PickInv, Connected, SameSet
  <2>3. ASSUME ~eng'.groupsLost, NEW p \in Pickers, ~Exited(p)' PROVE LastWord(p)' = "Execute"
    <3>1. ~Exited(p) /\ PickerGroup \in eng'.groups
      BY <1>0, <1>2, <2>3
    <3>2. PickerGroup \in Pruned(eng).groups
      <4>1. eng'.groups = LeftOf(eng.groups) /\ Pruned(eng).groups = LeftOf(eng.groups)
        BY Zenon, <1>4, EngineMoves, PrunedIs DEF LeftOf, TypeInv, EngineType
      <4> QED
        BY <3>1, <4>1
    <3> DEFINE s == Append(pk[p].q, "Execute")
    <3>3. pk'[p] = [pk[p] EXCEPT !.q = s]
      BY <2>1, <3>1, <3>2 DEF Command
    <3>4. pk[p] \in PickerRec /\ pk[p].q \in Seq({"Execute", "Isolate"})
      BY DEF TypeInv, PickersType, PickerRec
    <3>5. s # <<>> /\ s[Len(s)] = "Execute"
      BY <3>4
    <3> HIDE DEF s
    <3>6. pk'[p].q = s
      BY <3>3, <3>4 DEF PickerRec
    <3> QED
      BY <3>5, <3>6 DEF LastWord
  <2> QED
    BY <1>3, <2>2, <2>3 DEF PickInv, Resumed
<1>5. CASE Prebuild
  <2>1. /\ eng.pc = "idle" /\ ~eng.groupsLost /\ eng'.active = eng.active
        /\ UNCHANGED <<pk, router>>
    BY <1>5, EngineMoves DEF Prebuild
  <2>2. \A p \in Pickers : LastWord(p)' = LastWord(p)
    BY <2>1 DEF LastWord
  <2> QED
    BY <1>0, <1>3, <2>1, <2>2 DEF PickInv, Connected, Resumed
<1>6. CASE IsolatePicker
  <2>1. eng.pc = "isolate" /\ eng'.pc = "disconnect" /\ SameSet /\ UNCHANGED router
    BY <1>6, EngineMoves DEF IsolatePicker
  <2> QED
    BY <1>3, <2>1 DEF PickInv, Connected, Resumed, SameSet
<1>7. CASE Install
  <2>1. /\ eng'.pc = "resume" /\ eng'.active = eng.built /\ router'.senders = Senders(eng.built)
        /\ ~router'.reloading
    BY <1>7, EngineMoves DEF Install
  <2> QED
    BY <1>3, <2>1 DEF PickInv, Connected, Resumed
<1>8. CASE DisconnectRouter \/ DrainTimeout \/ DrainQuiesced \/ StopRole \/ JoinNext
  <2>1. eng'.pc \in {"drain", "force", "install", "join"}
    BY <1>8, EngineMoves
  <2> QED
    BY <1>3, <2>1 DEF PickInv, Connected, Resumed
<1>9. CASE DrainObserve
  <2>1. eng.pc = "drain"
    BY <1>9 DEF DrainObserve
  <2>2. eng'.pc \in {"drain", "force"}
    BY <1>9, <2>1, EngineMoves
  <2> QED
    BY <1>3, <2>2 DEF PickInv, Connected, Resumed
<1>10. CASE JoinAwaited \/ RoleStopped \/ ForceStopped
  <2>1. eng'.pc \in {"shutdown", "force", "install", "join"}
    BY Zenon, <1>10, EngineMoves
  <2> QED
    BY <1>3, <2>1 DEF PickInv, Connected, Resumed
<1>11. CASE UnusedShutDown \/ EngineExits
  <2>1. eng.pc = "shutdown" \/ eng.groupsLost
    BY <1>11 DEF UnusedShutDown, EngineExits
  <2>2. eng'.groupsLost
    BY <1>1, <2>1 DEF GenInv
  <2> QED
    BY <1>3, <2>2 DEF PickInv, Connected, Resumed
<1> QED
  BY <1>4, <1>5, <1>6, <1>7, <1>8, <1>9, <1>10, <1>11 DEF EngineStep, ReloadStep

=============================================================================

--------------------------- MODULE HotReloadProofs ---------------------------
(***************************************************************************)
(* Proofs about HotReload: the count of the reports, what may be lost, the *)
(* inductive invariant as a whole, and the theorems.                       *)
(***************************************************************************)
EXTENDS HotReloadStepProofs, ReloadHandshake, FiniteSetTheorems

-----------------------------------------------------------------------------
(* The reports and the counts of every generation *)

\* The workers on a bus, and those that were counted off.  A queued report is
\* what its worker sent, and no worker has two; the count of a role is the
\* number of its workers not counted off.
Queued(g) == {drain[g].bus[i].worker : i \in DOMAIN drain[g].bus}
Counted(g) == {w \in WorkersOf(g) : wk[w].rep = "Drained" /\ w \notin Queued(g)}
BusInv ==
  \A g \in Gens :
    /\ \A i \in DOMAIN drain[g].bus : drain[g].bus[i].outcome = wk[drain[g].bus[i].worker].rep
    /\ \A i, j \in DOMAIN drain[g].bus : drain[g].bus[i].worker = drain[g].bus[j].worker => i = j
CountInv ==
  \A g \in Gens : \A role \in RoleSet :
    drain[g].pending[role] = Cardinality(Group(g, role) \ Counted(g))

\* A group has as many workers as the configuration says.
LEMMA GroupSize ==
  ASSUME NEW g \in Gens, NEW role \in RoleSet
  PROVE  IsFiniteSet(Group(g, role)) /\ Cardinality(Group(g, role)) = NumOf(role)
<1> DEFINE n == NumOf(role)
           f == [i \in 1 .. n |-> <<g, role, i>>]
<1>1. n \in Nat
  BY RolesAre
<1> HIDE DEF n
<1>2. IsFiniteSet(1 .. n) /\ Cardinality(1 .. n) = n
  <2>1. /\ IsFiniteSet(1 .. n)
        /\ Cardinality(1 .. n) = IF 1 > n THEN 0 ELSE n - 1 + 1
    BY <1>1, FS_Interval
  <2> QED
    BY <1>1, <2>1
<1>3. Group(g, role) = {<<g, role, i>> : i \in 1 .. n}
  BY DEF Group, n
<1>4. f \in [1 .. n -> Group(g, role)]
  BY <1>3
<1>5. \A i, j \in 1 .. n : f[i] = f[j] => i = j
  OBVIOUS
<1>6. \A w \in Group(g, role) : \E i \in 1 .. n : f[i] = w
  BY <1>3
<1> HIDE DEF f
<1>7. f \in Bijection(1 .. n, Group(g, role))
  BY <1>4, <1>5, <1>6 DEF Bijection, Injection, Surjection, IsInjective
<1>8. ExistsBijection(1 .. n, Group(g, role))
  BY <1>7 DEF ExistsBijection
<1> QED
  BY <1>2, <1>8, FS_Bijection DEF n

\* What is left of a group is finite, and counting off one worker takes one
\* from its own group.
LEMMA CountOff ==
  ASSUME NEW g \in Gens, NEW role \in RoleSet, NEW S
  PROVE  /\ Cardinality(Group(g, role) \ S) \in Nat
         /\ Cardinality(Group(g, role) \ S) = 0 <=> Group(g, role) \ S = {}
         /\ \A w \in Workers : Gen(w) = g /\ w \notin S =>
              Cardinality(Group(g, role) \ (S \cup {w})) =
                IF Role(w) = role THEN Cardinality(Group(g, role) \ S) - 1
                                  ELSE Cardinality(Group(g, role) \ S)
<1> DEFINE T == Group(g, role) \ S
<1>1. IsFiniteSet(T)
  BY GroupSize, FS_Subset
<1>2. Cardinality(T) \in Nat /\ (Cardinality(T) = 0 <=> T = {})
  BY <1>1, FS_CardinalityType, FS_EmptySet
<1>3. ASSUME NEW w \in Workers, Gen(w) = g, w \notin S
      PROVE  Cardinality(Group(g, role) \ (S \cup {w})) =
               IF Role(w) = role THEN Cardinality(T) - 1 ELSE Cardinality(T)
  <2>1. Group(g, role) \ (S \cup {w}) = T \ {w}
    OBVIOUS
  <2>2. w \in T <=> Role(w) = role
    BY <1>3, GroupIs
  <2>3. Cardinality(T \ {w}) = IF w \in T THEN Cardinality(T) - 1 ELSE Cardinality(T)
    BY <1>1, FS_RemoveElement
  <2> QED
    BY <2>1, <2>2, <2>3
<1> QED
  BY Zenon, <1>2, <1>3

\* Initially nothing is queued and every worker is pending.
LEMMA InitCount == Init => BusInv /\ CountInv
<1> SUFFICES ASSUME Init PROVE BusInv /\ CountInv
  OBVIOUS
<1>1. \A g \in Gens : drain[g].bus = <<>> /\ drain[g].pending = [role \in RoleSet |-> NumOf(role)]
  BY RolesAre DEF Init, NewTracker
<1>2. BusInv
  <2>1. DOMAIN <<>> = {}
    OBVIOUS
  <2> QED
    BY Zenon, <1>1, <2>1 DEF BusInv
<1>3. \A w \in Workers : wk[w].rep = "armed"
  BY DEF Init
<1>4. ASSUME NEW g \in Gens, NEW role \in RoleSet
      PROVE  drain[g].pending[role] = Cardinality(Group(g, role) \ Counted(g))
  <2>1. Counted(g) = {}
    BY <1>3, WorkersOfIs DEF Counted
  <2>2. Group(g, role) \ Counted(g) = Group(g, role)
    BY <2>1
  <2> QED
    BY ZenonT(40), <1>1, <2>2, GroupSize
<1> QED
  BY <1>2, <1>4 DEF CountInv

\* The reports on a bus are of workers of its generation.
LEMMA ReportsAre ==
  ASSUME TypeInv, NEW g \in Gens
  PROVE  /\ drain[g].bus \in Seq(Reports)
         /\ \A i \in DOMAIN drain[g].bus :
              /\ drain[g].bus[i] \in Reports /\ drain[g].bus[i].worker \in Workers
              /\ drain[g].bus[i].outcome \in {"Drained", "Aborted"}
              /\ Gen(drain[g].bus[i].worker) = g
<1>1. drain[g].bus \in Seq(Reports) /\ \A i \in DOMAIN drain[g].bus : Gen(drain[g].bus[i].worker) = g
  BY DEF TypeInv, DrainType
<1>2. \A i \in DOMAIN drain[g].bus : drain[g].bus[i] \in Reports
  BY <1>1
<1>3. \A r \in Reports : r.worker \in Workers /\ r.outcome \in {"Drained", "Aborted"}
  BY DEF Reports
<1> QED
  BY <1>1, <1>2, <1>3

\* Neither a report is made nor one observed.
LEMMA QuietCount ==
  ASSUME TypeInv, BusInv, CountInv,
         \A g \in Gens : drain'[g].bus = drain[g].bus /\ drain'[g].pending = drain[g].pending,
         \A w \in Workers : wk'[w].rep = wk[w].rep
  PROVE  BusInv' /\ CountInv'
<1>1. \A g \in Gens : \A i \in DOMAIN drain[g].bus : drain[g].bus[i].worker \in Workers
  BY ReportsAre
<1>2. BusInv'
  BY <1>1 DEF BusInv
<1>3. ASSUME NEW g \in Gens PROVE Counted(g)' = Counted(g)
  <2>1. Queued(g)' = Queued(g)
    BY DEF Queued
  <2> QED
    BY <2>1, WorkersOfIs DEF Counted
<1>4. CountInv'
  BY <1>3 DEF CountInv
<1> QED
  BY <1>2, <1>4

\* A worker reports for the first time.
LEMMA ReportCount ==
  ASSUME TypeInv, BusInv, CountInv, NEW w \in Workers, NEW outcome \in {"Drained", "Aborted"},
         wk[w].rep = "armed", Report(w, outcome), wk'[w].rep = outcome,
         \A v \in Workers : v # w => wk'[v].rep = wk[v].rep
  PROVE  BusInv' /\ CountInv'
<1> DEFINE h == Gen(w)
           b == drain[h].bus
           ev == [worker |-> w, outcome |-> outcome]
<1>0. /\ h \in Gens /\ b \in Seq(Reports) /\ ev \in Reports
      /\ \A g \in Gens : \A i \in DOMAIN drain[g].bus :
           /\ drain[g].bus[i].outcome # "armed" /\ drain[g].bus[i].worker \in Workers
           /\ Gen(drain[g].bus[i].worker) = g
  BY ZenonT(40), WorkerIs, ReportsAre DEF Reports
<1>1. /\ drain'[h].bus = Append(b, ev)
      /\ \A g \in Gens : /\ drain'[g].pending = drain[g].pending
                         /\ g # h => drain'[g] = drain[g]
  BY ZenonT(40), ReportIs DEF TypeInv
<1>2. /\ DOMAIN b = 1 .. Len(b) /\ DOMAIN Append(b, ev) = 1 .. (Len(b) + 1) /\ Len(b) \in Nat
      /\ \A i \in 1 .. Len(b) : Append(b, ev)[i] = b[i]
      /\ Append(b, ev)[Len(b) + 1] = ev
  <2> HIDE DEF b, ev
  <2> QED
    BY <1>0
<1>3. \A i \in DOMAIN b : b[i].worker # w
  <2> SUFFICES ASSUME NEW i \in DOMAIN b PROVE b[i].worker # w
    OBVIOUS
  <2>1. b[i].outcome # "armed"
    BY <1>0
  <2> QED
    BY <1>0, <2>1 DEF BusInv
<1> DEFINE c == drain'[h].bus
<1>4. /\ DOMAIN c = 1 .. (Len(b) + 1) /\ c[Len(b) + 1] = ev
      /\ \A i \in 1 .. Len(b) : c[i] = b[i]
  BY <1>1, <1>2
<1>5. ev.worker = w /\ ev.outcome = outcome
  OBVIOUS
<1> HIDE DEF c, b, ev, h
<1>6. ASSUME NEW g \in Gens
      PROVE  /\ \A i \in DOMAIN drain'[g].bus :
                  drain'[g].bus[i].outcome = wk'[drain'[g].bus[i].worker].rep
             /\ \A i, j \in DOMAIN drain'[g].bus :
                  drain'[g].bus[i].worker = drain'[g].bus[j].worker => i = j
  <2>1. CASE g # h
    <3>1. \A i \in DOMAIN drain[g].bus : drain[g].bus[i].worker \in Workers \ {w}
      BY <1>0, <2>1 DEF h
    <3> QED
      BY <1>1, <2>1, <3>1 DEF BusInv
  <2>2. CASE g = h
    <3>1. ASSUME NEW i \in 1 .. (Len(b) + 1) PROVE c[i].outcome = wk'[c[i].worker].rep
      <4>1. CASE i = Len(b) + 1
        BY <1>4, <1>5, <4>1
      <4>2. CASE i # Len(b) + 1
        <5>1. i \in 1 .. Len(b)
          BY <1>2, <4>2
        <5>2. c[i] = b[i] /\ b[i].worker \in Workers /\ b[i].worker # w
          BY <1>0, <1>2, <1>3, <1>4, <5>1 DEF b
        <5>3. b[i].outcome = wk[b[i].worker].rep
          BY <1>0, <1>2, <5>1 DEF BusInv, b
        <5> QED
          BY <5>2, <5>3
      <4> QED
        BY <4>1, <4>2
    <3>2. ASSUME NEW i \in 1 .. (Len(b) + 1), NEW j \in 1 .. (Len(b) + 1), c[i].worker = c[j].worker
          PROVE  i = j
      <4>1. ASSUME NEW x \in 1 .. (Len(b) + 1), x # Len(b) + 1
            PROVE  x \in DOMAIN b /\ c[x] = b[x] /\ b[x].worker # w
        <5>1. x \in 1 .. Len(b)
          BY <1>2, <4>1
        <5> QED
          BY <1>2, <1>3, <1>4, <5>1
      <4>2. CASE i = Len(b) + 1 \/ j = Len(b) + 1
        BY <1>4, <1>5, <3>2, <4>1, <4>2
      <4>3. CASE i # Len(b) + 1 /\ j # Len(b) + 1
        BY <1>0, <3>2, <4>1, <4>3 DEF BusInv, b
      <4> QED
        BY <4>2, <4>3
    <3> QED
      BY <1>4, <2>2, <3>1, <3>2 DEF c
  <2> QED
    BY <2>1, <2>2
<1>7. ASSUME NEW g \in Gens PROVE Counted(g)' = Counted(g)
  <2>1. CASE g # h
    <3>1. Queued(g)' = Queued(g)
      BY <1>1, <2>1 DEF Queued
    <3>2. w \notin WorkersOf(g)
      BY <2>1, WorkersOfIs DEF h
    <3> QED
      BY <3>1, <3>2, WorkersOfIs DEF Counted
  <2>2. CASE g = h
    <3>1. Queued(h)' = Queued(h) \cup {w}
      <4>1. Queued(h) = {b[i].worker : i \in 1 .. Len(b)}
        BY <1>2 DEF Queued, b
      <4>2. Queued(h)' = {c[i].worker : i \in 1 .. (Len(b) + 1)}
        BY <1>4 DEF Queued, c, h
      <4>3. \A i \in 1 .. (Len(b) + 1) : c[i].worker \in Queued(h) \cup {w}
        <5> SUFFICES ASSUME NEW i \in 1 .. (Len(b) + 1), i # Len(b) + 1 PROVE c[i].worker \in Queued(h)
          BY <1>4, <1>5
        <5>1. i \in 1 .. Len(b)
          BY <1>2
        <5> QED
          BY <1>4, <4>1, <5>1
      <4>4. \A i \in 1 .. Len(b) : i \in 1 .. (Len(b) + 1) /\ c[i].worker = b[i].worker
        BY <1>2, <1>4
      <4>5. Len(b) + 1 \in 1 .. (Len(b) + 1)
        BY <1>2
      <4> QED
        BY <1>4, <1>5, <4>1, <4>2, <4>3, <4>4, <4>5
    <3>2. w \notin Counted(h)
      BY DEF Counted
    <3> QED
      BY <2>2, <3>1, <3>2, WorkersOfIs DEF Counted
  <2> QED
    BY <2>1, <2>2
<1>8. CountInv'
  BY <1>1, <1>7 DEF CountInv
<1> QED
  BY <1>6, <1>8 DEF BusInv

\* A report is observed.  Its worker was not counted off yet, so its role's
\* count is not zero, and it is counted off exactly if it drained.
LEMMA ObserveCount ==
  ASSUME TypeInv, BusInv, CountInv, DrainObserve
  PROVE  /\ BusInv' /\ CountInv'
         /\ Tracker.pending[Role(Head(Tracker.bus).worker)] # 0
<1> DEFINE h == eng.active
           b == drain[h].bus
           c == drain'[h].bus
           w == Head(b).worker
           r == Role(w)
           out == Head(b).outcome
<1>0. /\ h \in Gens /\ Tracker = drain[h] /\ Tracker.bus = b /\ b \in Seq(Reports)
      /\ drain[h].pending \in [RoleSet -> Nat]
      /\ \A i \in DOMAIN b : /\ b[i].worker \in Workers /\ b[i].outcome \in {"Drained", "Aborted"}
                             /\ Gen(b[i].worker) = h
  BY TrackerIs, ReportsAre DEF Tracker
<1>1. /\ b # <<>> /\ c = Tail(b) /\ UNCHANGED wk
      /\ \A g \in Gens : g # h => drain'[g] = drain[g]
      /\ drain'[h].pending =
           IF drain[h].pending[r] # 0 /\ out # "Aborted" THEN [drain[h].pending EXCEPT ![r] = @ - 1]
                                                      ELSE drain[h].pending
  BY ZenonT(40), <1>0, ObserveMoves DEF DrainObserve
<1> HIDE DEF b, c, h
<1>2. /\ DOMAIN b = 1 .. Len(b) /\ DOMAIN c = 1 .. Len(b) - 1 /\ Len(b) \in Nat \ {0}
      /\ \A i \in 1 .. Len(b) - 1 : c[i] = b[i + 1]
      /\ Head(b) = b[1]
  BY <1>0, <1>1
<1>3. /\ 1 \in DOMAIN b /\ w = b[1].worker /\ out = b[1].outcome /\ w \in Workers /\ Gen(w) = h
      /\ out \in {"Drained", "Aborted"} /\ out = wk[w].rep /\ r \in RoleSet
  <2>1. 1 \in DOMAIN b
    BY <1>2
  <2>2. w = b[1].worker /\ out = b[1].outcome /\ w \in Workers /\ Gen(w) = h
        /\ out \in {"Drained", "Aborted"}
    BY <1>0, <1>2, <2>1
  <2>3. out = wk[w].rep
    BY <1>0, <2>1, <2>2 DEF BusInv, b
  <2> QED
    BY <2>1, <2>2, <2>3, WorkerIs
<1>4. ASSUME NEW i \in 1 .. Len(b) - 1
      PROVE  i + 1 \in DOMAIN b /\ c[i] = b[i + 1] /\ c[i].worker # w
  <2>1. i + 1 \in DOMAIN b /\ i + 1 # 1
    BY <1>2
  <2>2. c[i] = b[i + 1]
    BY <1>2
  <2> QED
    BY <1>0, <1>3, <2>1, <2>2 DEF BusInv, b
<1>5. Queued(h) = Queued(h)' \cup {w} /\ w \notin Queued(h)'
  <2>1. Queued(h) = {b[i].worker : i \in 1 .. Len(b)}
    BY <1>2 DEF Queued, b
  <2>2. Queued(h)' = {c[i].worker : i \in 1 .. Len(b) - 1}
    <3>1. DOMAIN drain'[h].bus = 1 .. Len(b) - 1
      BY <1>2 DEF c
    <3>2. h' = h
      BY ZenonT(40), <1>0, EngineMoves DEF h, SameSet
    <3> QED
      BY <3>1, <3>2 DEF Queued, c
  <2>3. \A i \in 1 .. Len(b) - 1 : c[i].worker \in Queued(h) /\ c[i].worker # w
    BY ZenonT(40), <1>2, <1>4, <2>1
  <2>4. \A i \in 1 .. Len(b) : b[i].worker \in Queued(h)' \cup {w}
    <3> SUFFICES ASSUME NEW i \in 1 .. Len(b), i # 1 PROVE b[i].worker \in Queued(h)'
      BY <1>3
    <3>1. i - 1 \in 1 .. Len(b) - 1 /\ (i - 1) + 1 = i
      BY <1>2
    <3>2. c[i - 1] = b[i]
      BY <1>2, <3>1
    <3> QED
      BY <2>2, <3>1, <3>2
  <2>5. w \in Queued(h)
    BY <1>2, <1>3, <2>1
  <2>6. Queued(h)' \subseteq Queued(h) /\ w \notin Queued(h)'
    BY <2>2, <2>3
  <2>7. Queued(h) \subseteq Queued(h)' \cup {w}
    BY <2>1, <2>4
  <2> QED
    BY <2>5, <2>6, <2>7
<1>6. w \notin Counted(h) /\ w \in WorkersOf(h)
  BY <1>0, <1>3, <1>5, WorkersOfIs DEF Counted
<1>7. drain[h].pending[r] = Cardinality(Group(h, r) \ Counted(h)) /\ drain[h].pending[r] # 0
  <2>1. drain[h].pending[r] = Cardinality(Group(h, r) \ Counted(h))
    BY ZenonT(40), <1>0, <1>3 DEF CountInv
  <2>2. w \in Group(h, r) \ Counted(h)
    BY <1>0, <1>3, <1>6, GroupIs
  <2> QED
    BY <1>0, <1>3, <2>1, <2>2, CountOff
<1>8. ASSUME NEW g \in Gens
      PROVE  /\ \A i \in DOMAIN drain'[g].bus :
                  drain'[g].bus[i].outcome = wk'[drain'[g].bus[i].worker].rep
             /\ \A i, j \in DOMAIN drain'[g].bus :
                  drain'[g].bus[i].worker = drain'[g].bus[j].worker => i = j
  <2>1. CASE g # h
    BY <1>1, <2>1 DEF BusInv
  <2>2. CASE g = h
    <3>1. ASSUME NEW i \in 1 .. Len(b) - 1 PROVE c[i].outcome = wk'[c[i].worker].rep
      <4>1. i + 1 \in DOMAIN b /\ c[i] = b[i + 1]
        BY <1>4
      <4>2. \A j \in DOMAIN b : b[j].outcome = wk[b[j].worker].rep
        BY <1>0 DEF BusInv, b
      <4>3. b[i + 1].outcome = wk[b[i + 1].worker].rep
        BY <4>1, <4>2
      <4> QED
        BY <1>1, <4>1, <4>3
    <3>2. ASSUME NEW i \in 1 .. Len(b) - 1, NEW j \in 1 .. Len(b) - 1, c[i].worker = c[j].worker
          PROVE  i = j
      <4>1. i + 1 = j + 1
        BY <1>0, <1>4, <3>2 DEF BusInv, b
      <4> QED
        BY <1>2, <4>1
    <3> QED
      BY Zenon, <1>2, <2>2, <3>1, <3>2 DEF c
  <2> QED
    BY <2>1, <2>2
<1>9. ASSUME NEW g \in Gens, NEW role \in RoleSet
      PROVE  drain'[g].pending[role] = Cardinality(Group(g, role) \ Counted(g)')
  <2>0. drain[g].pending[role] = Cardinality(Group(g, role) \ Counted(g))
    BY DEF CountInv
  <2>1. CASE g # h
    <3>1. Queued(g)' = Queued(g)
      BY <1>1, <2>1 DEF Queued
    <3>2. Counted(g)' = Counted(g)
      BY <1>1, <3>1 DEF Counted
    <3> QED
      BY <1>1, <2>0, <2>1, <3>2
  <2>2. CASE g = h /\ out = "Aborted"
    <3>1. Counted(h)' = Counted(h)
      <4>1. h' = h
        BY EngineMoves DEF h, SameSet
      <4> QED
        BY <1>1, <1>3, <1>5, <2>2, <4>1 DEF Counted
    <3>2. Counted(g)' = Counted(g)
      BY <2>2, <3>1, EngineMoves DEF h, SameSet
    <3> QED
      BY <1>1, <2>0, <2>2, <3>2
  <2>3. CASE g = h /\ out = "Drained"
    <3>1. Counted(g)' = Counted(g) \cup {w}
      <4>1. Queued(g) = Queued(g)' \cup {w} /\ w \notin Queued(g)'
        BY <1>5, <2>3, EngineMoves DEF h, SameSet
      <4>2. w \in WorkersOf(g) /\ wk'[w].rep = "Drained"
        BY <1>1, <1>3, <1>6, <2>3
      <4> QED
        BY <1>1, <4>1, <4>2 DEF Counted
    <3>2. drain'[g].pending[role] = IF r = role THEN drain[g].pending[role] - 1 ELSE drain[g].pending[role]
      <4>1. drain'[h].pending = [drain[h].pending EXCEPT ![r] = @ - 1]
        BY <1>1, <1>7, <2>3
      <4> QED
        BY <1>0, <1>3, <2>3, <4>1
    <3>3. Gen(w) = g /\ w \in Workers /\ w \notin Counted(g)
      BY <1>3, <1>6, <2>3
    <3> HIDE DEF w, r
    <3>4. Cardinality(Group(g, role) \ (Counted(g) \cup {w})) =
            IF Role(w) = role THEN Cardinality(Group(g, role) \ Counted(g)) - 1
                              ELSE Cardinality(Group(g, role) \ Counted(g))
      BY <3>3, CountOff
    <3> QED
      BY <2>0, <3>1, <3>2, <3>4 DEF r
  <2> QED
    BY <1>3, <2>1, <2>2, <2>3
<1>10. Tracker.pending[Role(Head(Tracker.bus).worker)] # 0
  BY <1>0, <1>7
<1>11. BusInv'
  BY <1>8 DEF BusInv
<1>12. CountInv'
  BY <1>9 DEF CountInv
<1> QED
  BY <1>10, <1>11, <1>12

\* No count is left: every worker of the generation drained.
LEMMA QuiescedDrained == ASSUME TypeInv, CountInv PROVE QuiescedHasDrained
<1> SUFFICES ASSUME FullyQuiesced, NEW w \in WorkersOf(eng.active) PROVE wk[w].rep = "Drained"
  BY DEF QuiescedHasDrained
<1>0. eng.active \in Gens /\ w \in Workers /\ Gen(w) = eng.active /\ Role(w) \in RoleSet
  BY GensAre, WorkersOfIs, WorkerIs
<1>1. Cardinality(Group(eng.active, Role(w)) \ Counted(eng.active)) = 0
  BY <1>0, RolesAre DEF FullyQuiesced, Tracker, CountInv
<1>2. Group(eng.active, Role(w)) \ Counted(eng.active) = {}
  BY <1>0, <1>1, CountOff
<1>3. w \in Group(eng.active, Role(w))
  BY <1>0, GroupIs
<1> QED
  BY <1>2, <1>3 DEF Counted

\* The counts are exact after every step of a task,
LEMMA TaskCount ==
  ASSUME TypeInv, RepInv, BusInv, CountInv, TaskStep
  PROVE  BusInv' /\ CountInv'
<1>1. SilentOrFirst
  BY TaskReports
<1>2. CASE UNCHANGED drain /\ \A w \in Workers : wk'[w].rep = wk[w].rep
  BY <1>2, QuietCount
<1>3. ASSUME NEW w \in Workers, NEW outcome \in {"Drained", "Aborted"}, FirstReport(w, outcome)
      PROVE  BusInv' /\ CountInv'
  BY <1>3, ReportCount DEF FirstReport
<1> QED
  BY <1>1, <1>2, <1>3 DEF SilentOrFirst

\* and after every step of the engine.
LEMMA EngineCount ==
  ASSUME TypeInv, BusInv, CountInv, EngineStep
  PROVE  BusInv' /\ CountInv'
<1>1. CASE DrainObserve
  BY <1>1, ObserveCount
<1>2. \A w \in Workers : wk'[w].rep = wk[w].rep
  BY EngineKeeps DEF EngineKept
<1>3. CASE UNCHANGED drain
  BY <1>2, <1>3, QuietCount
<1>4. CASE DisconnectRouter \/ DrainQuiesced \/ DrainTimeout
  <2>1. \E st : TrackerGoes(st)
    BY <1>4, WaitMoves
  <2>2. \A g \in Gens : drain'[g].bus = drain[g].bus /\ drain'[g].pending = drain[g].pending
    BY <2>1 DEF TrackerGoes, Tracker
  <2> QED
    BY <1>2, <2>2, QuietCount
<1>5. ASSUME ~DrainObserve, ~DisconnectRouter, ~DrainQuiesced, ~DrainTimeout PROVE UNCHANGED drain
  BY <1>5 DEF EngineStep, ReloadStep, Prebuild, IsolatePicker, StopRole, JoinNext, JoinAwaited,
     RoleStopped, ForceStopped, UnusedShutDown, EngineExits, Install, ResumePicker
<1> QED
  BY <1>1, <1>3, <1>4, <1>5

-----------------------------------------------------------------------------
(* What a graceful wait shows, and what is never lost without a cause *)

\* A generation whose wait ended quiesced has drained, worker by worker.
QuietInv ==
  \A g \in Gens : drain[g].wait = "quiesced" => \A w \in WorkersOf(g) : wk[w].rep = "Drained"

\* Initially no wait has ended.
LEMMA InitQuiet == Init => QuietInv /\ LossNeedsForce
<1> SUFFICES ASSUME Init PROVE QuietInv /\ LossNeedsForce
  OBVIOUS
<1>1. \A g \in Gens : drain[g].wait = "idle"
  BY DEF Init, NewTracker
<1>2. lost = {}
  BY DEF Init
<1> QED
  BY <1>1, <1>2 DEF QuietInv, LossNeedsForce

\* A worker that drained has reported, and reports nothing else.
LEMMA TaskQuiet ==
  ASSUME TypeInv, RepInv, QuietInv, TaskStep
  PROVE  QuietInv'
<1>1. \A w \in Workers : wk[w].rep = "Drained" => wk'[w].rep = "Drained"
  BY TaskReports DEF SilentOrFirst, FirstReport
<1>2. \A g \in Gens : drain'[g].wait = drain[g].wait
  BY TaskKeeps DEF RestKept
<1> QED
  BY <1>1, <1>2, WorkersOfIs DEF QuietInv

\* The wait ends quiesced when the counts are down to zero.
LEMMA EngineQuiet ==
  ASSUME TypeInv, GenInv, QuiescedHasDrained, QuietInv, EngineStep
  PROVE  QuietInv'
<1> SUFFICES ASSUME NEW g \in Gens, drain'[g].wait = "quiesced", NEW w \in WorkersOf(g)
             PROVE  wk'[w].rep = "Drained"
  BY DEF QuietInv
<1>1. w \in Workers /\ wk'[w].rep = wk[w].rep
  BY EngineKeeps, WorkersOfIs DEF EngineKept
<1>2. CASE drain[g].wait = "quiesced"
  BY <1>1, <1>2 DEF QuietInv
<1>3. CASE DrainQuiesced /\ g = eng.active
  <2>1. wk[w].rep = "Drained"
    BY <1>3 DEF QuiescedHasDrained, DrainQuiesced
  <2> QED
    BY <1>1, <2>1
<1> QED
  BY <1>2, <1>3, OutcomeStays

\* A worker that was sent Stop shows a failed wait.
LEMMA StopMeansFailed ==
  ASSUME TypeInv, GenInv, StopInv, NEW w \in Workers, wk[w].stop
  PROVE  \E g \in Gens : drain[g].wait = "failed"
<1>1. Gen(w) \in Gens /\ eng.active \in Gens
  BY GensAre
<1>2. eng.groupsLost => drain[eng.active].wait = "failed"
  BY DEF GenInv
<1> QED
  BY <1>1, <1>2 DEF StopInv

\* The workers of a quiesced generation were not sent Stop: they are parsers,
\* each of which emptied its channel after its last sender was gone.
LEMMA QuietIsEmpty ==
  ASSUME TypeInv, GenInv, StopInv, RepInv, TailInv, QuietInv
  PROVE  QuiescedMeansEmpty
<1> SUFFICES ASSUME NEW g \in Gens, drain[g].wait = "quiesced", NEW w \in WorkersOf(g)
             PROVE  /\ wk[w].ch = <<>> /\ wk[w].hand = NoEvent
                    /\ \A p \in Pickers : w \notin Range(pk[p].snap)
  BY DEF QuiescedMeansEmpty
<1>1. w \in Workers /\ Gen(w) = g
  BY WorkersOfIs
<1>2. wk[w].rep = "Drained" /\ wk[w] \in WorkerRec
  BY <1>1 DEF QuietInv, TypeInv, WorkersType
<1>3. wk[w].st \in {"tail", "done"}
  BY <1>1, <1>2 DEF RepInv, Fits, WorkerRec
<1>4. ~wk[w].stop
  BY <1>1 DEF StopInv, GenInv
<1>5. w \in ParserSet /\ wk[w].hand = NoEvent
  BY <1>1, <1>3, <1>4 DEF RepInv, Fits, OutSet
<1>6. wk[w].ch = <<>> /\ ~SenderAlive(w)
  BY <1>3, <1>4, <1>5 DEF TailInv
<1> QED
  BY <1>5, <1>6 DEF SenderAlive

\* A task that loses an event was stopped or has failed, or the output its
\* event was for.
LEMMA TaskLoss ==
  ASSUME TypeInv, GenInv, StopInv, RepInv, TailInv, LossNeedsForce, TaskStep
  PROVE  LossNeedsForce'
<1>0. faults \in Nat /\ WorkersType
  BY DEF TypeInv, DataType
<1>1. RestKept
  BY TaskKeeps
<1>2. ASSUME faults > 0 \/ \E g \in Gens : drain[g].wait = "failed"
      PROVE  LossNeedsForce'
  <2>1. faults > 0 => faults' > 0
    <3>1. faults' = faults \/ faults' = faults + 1
      BY Zenon DEF TaskStep, PickerStep, PollCmd, Fetch, Snapshot, LoadReloading, TrySend, ParserStep,
         ParserRecv, ParserForward, ParserLoopEnds, OutStep, OutRecv, OutStop, OutDrained,
         TaskReturns, Fault
    <3> QED
      BY <1>0, <3>1
  <2> QED
    BY <1>1, <1>2, <2>1 DEF RestKept, LossNeedsForce
<1>3. CASE lost' = lost
  <2>1. CASE lost = {}
    BY <1>3, <2>1 DEF LossNeedsForce
  <2>2. CASE lost # {}
    BY <1>2, <2>2 DEF LossNeedsForce
  <2> QED
    BY <2>1, <2>2
<1>4. ASSUME NEW w \in ParserSet, ParserForward(w) PROVE LossNeedsForce'
  <2>1. PICK out : Forwards(w, out)
    BY Zenon, <1>4, ForwardMoves
  <2>2. CASE out \in OutSet /\ Gen(out) = Gen(w) /\ wk[out].st # "run"
    <3>1. w \in Workers /\ out \in Workers /\ wk[w].st = "run" /\ wk[out] \in WorkerRec
      BY Zenon, <1>4, <2>2 DEF ParserSet, OutSet, ParserForward, TypeInv, WorkersType
    <3>2. wk[out].st # "off"
      BY <2>2, <3>1 DEF GenInv
    <3>3. wk[out].stop \/ faults > 0
      BY <2>2, <3>1, <3>2 DEF RepInv, Fits, WorkerRec
    <3> QED
      BY <1>2, <3>1, <3>3, StopMeansFailed
  <2> QED
    BY ZenonT(40), <1>3, <2>1, <2>2 DEF Forwards, data
<1>5. ASSUME NEW w \in Workers, TaskReturns(w) PROVE LossNeedsForce'
  <2>1. CASE wk[w].stop
    BY <1>2, <2>1, StopMeansFailed
  <2>2. CASE ~wk[w].stop
    <3>1. wk[w].st = "tail" /\ lost' = lost \cup Range(wk[w].ch)
      BY <1>5 DEF TaskReturns
    <3>2. w \in ParserSet
      BY <2>2, <3>1 DEF RepInv, Fits, OutSet
    <3>3. wk[w].ch = <<>>
      BY <2>2, <3>1, <3>2 DEF TailInv
    <3>4. Range(wk[w].ch) = {}
      BY <3>3 DEF Range
    <3> QED
      BY <1>3, <3>1, <3>4
  <2> QED
    BY <2>1, <2>2
<1>6. ASSUME NEW w \in Workers, NEW st \in {"failed", "panicked"}, Fault(w, st)
      PROVE  LossNeedsForce'
  <2>1. faults' = faults + 1
    BY <1>6 DEF Fault
  <2>2. faults' > 0
    BY <1>0, <2>1
  <2> QED
    BY <2>2 DEF LossNeedsForce
<1>7. ASSUME NEW p \in Pickers, PickerStep(p) PROVE lost' = lost
  BY ZenonT(40), <1>7 DEF PickerStep, PollCmd, Fetch, Snapshot, LoadReloading, TrySend, data
<1>8. ASSUME NEW w \in ParserSet, ParserRecv(w) \/ ParserLoopEnds(w) PROVE lost' = lost
  BY <1>8 DEF ParserRecv, ParserLoopEnds, data
<1>9. ASSUME NEW w \in OutSet, OutStep(w) PROVE lost' = lost
  BY <1>9 DEF OutStep, OutRecv, OutStop, OutDrained, data
<1> QED
  BY <1>3, <1>4, <1>5, <1>6, <1>7, <1>8, <1>9 DEF TaskStep, ParserStep

\* The engine loses nothing, and a failed wait stays failed.
LEMMA EngineLoss ==
  ASSUME TypeInv, GenInv, LossNeedsForce, EngineStep
  PROVE  LossNeedsForce'
<1>1. lost' = lost /\ faults' = faults
  BY EngineKeeps DEF EngineKept, data
<1>2. \A g \in Gens : drain[g].wait = "failed" => drain'[g].wait = "failed"
  BY OutcomeStays
<1> QED
  BY <1>1, <1>2 DEF LossNeedsForce

-----------------------------------------------------------------------------
(* The theorems *)

\* The inductive invariant.
Inv ==
  /\ TypeInv /\ GenInv /\ StopInv /\ RepInv /\ TailInv /\ BusInv /\ CountInv
  /\ OverInv /\ PickInv /\ QuietInv /\ LossNeedsForce

\* The invariant holds initially,
LEMMA InitInv == Init => Inv
BY InitType, InitGen, InitCount, InitOver, InitPick, InitQuiet DEF Inv

\* and every step of every task and of the engine keeps it.
LEMMA NextInv == ASSUME Inv, [Next]_vars PROVE Inv'
<1>0. TypeInv'
  BY NextType DEF Inv
<1>1. CASE TaskStep
  <2>1. GenInv' /\ StopInv'
    BY <1>1, TaskGen DEF Inv
  <2>2. RepInv' /\ TailInv'
    BY <1>1, TaskRep, TaskTail DEF Inv
  <2>3. BusInv' /\ CountInv'
    BY <1>1, TaskCount DEF Inv
  <2>4. OverInv' /\ PickInv'
    BY <1>1, TaskOver, TaskPick DEF Inv
  <2>5. QuietInv' /\ LossNeedsForce'
    BY <1>1, TaskQuiet, TaskLoss DEF Inv
  <2> QED
    BY <1>0, <2>1, <2>2, <2>3, <2>4, <2>5 DEF Inv
<1>2. CASE EngineStep
  <2>1. GenInv' /\ StopInv'
    BY <1>2, EngineGen, EngineStop DEF Inv
  <2>2. RepInv' /\ TailInv'
    BY <1>2, EngineRep, EngineTail DEF Inv
  <2>3. BusInv' /\ CountInv'
    BY <1>2, EngineCount DEF Inv
  <2>4. OverInv'
    BY <1>2, EngineOver1, EngineOver2, EngineOver3, EngineOver4, EngineOver5, QuiescedDrained
    DEF Inv, OverInv
  <2>5. PickInv'
    BY <1>2, EnginePick DEF Inv
  <2>6. QuietInv' /\ LossNeedsForce'
    BY <1>2, EngineQuiet, EngineLoss, QuiescedDrained DEF Inv
  <2> QED
    BY <1>0, <2>1, <2>2, <2>3, <2>4, <2>5, <2>6 DEF Inv
<1>3. CASE UNCHANGED vars
  <2>1. GenInv' /\ StopInv'
    BY <1>3 DEF Inv, vars, GenInv, StopInv
  <2>2. RepInv'
    BY <1>3 DEF Inv, vars, RepInv
  <2>3. TailInv'
    BY <1>3 DEF Inv, vars, TailInv, SenderAlive
  <2>4. BusInv' /\ CountInv'
    <3>1. \A g : Counted(g)' = Counted(g)
      BY <1>3 DEF vars, Counted, Queued
    <3> QED
      BY <1>3, <3>1 DEF Inv, vars, BusInv, CountInv
  <2>5. OverInv'
    <3>1. \A w : Over(w)' = Over(w)
      BY <1>3 DEF vars, Over
    <3> QED
      BY <1>3, <3>1 DEF Inv, vars, OverInv, SendersActive, OldOver, Registered, ToStop, JoinedOver, AllOver
  <2>6. PickInv'
    <3>1. \A p : Exited(p)' = Exited(p) /\ LastWord(p)' = LastWord(p)
      BY <1>3 DEF vars, Exited, LastWord
    <3> QED
      BY <1>3, <3>1 DEF Inv, vars, PickInv, Connected, Resumed, PickersReached
  <2>7. QuietInv' /\ LossNeedsForce'
    BY <1>3 DEF Inv, vars, QuietInv, LossNeedsForce
  <2> QED
    BY <1>0, <2>1, <2>2, <2>3, <2>4, <2>5, <2>6, <2>7 DEF Inv
<1> QED
  BY <1>1, <1>2, <1>3 DEF Next, TaskStep, EngineStep

\* It holds in every state the system reaches.
LEMMA Invariant == Spec => []Inv
<1>1. Init => Inv
  BY InitInv
<1>2. Inv /\ [Next]_vars => Inv'
  BY NextInv
<1> QED
  BY <1>1, <1>2, PTL DEF Spec

\* The router hands out senders of the installed generation only, and no worker
\* of a replaced generation processes anything any more.
THEOREM OldIsOver == Spec => []OldGenerationIsOver
<1>1. Inv => OldGenerationIsOver
  BY DEF Inv, OverInv, SendersActive, OldOver, Over, OldGenerationIsOver
<1> QED
  BY <1>1, Invariant, PTL

\* Between reloads the router is connected to the active generation and the
\* last word to every living picker is Execute.
THEOREM ReloadsResumePickers == Spec => []PickersResumed
<1>1. Inv => PickersResumed
  BY DEF Inv, PickInv, Connected, Resumed, PickersResumed
<1> QED
  BY <1>1, Invariant, PTL

\* Events are lost only where a wait failed and the old generation was stopped
\* by force, or where a worker failed or panicked.
THEOREM GracefulLosesNothing == Spec => []LossNeedsForce
<1>1. Inv => LossNeedsForce
  BY DEF Inv
<1> QED
  BY <1>1, Invariant, PTL

\* A generation whose wait ended quiesced holds no event and no picker has a
\* sender of it in hand.
THEOREM QuiescedIsEmpty == Spec => []QuiescedMeansEmpty
<1>1. Inv => QuiescedMeansEmpty
  BY QuietIsEmpty DEF Inv
<1> QED
  BY <1>1, Invariant, PTL

-----------------------------------------------------------------------------
(* The drain of the first generation is the handshake of ReloadDrain *)

\* The workers and roles of the handshake are those of the first generation.
LEMMA HandshakeWorkers ==
  /\ 1 \in Gens /\ DrainOfFirst!Workers = WorkersOf(1) /\ DrainOfFirst!Roles = RoleSet
  /\ \A role \in RoleSet : DrainOfFirst!WorkersOf(role) = Group(1, role)
  /\ \A w \in WorkersOf(1) : DrainOfFirst!Role(w) = Role(w)
<1>1. 1 \in Gens
  BY HotReloadAssumption DEF Gens
<1>2. DrainOfFirst!Roles = RoleSet
  BY DEF DrainOfFirst!Roles, RoleSet
<1>3. \A role \in RoleSet : DrainOfFirst!WorkersOf(role) = Group(1, role)
  BY DEF DrainOfFirst!WorkersOf, RoleSet
<1>4. DrainOfFirst!Workers = WorkersOf(1)
  <2>1. WorkersOf(1) = UNION {Group(1, role) : role \in RoleSet}
    BY RolesAre DEF WorkersOf
  <2> QED
    BY <2>1 DEF DrainOfFirst!Workers, RoleSet
<1>5. ASSUME NEW w \in WorkersOf(1) PROVE DrainOfFirst!Role(w) = Role(w)
  <2>1. w \in Workers /\ Gen(w) = 1 /\ Role(w) \in RoleSet
    BY <1>1, WorkersOfIs, WorkerIs
  <2>2. \A role \in RoleSet : w \in Group(1, role) <=> role = Role(w)
    BY <1>1, <2>1, GroupIs
  <2>3. \A role \in RoleSet : w \in DrainOfFirst!WorkersOf(role) <=> role = Role(w)
    BY <1>3, <2>2
  <2> QED
    BY <1>2, <2>1, <2>3 DEF DrainOfFirst!Role
<1> QED
  BY <1>1, <1>2, <1>3, <1>4, <1>5

\* The handshake counts as this module does.
LEMMA HandshakeCounts == ASSUME NEW S PROVE DrainOfFirst!Cardinality(S) = Cardinality(S)
BY DEF DrainOfFirst!Cardinality, Cardinality

\* The handshake begins with every reporter armed and every count full.
LEMMA HandshakeInit == Init => DrainOfFirst!Init
<1> SUFFICES ASSUME Init PROVE DrainOfFirst!Init
  OBVIOUS
<1>1. 1 \in Gens /\ \A w \in WorkersOf(1) : w \in Workers
  BY HandshakeWorkers, WorkersOfIs
<1>2. drain[1] = NewTracker
  BY <1>1 DEF Init
<1>3. drain[1].bus = <<>> /\ drain[1].wait = "idle"
  BY <1>2 DEF NewTracker
<1>4. drain[1].pending = [role \in RoleSet |-> NumOf(role)]
  BY <1>2, RolesAre DEF NewTracker
<1>5. drain[1].pending = [role \in RoleSet |-> Cardinality(Group(1, role))]
  BY <1>1, <1>4, GroupSize
<1>6. drain[1].pending =
        [role \in DrainOfFirst!Roles |-> DrainOfFirst!Cardinality(DrainOfFirst!WorkersOf(role))]
  BY <1>5, HandshakeWorkers, HandshakeCounts
<1>7. \A w \in WorkersOf(1) : wk[w].rep = "armed"
  BY <1>1 DEF Init
<1>8. [w \in WorkersOf(1) |-> wk[w].rep] = [w \in DrainOfFirst!Workers |-> "armed"]
  BY <1>7, HandshakeWorkers
<1> QED
  BY <1>3, <1>6, <1>8 DEF DrainOfFirst!Init

\* A first report of a worker of the generation is notify or drop, and a report
\* of another generation leaves the handshake alone.
LEMMA HandshakeReport ==
  ASSUME TypeInv, NEW w \in Workers, NEW outcome \in {"Drained", "Aborted"}, FirstReport(w, outcome)
  PROVE  [DrainOfFirst!Next]_(DrainOfFirst!vars)
<1> DEFINE r == [v \in WorkersOf(1) |-> wk[v].rep]
           s == [v \in WorkersOf(1) |-> wk'[v].rep]
<1>0. DrainType /\ 1 \in Gens /\ \A v \in WorkersOf(1) : v \in Workers
  BY HandshakeWorkers, WorkersOfIs DEF TypeInv
<1>1. CASE Gen(w) # 1
  <2>1. w \notin WorkersOf(1)
    BY <1>0, <1>1, WorkersOfIs
  <2>2. r = s
    BY <1>0, <2>1 DEF FirstReport
  <2>3. drain'[1] = drain[1]
    BY ZenonT(40), <1>0, <1>1, ReportIs DEF FirstReport
  <2> QED
    BY <2>2, <2>3 DEF DrainOfFirst!vars
<1>2. CASE Gen(w) = 1
  <2>1. w \in WorkersOf(1) /\ w \in DrainOfFirst!Workers
    BY <1>0, <1>2, WorkersOfIs, HandshakeWorkers
  <2>2. r[w] = "armed" /\ s = [r EXCEPT ![w] = outcome]
    BY ZenonT(40), <1>0, <2>1 DEF FirstReport
  <2>3. /\ drain'[1].bus = Append(drain[1].bus, [worker |-> w, outcome |-> outcome])
        /\ drain'[1].wait = drain[1].wait /\ drain'[1].pending = drain[1].pending
    BY <1>0, <1>2, ReportIs DEF FirstReport
  <2>4. DrainOfFirst!send_pending(w, outcome)
    BY <2>2, <2>3 DEF DrainOfFirst!send_pending
  <2>5. DrainOfFirst!notify(w) \/ DrainOfFirst!drop(w)
    BY <2>3, <2>4 DEF DrainOfFirst!notify, DrainOfFirst!drop
  <2> QED
    BY <2>1, <2>5 DEF DrainOfFirst!Next
<1> QED
  BY <1>1, <1>2

\* The engine begins the wait, observes a report or ends the wait as the
\* handshake does; its other steps leave the handshake alone.
LEMMA HandshakeEngine ==
  ASSUME Inv, EngineStep
  PROVE  [DrainOfFirst!Next]_(DrainOfFirst!vars)
<1> DEFINE r == [v \in WorkersOf(1) |-> wk[v].rep]
           s == [v \in WorkersOf(1) |-> wk'[v].rep]
<1>0. TypeInv /\ GenInv /\ 1 \in Gens /\ \A v \in WorkersOf(1) : v \in Workers
  BY HandshakeWorkers, WorkersOfIs DEF Inv
<1>1. r = s
  BY <1>0, EngineKeeps DEF EngineKept
<1>2. CASE drain'[1] = drain[1]
  BY <1>1, <1>2 DEF DrainOfFirst!vars
<1>3. eng.active = 1 => Tracker = drain[1] /\ (FullyQuiesced <=> DrainOfFirst!is_fully_quiesced)
  BY RolesAre, HandshakeWorkers DEF Tracker, FullyQuiesced, DrainOfFirst!is_fully_quiesced
<1>4. eng.active = 1 /\ eng.pc = "drain" => drain[1].wait = "waiting"
  BY <1>0 DEF GenInv
<1>5. CASE DisconnectRouter
  <2>1. eng.pc = "disconnect" /\ TrackerGoes("waiting")
    BY <1>0, <1>5, WaitMoves DEF DisconnectRouter
  <2>2. CASE eng.active # 1
    BY <1>0, <1>2, <2>1, <2>2 DEF TrackerGoes
  <2>3. CASE eng.active = 1
    <3>1. drain[1].wait = "idle"
      BY <1>0, <2>1, <2>3 DEF GenInv
    <3>2. DrainOfFirst!StartWait
      BY <1>1, <1>3, <2>1, <2>3, <3>1 DEF TrackerGoes, DrainOfFirst!StartWait
    <3> QED
      BY <3>2 DEF DrainOfFirst!Next
  <2> QED
    BY <2>2, <2>3
<1>6. CASE DrainTimeout
  <2>1. eng.pc = "drain" /\ ~FullyQuiesced /\ TrackerGoes("failed")
    BY <1>0, <1>6, WaitMoves DEF DrainTimeout
  <2>2. CASE eng.active # 1
    BY <1>0, <1>2, <2>1, <2>2 DEF TrackerGoes
  <2>3. CASE eng.active = 1
    <3>1. DrainOfFirst!Timeout
      BY <1>1, <1>3, <1>4, <2>1, <2>3 DEF TrackerGoes, DrainOfFirst!Timeout
    <3> QED
      BY <3>1 DEF DrainOfFirst!Next
  <2> QED
    BY <2>2, <2>3
<1>7. CASE DrainQuiesced
  <2>1. eng.pc = "drain" /\ FullyQuiesced /\ TrackerGoes("quiesced")
    BY <1>0, <1>7, WaitMoves DEF DrainQuiesced
  <2>2. CASE eng.active # 1
    BY <1>0, <1>2, <2>1, <2>2 DEF TrackerGoes
  <2>3. CASE eng.active = 1
    <3>1. DrainOfFirst!Quiesced
      BY <1>1, <1>3, <1>4, <2>1, <2>3 DEF TrackerGoes, DrainOfFirst!Quiesced
    <3> QED
      BY <3>1 DEF DrainOfFirst!Next
  <2> QED
    BY <2>2, <2>3
<1>8. CASE DrainObserve
  <2> DEFINE ev == Head(Tracker.bus)
             role == Role(ev.worker)
             counted == Tracker.pending[role] # 0
  <2>1. /\ eng.pc = "drain" /\ Tracker.bus # <<>> /\ ~FullyQuiesced
        /\ drain'[eng.active].bus = Tail(Tracker.bus)
        /\ \A g \in Gens : g # eng.active => drain'[g] = drain[g]
    BY <1>0, <1>8, ObserveMoves DEF DrainObserve
  <2>2. CASE eng.active # 1
    BY <1>0, <1>2, <2>1, <2>2
  <2>3. CASE eng.active = 1
    <3>1. drain'[1].wait = IF counted /\ ev.outcome = "Aborted" THEN "failed" ELSE Tracker.wait
      BY <1>0, <1>8, <2>3, ObserveMoves
    <3>2. drain'[1].pending =
            IF counted /\ ev.outcome # "Aborted" THEN [Tracker.pending EXCEPT ![role] = @ - 1]
                                                 ELSE Tracker.pending
      BY <1>0, <1>8, <2>3, ObserveMoves
    <3>3. DrainOfFirst!Role(ev.worker) = role
      <4>1. /\ drain[1].bus \in Seq(Reports) /\ drain[1].bus # <<>>
            /\ \A i \in DOMAIN drain[1].bus : /\ drain[1].bus[i].worker \in Workers
                                              /\ Gen(drain[1].bus[i].worker) = 1
        BY <1>0, <1>3, <2>1, <2>3, ReportsAre
      <4>2. 1 \in DOMAIN drain[1].bus /\ Head(drain[1].bus) = drain[1].bus[1]
        BY <4>1
      <4>3. ev.worker \in WorkersOf(1)
        BY <1>0, <1>3, <2>3, <4>1, <4>2, WorkersOfIs
      <4> QED
        BY <4>3, HandshakeWorkers
    <3>4. DrainOfFirst!observe
      <4> HIDE DEF r, s
      <4>1. Tracker = drain[1] /\ drain[1].wait = "waiting" /\ ~DrainOfFirst!is_fully_quiesced
        BY <1>3, <1>4, <2>1, <2>3
      <4>2. drain[1].bus # <<>> /\ drain'[1].bus = Tail(drain[1].bus)
        BY <2>1, <2>3, <4>1
      <4>3. r = [v \in WorkersOf(1) |-> wk[v].rep] /\ s = [v \in WorkersOf(1) |-> wk'[v].rep]
        BY DEF r, s
      <4> HIDE DEF role
      <4> QED
        BY ZenonT(40), <1>1, <3>1, <3>2, <3>3, <4>1, <4>2, <4>3 DEF DrainOfFirst!observe
    <3> QED
      BY <3>4 DEF DrainOfFirst!Next
  <2> QED
    BY <2>2, <2>3
<1>9. ASSUME ~DrainObserve, ~DisconnectRouter, ~DrainQuiesced, ~DrainTimeout PROVE UNCHANGED drain
  BY <1>9 DEF EngineStep, ReloadStep, Prebuild, IsolatePicker, StopRole, JoinNext, JoinAwaited,
     RoleStopped, ForceStopped, UnusedShutDown, EngineExits, Install, ResumePicker
<1> QED
  BY <1>2, <1>5, <1>6, <1>7, <1>8, <1>9

\* Every step of the system is a step of the handshake or leaves it alone.
LEMMA HandshakeStep ==
  ASSUME Inv, [Next]_vars
  PROVE  [DrainOfFirst!Next]_(DrainOfFirst!vars)
<1>1. CASE TaskStep
  <2>1. SilentOrFirst
    BY <1>1, TaskReports DEF Inv
  <2>2. CASE UNCHANGED drain /\ \A w \in Workers : wk'[w].rep = wk[w].rep
    <3>1. [v \in WorkersOf(1) |-> wk[v].rep] = [v \in WorkersOf(1) |-> wk'[v].rep]
      BY <2>2, HandshakeWorkers, WorkersOfIs
    <3> QED
      BY <2>2, <3>1 DEF DrainOfFirst!vars
  <2> QED
    BY <2>1, <2>2, HandshakeReport DEF SilentOrFirst, Inv
<1>2. CASE EngineStep
  BY <1>2, HandshakeEngine
<1>3. CASE UNCHANGED vars
  BY <1>3 DEF vars, DrainOfFirst!vars
<1> QED
  BY <1>1, <1>2, <1>3 DEF Next, TaskStep, EngineStep

\* The reports of the first generation's workers and the engine's wait for
\* them implement the drain handshake.
THEOREM ImplementsHandshake == Spec => FollowsDrainHandshake
<1>1. Init => DrainOfFirst!Init
  BY HandshakeInit
<1>2. Inv /\ [Next]_vars => [DrainOfFirst!Next]_(DrainOfFirst!vars)
  BY HandshakeStep
<1> QED
  BY <1>1, <1>2, Invariant, PTL DEF Spec, FollowsDrainHandshake

=============================================================================

------------------------- MODULE HotReloadPlaceProofs -------------------------
(***************************************************************************)
(* Proofs about HotReload: every fetched event is in exactly one place, in *)
(* a picker's pending queue, a channel, a worker's hand, delivered or      *)
(* lost, and an event not fetched yet is in none.                          *)
(***************************************************************************)
EXTENDS HotReloadStepProofs, FiniteSetTheorems

\* A group has as many workers as the configuration says.
LEMMA GroupSize ==
  ASSUME NEW g \in Gens, NEW role \in RoleSet
  PROVE  IsFiniteSet(Group(g, role)) /\ Cardinality(Group(g, role)) = NumOf(role)
<1> DEFINE n == NumOf(role)
           f == [i \in 1 .. n |-> <<g, role, i>>]
<1>1. n \in Nat
  BY RolesAre
<1> HIDE DEF n
<1>2. IsFiniteSet(1 .. n) /\ Cardinality(1 .. n) = n
  <2>1. /\ IsFiniteSet(1 .. n)
        /\ Cardinality(1 .. n) = IF 1 > n THEN 0 ELSE n - 1 + 1
    BY <1>1, FS_Interval
  <2> QED
    BY <1>1, <2>1
<1>3. Group(g, role) = {<<g, role, i>> : i \in 1 .. n}
  BY DEF Group, n
<1>4. f \in [1 .. n -> Group(g, role)]
  BY <1>3
<1>5. \A i, j \in 1 .. n : f[i] = f[j] => i = j
  OBVIOUS
<1>6. \A w \in Group(g, role) : \E i \in 1 .. n : f[i] = w
  BY <1>3
<1> HIDE DEF f
<1>7. f \in Bijection(1 .. n, Group(g, role))
  BY <1>4, <1>5, <1>6 DEF Bijection, Injection, Surjection, IsInjective
<1>8. ExistsBijection(1 .. n, Group(g, role))
  BY <1>7 DEF ExistsBijection
<1> QED
  BY <1>2, <1>8, FS_Bijection DEF n

-----------------------------------------------------------------------------
(* Every event is in one place *)

\* Where an element stands in a sequence, and how often.
At(s, x) == {i \in DOMAIN s : s[i] = x}
TimesIn(s, x) == Cardinality(At(s, x))
One(b) == IF b THEN 1 ELSE 0

\* An element stands in a sequence finitely often.
LEMMA TimesIs ==
  ASSUME NEW S, NEW s \in Seq(S), NEW x
  PROVE  /\ IsFiniteSet(At(s, x)) /\ TimesIn(s, x) \in Nat
         /\ TimesIn(s, x) = 0 <=> x \notin Range(s)
<1>1. DOMAIN s = 1 .. Len(s) /\ Len(s) \in Int /\ 1 \in Int
  OBVIOUS
<1>2. IsFiniteSet(DOMAIN s)
  BY <1>1, FS_Interval
<1>3. IsFiniteSet(At(s, x))
  BY <1>2, FS_Subset DEF At
<1>4. At(s, x) = {} <=> x \notin Range(s)
  BY DEF At, Range
<1> QED
  BY <1>3, <1>4, FS_CardinalityType, FS_EmptySet DEF TimesIn

\* The empty sequence has no element.
LEMMA TimesInEmpty == ASSUME NEW x PROVE TimesIn(<<>>, x) = 0
<1>1. At(<<>>, x) = {}
  BY DEF At
<1> QED
  BY <1>1, FS_EmptySet DEF TimesIn

\* Appending an element.
LEMMA TimesAppend ==
  ASSUME NEW S, NEW s \in Seq(S), NEW e \in S, NEW x
  PROVE  TimesIn(Append(s, e), x) = TimesIn(s, x) + (IF e = x THEN 1 ELSE 0)
<1> DEFINE t == Append(s, e)
           n == Len(s)
<1>1. /\ n \in Nat /\ DOMAIN s = 1 .. n /\ DOMAIN t = 1 .. n + 1
      /\ \A i \in 1 .. n : t[i] = s[i]
      /\ t[n + 1] = e
  OBVIOUS
<1> HIDE DEF t, n
<1>2. IsFiniteSet(At(s, x)) /\ TimesIn(s, x) \in Nat
  BY TimesIs
<1>3. 1 .. n + 1 = (1 .. n) \cup {n + 1} /\ n + 1 \notin 1 .. n
  BY <1>1
<1>4. CASE e = x
  <2>1. At(t, x) = At(s, x) \cup {n + 1}
    BY <1>1, <1>3, <1>4 DEF At
  <2>2. n + 1 \notin At(s, x)
    BY <1>1, <1>3 DEF At
  <2>3. Cardinality(At(t, x)) = Cardinality(At(s, x)) + 1
    BY <1>2, <2>1, <2>2, FS_AddElement
  <2> QED
    BY <1>4, <2>3 DEF TimesIn, t
<1>5. CASE e # x
  <2>1. At(t, x) = At(s, x)
    BY <1>1, <1>3, <1>5 DEF At
  <2> QED
    BY <1>2, <1>5, <2>1 DEF TimesIn, t
<1> QED
  BY <1>4, <1>5

\* Taking the first element.
LEMMA TimesTail ==
  ASSUME NEW S, NEW s \in Seq(S), s # <<>>, NEW x
  PROVE  TimesIn(s, x) = TimesIn(Tail(s), x) + (IF Head(s) = x THEN 1 ELSE 0)
<1> DEFINE t == Tail(s)
           n == Len(s)
           h == Head(s)
<1>1. /\ t \in Seq(S) /\ n \in Nat \ {0} /\ h = s[1] /\ Len(t) = n - 1
      /\ \A i \in 1 .. n - 1 : t[i] = s[i + 1]
  BY HeadTail
<1>2. DOMAIN s = 1 .. n /\ DOMAIN t = 1 .. n - 1
  BY <1>1
<1> HIDE DEF t, n, h
<1> DEFINE A == At(t, x)
           B == At(s, x) \ {1}
           f == [i \in A |-> i + 1]
<1>3. IsFiniteSet(A) /\ IsFiniteSet(At(s, x)) /\ TimesIn(t, x) \in Nat /\ TimesIn(s, x) \in Nat
  BY <1>1, TimesIs
<1>4. \A i \in A : i \in 1 .. n - 1 /\ t[i] = x
  BY <1>2 DEF At
<1>5. \A i \in A : i + 1 \in B
  <2> SUFFICES ASSUME NEW i \in A PROVE i + 1 \in B
    OBVIOUS
  <2>1. i + 1 \in 1 .. n /\ i + 1 # 1
    BY <1>1, <1>4
  <2>2. s[i + 1] = x
    BY <1>1, <1>4
  <2> QED
    BY <1>2, <2>1, <2>2 DEF At
<1>6. \A j \in B : \E i \in A : i + 1 = j
  <2> SUFFICES ASSUME NEW j \in B PROVE \E i \in A : i + 1 = j
    OBVIOUS
  <2>1. j \in 1 .. n /\ j # 1 /\ s[j] = x
    BY <1>2 DEF At
  <2>2. j - 1 \in 1 .. n - 1 /\ (j - 1) + 1 = j
    BY <1>1, <2>1
  <2>3. t[j - 1] = x
    BY <1>1, <2>1, <2>2
  <2>4. j - 1 \in A
    BY <1>2, <2>2, <2>3 DEF At
  <2> QED
    BY <2>2, <2>4
<1>7. \A i, j \in A : i + 1 = j + 1 => i = j
  <2>1. \A i \in A : i \in Int
    BY <1>4
  <2> QED
    BY <2>1
<1> HIDE DEF A, B
<1>8. f \in Bijection(A, B)
  BY <1>5, <1>6, <1>7 DEF Bijection, Injection, Surjection, IsInjective
<1>9. Cardinality(B) = Cardinality(A)
  BY <1>3, <1>8, FS_Bijection DEF ExistsBijection
<1>10. Cardinality(B) = IF 1 \in At(s, x) THEN Cardinality(At(s, x)) - 1 ELSE Cardinality(At(s, x))
  BY <1>3, FS_RemoveElement DEF B
<1>11. 1 \in At(s, x) <=> h = x
  BY <1>1, <1>2 DEF At
<1> QED
  BY <1>3, <1>9, <1>10, <1>11 DEF TimesIn, A, t, h

\* The channel slots and the hands that hold an event, for workers f.
InChans(f, ev) ==
  {x \in Workers \X (1 .. ChanCap + OutCap) : x[2] <= Len(f[x[1]].ch) /\ f[x[1]].ch[x[2]] = ev}
InHands(f, ev) == {w \in Workers : f[w].hand = ev}

\* The types of the workers, for workers f.
TypedWorkers(f) ==
  /\ f \in [Workers -> WorkerRec]
  /\ \A w \in ParserSet : Len(f[w].ch) <= ChanCap
  /\ \A w \in OutSet : Len(f[w].ch) <= OutCap

\* There are finitely many workers.
LEMMA WorkersFinite == IsFiniteSet(Workers)
<1>1. ASSUME NEW g \in Gens PROVE IsFiniteSet(WorkersOf(g))
  <2>1. WorkersOf(g) = Group(g, "Parser") \cup (Group(g, "Sink") \cup Group(g, "Infra"))
    BY RolesAre DEF WorkersOf, RoleSet
  <2>2. \A role \in RoleSet : IsFiniteSet(Group(g, role))
    BY GroupSize
  <2>3. IsFiniteSet(Group(g, "Sink") \cup Group(g, "Infra"))
    BY <2>2, FS_Union DEF RoleSet
  <2> QED
    BY <2>1, <2>2, <2>3, FS_Union DEF RoleSet
<1> DEFINE f == [g \in Gens |-> WorkersOf(g)]
           T == {WorkersOf(g) : g \in Gens}
<1>2. IsFiniteSet(Gens)
  <2>1. 1 \in Int /\ MaxGen \in Int
    BY HotReloadAssumption
  <2> QED
    BY <2>1, FS_Interval DEF Gens
<1>3. IsFiniteSet(T)
  <2>1. f \in Surjection(Gens, T)
    BY DEF Surjection
  <2> QED
    BY <1>2, <2>1, FS_Surjection
<1>4. \A S \in T : IsFiniteSet(S)
  BY <1>1
<1>5. Workers = UNION T
  BY DEF Workers
<1> HIDE DEF T
<1> QED
  BY <1>3, <1>4, <1>5, FS_UNION

\* The slots that hold an event are those of one worker's channel and the rest.
LEMMA ChansSplit ==
  ASSUME NEW f, TypedWorkers(f), NEW w \in Workers, NEW ev
  PROVE  LET rest == {x \in InChans(f, ev) : x[1] # w}
         IN  /\ Cardinality(rest) \in Nat /\ TimesIn(f[w].ch, ev) \in Nat
             /\ Cardinality(InChans(f, ev)) = Cardinality(rest) + TimesIn(f[w].ch, ev)
<1> DEFINE rest == {x \in InChans(f, ev) : x[1] # w}
           c == f[w].ch
           own == {w} \X At(c, ev)
           slots == 1 .. ChanCap + OutCap
<1>0. ChanCap \in Nat /\ OutCap \in Nat /\ ChanCap + OutCap \in Int /\ 1 \in Int
  BY HotReloadAssumption
<1>1. c \in Seq(Events) /\ (Len(c) <= ChanCap \/ Len(c) <= OutCap)
  BY DEF TypedWorkers, WorkerRec, ParserSet, OutSet
<1>2. DOMAIN c = 1 .. Len(c) /\ Len(c) \in Nat
  BY <1>1
<1>3. Len(c) <= ChanCap + OutCap
  BY <1>0, <1>1, <1>2
<1>4. IsFiniteSet(InChans(f, ev))
  <2>1. IsFiniteSet(slots)
    BY <1>0, FS_Interval
  <2>2. IsFiniteSet(Workers \X slots)
    BY <2>1, WorkersFinite, FS_Product
  <2> QED
    BY <2>2, FS_Subset DEF InChans
<1>5. IsFiniteSet(rest) /\ Cardinality(rest) \in Nat
  BY <1>4, FS_Subset, FS_CardinalityType
<1>6. IsFiniteSet(At(c, ev)) /\ TimesIn(c, ev) \in Nat
  BY <1>1, TimesIs
<1>7. IsFiniteSet(own) /\ Cardinality(own) = TimesIn(c, ev)
  <2>1. IsFiniteSet({w}) /\ Cardinality({w}) = 1
    BY FS_Singleton
  <2>2. IsFiniteSet(own) /\ Cardinality(own) = Cardinality({w}) * Cardinality(At(c, ev))
    BY <1>6, <2>1, FS_Product
  <2>3. Cardinality(own) = 1 * TimesIn(c, ev)
    BY <2>1, <2>2 DEF TimesIn
  <2> QED
    BY <1>6, <2>2, <2>3
<1>8. InChans(f, ev) = rest \cup own
  <2>1. ASSUME NEW x \in InChans(f, ev), x[1] = w PROVE x \in own
    <3>1. /\ x \in Workers \X slots /\ x = <<x[1], x[2]>> /\ x[2] \in slots
          /\ x[2] <= Len(c) /\ c[x[2]] = ev
      BY <2>1 DEF InChans
    <3>2. x[2] \in 1 .. Len(c)
      BY <1>0, <1>2, <3>1
    <3> QED
      BY <1>2, <2>1, <3>1, <3>2 DEF At
  <2>2. ASSUME NEW x \in own PROVE x \in InChans(f, ev)
    <3>1. PICK i \in At(c, ev) : x = <<w, i>>
      OBVIOUS
    <3>2. i \in 1 .. Len(c) /\ c[i] = ev
      BY <1>2 DEF At
    <3>3. i \in slots /\ i <= Len(c)
      BY <1>0, <1>2, <1>3, <3>2
    <3> QED
      BY <3>1, <3>2, <3>3 DEF InChans
  <2> QED
    BY <2>1, <2>2
<1>9. rest \cap own = {}
  OBVIOUS
<1> HIDE DEF rest, own
<1>10. Cardinality(rest \cap own) = 0
  BY <1>9, FS_EmptySet
<1>11. Cardinality(InChans(f, ev)) = Cardinality(rest) + Cardinality(own) - Cardinality(rest \cap own)
  BY <1>5, <1>7, <1>8, FS_Union
<1>12. Cardinality(InChans(f, ev)) = Cardinality(rest) + TimesIn(c, ev)
  BY <1>5, <1>6, <1>7, <1>10, <1>11
<1> QED
  BY <1>5, <1>6, <1>12 DEF rest

\* From workers f to workers h at most the channel, or the hand, of w changes.
OtherChans(f, h, w) == \A v \in Workers : v # w => h[v].ch = f[v].ch
OtherHands(f, h, w) == \A v \in Workers : v # w => h[v].hand = f[v].hand

\* One channel changes.
LEMMA ChansMove ==
  ASSUME NEW f, TypedWorkers(f), NEW h, TypedWorkers(h), NEW w \in Workers,
         OtherChans(f, h, w), NEW ev
  PROVE  /\ Cardinality(InChans(f, ev)) \in Nat /\ Cardinality(InChans(h, ev)) \in Nat
         /\ TimesIn(f[w].ch, ev) \in Nat /\ TimesIn(h[w].ch, ev) \in Nat
         /\ TimesIn(f[w].ch, ev) <= Cardinality(InChans(f, ev))
         /\ Cardinality(InChans(h, ev)) + TimesIn(f[w].ch, ev)
              = Cardinality(InChans(f, ev)) + TimesIn(h[w].ch, ev)
<1> DEFINE r(k) == {x \in InChans(k, ev) : x[1] # w}
<1>1. r(h) = r(f)
  BY DEF InChans, OtherChans
<1>2. /\ Cardinality(r(f)) \in Nat /\ TimesIn(f[w].ch, ev) \in Nat
      /\ Cardinality(InChans(f, ev)) = Cardinality(r(f)) + TimesIn(f[w].ch, ev)
  BY ChansSplit
<1>3. /\ Cardinality(r(h)) \in Nat /\ TimesIn(h[w].ch, ev) \in Nat
      /\ Cardinality(InChans(h, ev)) = Cardinality(r(h)) + TimesIn(h[w].ch, ev)
  BY ChansSplit
<1> HIDE DEF r
<1> QED
  BY <1>1, <1>2, <1>3

\* One hand changes.
LEMMA HandsMove ==
  ASSUME NEW f, NEW h, NEW w \in Workers, OtherHands(f, h, w), NEW ev
  PROVE  /\ Cardinality(InHands(f, ev)) \in Nat /\ Cardinality(InHands(h, ev)) \in Nat
         /\ (IF f[w].hand = ev THEN 1 ELSE 0) <= Cardinality(InHands(f, ev))
         /\ Cardinality(InHands(h, ev)) + (IF f[w].hand = ev THEN 1 ELSE 0)
              = Cardinality(InHands(f, ev)) + (IF h[w].hand = ev THEN 1 ELSE 0)
<1>1. /\ \A k : IsFiniteSet(InHands(k, ev)) /\ Cardinality(InHands(k, ev)) \in Nat
  BY WorkersFinite, FS_Subset, FS_CardinalityType DEF InHands
<1>2. InHands(h, ev) \ {w} = InHands(f, ev) \ {w}
  BY DEF InHands, OtherHands
<1>3. \A k : Cardinality(InHands(k, ev) \ {w}) = Cardinality(InHands(k, ev)) - One(k[w].hand = ev)
  <2> TAKE k
  <2>1. Cardinality(InHands(k, ev) \ {w}) =
          IF w \in InHands(k, ev) THEN Cardinality(InHands(k, ev)) - 1 ELSE Cardinality(InHands(k, ev))
    BY <1>1, FS_RemoveElement
  <2>2. w \in InHands(k, ev) <=> k[w].hand = ev
    BY DEF InHands
  <2> QED
    BY <1>1, <2>1, <2>2 DEF One
<1> DEFINE a == Cardinality(InHands(f, ev))
           b == Cardinality(InHands(h, ev))
           x == One(f[w].hand = ev)
           y == One(h[w].hand = ev)
<1>4. Cardinality(InHands(f, ev) \ {w}) = a - x /\ Cardinality(InHands(h, ev) \ {w}) = b - y
  BY <1>3
<1>5. a \in Nat /\ b \in Nat /\ Cardinality(InHands(f, ev) \ {w}) \in Nat
  <2>1. IsFiniteSet(InHands(f, ev) \ {w})
    BY <1>1, FS_Subset
  <2> QED
    BY <1>1, <2>1, FS_CardinalityType
<1>6. x \in Int /\ y \in Int
  BY DEF One
<1> HIDE DEF a, b, x, y
<1>7. b - y = a - x /\ a - x \in Nat
  BY <1>2, <1>4, <1>5
<1>8. b + x = a + y /\ x <= a
  BY <1>5, <1>6, <1>7
<1> QED
  BY <1>5, <1>8 DEF a, b, x, y, One

\* The places of an event, for pending sequence pd, workers f and data d, l.
PlacesIn(pd, f, d, l, ev) ==
  TimesIn(pd, ev[2]) + Cardinality(InChans(f, ev)) + Cardinality(InHands(f, ev))
  + One(ev \in d) + One(ev \in l)

\* Places, now and after a step, is PlacesIn of the variables.
LEMMA PlacesAre ==
  ASSUME NEW p, NEW n
  PROVE  /\ Places(p, n) = PlacesIn(pk[p].pend, wk, delivered, lost, <<p, n>>)
         /\ Places(p, n)' = PlacesIn(pk[p].pend, wk, delivered, lost, <<p, n>>)'
BY DEF Places, PlacesIn, TimesIn, At, InChans, InHands, One

\* The places of an event that a step of one worker can touch.
Touched(pd, c, hd, d, l, ev) ==
  TimesIn(pd, ev[2]) + TimesIn(c, ev) + One(hd = ev) + One(ev \in d) + One(ev \in l)

\* A step of one worker with these places before and after keeps the number.
Balances(pd, c, hd, d, l, pd2, c2, hd2, d2, l2, ev) ==
  Touched(pd, c, hd, d, l, ev) <= 1 =>
    Touched(pd2, c2, hd2, d2, l2, ev) = Touched(pd, c, hd, d, l, ev)

\* One worker changes: what it lets go of turns up where the step puts it.
LEMMA OneWorkerPlaces ==
  ASSUME NEW f, TypedWorkers(f), NEW h, TypedWorkers(h), NEW w \in Workers,
         OtherChans(f, h, w), OtherHands(f, h, w),
         NEW d, NEW l, NEW d2, NEW l2, NEW S, NEW pd \in Seq(S), NEW pd2 \in Seq(S), NEW ev,
         Balances(pd, f[w].ch, f[w].hand, d, l, pd2, h[w].ch, h[w].hand, d2, l2, ev),
         PlacesIn(pd, f, d, l, ev) <= 1
  PROVE  PlacesIn(pd2, h, d2, l2, ev) = PlacesIn(pd, f, d, l, ev)
<1> DEFINE c1 == Cardinality(InChans(f, ev))
           c2 == Cardinality(InChans(h, ev))
           h1 == Cardinality(InHands(f, ev))
           h2 == Cardinality(InHands(h, ev))
           t1 == TimesIn(f[w].ch, ev)
           t2 == TimesIn(h[w].ch, ev)
           o1 == One(f[w].hand = ev)
           o2 == One(h[w].hand = ev)
           q1 == TimesIn(pd, ev[2])
           q2 == TimesIn(pd2, ev[2])
           e1 == One(ev \in d)
           e2 == One(ev \in d2)
           l1 == One(ev \in l)
           l3 == One(ev \in l2)
<1>1. c1 \in Nat /\ c2 \in Nat /\ t1 \in Nat /\ t2 \in Nat /\ t1 <= c1 /\ c2 + t1 = c1 + t2
  BY ChansMove
<1>2. h1 \in Nat /\ h2 \in Nat /\ o1 <= h1 /\ h2 + o1 = h1 + o2
  BY HandsMove DEF One
<1>3. q1 \in Nat /\ q2 \in Nat
  BY TimesIs
<1>4. /\ o1 \in Nat /\ o2 \in Nat /\ e1 \in Nat /\ e2 \in Nat /\ l1 \in Nat /\ l3 \in Nat
  <2>1. o1 \in Nat /\ o2 \in Nat
    BY DEF One
  <2>2. e1 \in Nat /\ e2 \in Nat
    BY DEF One
  <2>3. l1 \in Nat /\ l3 \in Nat
    BY DEF One
  <2> QED
    BY <2>1, <2>2, <2>3
<1>5. q1 + t1 + o1 + e1 + l1 <= 1 => q2 + t2 + o2 + e2 + l3 = q1 + t1 + o1 + e1 + l1
  BY DEF Balances, Touched
<1>6. q1 + c1 + h1 + e1 + l1 <= 1
  BY DEF PlacesIn
<1> HIDE DEF c1, c2, h1, h2, t1, t2, o1, o2, q1, q2, e1, e2, l1, l3
<1>7. q2 + c2 + h2 + e2 + l3 = q1 + c1 + h1 + e1 + l1
  BY <1>1, <1>2, <1>3, <1>4, <1>5, <1>6
<1> QED
  BY <1>7 DEF PlacesIn, c1, c2, h1, h2, q1, q2, e1, e2, l1, l3

\* A step keeps the books: it reads nothing from a source, and every event in
\* at most one place stays in as many.
BooksKept ==
  \A p \in Pickers :
    /\ pk'[p].src = pk[p].src
    /\ \A n \in 1 .. NEvents : Places(p, n) <= 1 => Places(p, n)' = Places(p, n)

\* The types, for the lemmas above.
LEMMA Typed ==
  ASSUME TypeInv, TypeInv'
  PROVE  /\ TypedWorkers(wk) /\ TypedWorkers(wk')
         /\ \A p \in Pickers : pk[p].pend \in Seq(1 .. NEvents) /\ pk'[p].pend \in Seq(1 .. NEvents)
<1>1. TypedWorkers(wk) /\ TypedWorkers(wk')
  BY DEF TypeInv, WorkersType, TypedWorkers
<1>2. pk \in [Pickers -> PickerRec] /\ pk' \in [Pickers -> PickerRec]
  BY DEF TypeInv, PickersType
<1> QED
  BY <1>1, <1>2 DEF PickerRec

\* A step that moves no event.
LEMMA NothingMoves ==
  ASSUME \A w \in Workers : wk'[w].ch = wk[w].ch /\ wk'[w].hand = wk[w].hand,
         \A p \in Pickers : pk'[p].src = pk[p].src /\ pk'[p].pend = pk[p].pend, UNCHANGED data
  PROVE  BooksKept
<1> SUFFICES ASSUME NEW p \in Pickers, NEW n \in 1 .. NEvents PROVE Places(p, n)' = Places(p, n)
  BY DEF BooksKept
<1> DEFINE ev == <<p, n>>
<1>1. InChans(wk', ev) = InChans(wk, ev)
  BY DEF InChans
<1>2. InHands(wk', ev) = InHands(wk, ev)
  BY DEF InHands
<1>3. Places(p, n)' = PlacesIn(pk'[p].pend, wk', delivered', lost', ev)
  BY PlacesAre
<1> HIDE DEF ev
<1> QED
  BY <1>1, <1>2, <1>3, PlacesAre DEF PlacesIn, data, ev

\* A step of one worker.
LEMMA WorkerBooks ==
  ASSUME TypeInv, TypeInv', NEW w \in Workers, NEW st, NEW ch, NEW hand, NEW rep,
         Becomes(w, st, ch, hand, rep), UNCHANGED pk,
         \A ev \in Events : Touched(<<>>, wk[w].ch, wk[w].hand, delivered, lost, ev) <= 1 =>
           Touched(<<>>, ch, hand, delivered', lost', ev)
             = Touched(<<>>, wk[w].ch, wk[w].hand, delivered, lost, ev)
  PROVE  BooksKept
<1>0. WorkersType
  BY DEF TypeInv
<1>1. wk'[w].ch = ch /\ wk'[w].hand = hand /\ OtherChans(wk, wk', w) /\ OtherHands(wk, wk', w)
  BY <1>0, BecomesIs DEF OtherChans, OtherHands
<1> SUFFICES ASSUME NEW p \in Pickers, NEW n \in 1 .. NEvents, Places(p, n) <= 1
             PROVE  Places(p, n)' = Places(p, n)
  BY DEF BooksKept
<1> DEFINE ev == <<p, n>>
           pd == pk[p].pend
<1>2. ev \in Events
  BY DEF Events
<1>3. pd \in Seq(1 .. NEvents) /\ TypedWorkers(wk) /\ TypedWorkers(wk')
  BY Typed
<1>4. ch \in Seq(Events) /\ wk[w].ch \in Seq(Events)
  BY <1>1, <1>3 DEF TypedWorkers, WorkerRec
<1> HIDE DEF ev, pd
<1>5. /\ TimesIn(pd, ev[2]) \in Nat /\ TimesIn(<<>>, ev[2]) = 0
      /\ TimesIn(ch, ev) \in Nat /\ TimesIn(wk[w].ch, ev) \in Nat
  BY <1>3, <1>4, TimesIs, TimesInEmpty
<1>6. Balances(pd, wk[w].ch, wk[w].hand, delivered, lost, pd, ch, hand, delivered', lost', ev)
  <2>1. Touched(<<>>, wk[w].ch, wk[w].hand, delivered, lost, ev) <= 1 =>
           Touched(<<>>, ch, hand, delivered', lost', ev)
             = Touched(<<>>, wk[w].ch, wk[w].hand, delivered, lost, ev)
    BY <1>2
  <2> QED
    BY <1>5, <2>1 DEF Balances, Touched, One
<1>7. PlacesIn(pd, wk, delivered, lost, ev) <= 1
  BY PlacesAre DEF pd, ev
<1>8. PlacesIn(pd, wk', delivered', lost', ev) = PlacesIn(pd, wk, delivered, lost, ev)
  BY <1>1, <1>3, <1>6, <1>7, OneWorkerPlaces
<1>9. Places(p, n)' = PlacesIn(pk'[p].pend, wk', delivered', lost', ev)
  BY PlacesAre DEF ev
<1> QED
  BY <1>8, <1>9, PlacesAre DEF pd, ev

\* No event is not an event.
LEMMA NoEventIs == \A ev \in Events : ev # NoEvent
<1> SUFFICES ASSUME NEW ev \in Events PROVE ev # NoEvent
  OBVIOUS
<1>1. PICK p \in Pickers, n \in 1 .. NEvents : ev = <<p, n>>
  BY DEF Events
<1>2. <<p, n>> # <<>>
  OBVIOUS
<1> QED
  BY <1>1, <1>2 DEF NoEvent

\* An event is taken from a channel into the hand, or delivered from it.
LEMMA Received ==
  ASSUME NEW c \in Seq(Events), c # <<>>, NEW hd, NEW d, NEW l, NEW ev \in Events,
         Touched(<<>>, c, hd, d, l, ev) <= 1
  PROVE  /\ hd = NoEvent =>
              Touched(<<>>, Tail(c), Head(c), d, l, ev) = Touched(<<>>, c, hd, d, l, ev)
         /\ Touched(<<>>, Tail(c), hd, d \cup {Head(c)}, l, ev) = Touched(<<>>, c, hd, d, l, ev)
<1> DEFINE t == TimesIn(c, ev)
           u == TimesIn(Tail(c), ev)
           e == Head(c)
<1>1. t \in Nat /\ u \in Nat /\ TimesIn(<<>>, ev[2]) = 0
  BY HeadTail, TimesIs, TimesInEmpty
<1>2. TimesIn(c, ev) = TimesIn(Tail(c), ev) + (IF Head(c) = ev THEN 1 ELSE 0)
  <2> HIDE DEF t, u, e
  <2> QED
    BY TimesTail
<1>3. NoEvent # ev
  BY NoEventIs
<1> HIDE DEF t, u, e
<1>4. /\ Touched(<<>>, c, hd, d, l, ev) =
           t + (IF hd = ev THEN 1 ELSE 0) + (IF ev \in d THEN 1 ELSE 0) + (IF ev \in l THEN 1 ELSE 0)
      /\ Touched(<<>>, Tail(c), e, d, l, ev) =
           u + (IF e = ev THEN 1 ELSE 0) + (IF ev \in d THEN 1 ELSE 0) + (IF ev \in l THEN 1 ELSE 0)
      /\ Touched(<<>>, Tail(c), hd, d \cup {e}, l, ev) =
           u + (IF hd = ev THEN 1 ELSE 0) + (IF ev \in d \cup {e} THEN 1 ELSE 0)
             + (IF ev \in l THEN 1 ELSE 0)
  BY <1>1 DEF Touched, One, t, u
<1>5. t = u + (IF e = ev THEN 1 ELSE 0)
  BY <1>2 DEF t, u, e
<1>6. hd = NoEvent => Touched(<<>>, Tail(c), e, d, l, ev) = Touched(<<>>, c, hd, d, l, ev)
  BY <1>1, <1>5, <1>3, <1>4
<1>7. Touched(<<>>, Tail(c), hd, d \cup {e}, l, ev) = Touched(<<>>, c, hd, d, l, ev)
  BY <1>1, <1>5, <1>4
<1> QED
  BY <1>6, <1>7 DEF e

\* A worker with channel c and hand hd lets go of its hand, or of its channel
\* and its hand: what it held is delivered or lost.
LetsGo(c, hd, d, l, c2, hd2, d2, l2, ev) ==
  /\ c2 \in {c, <<>>} /\ hd2 \in {hd, NoEvent}
  /\ LET gone == (c2 = <<>> /\ ev \in Range(c)) \/ (hd2 # hd /\ ev = hd)
     IN  \/ d2 = d /\ (ev \in l2 <=> ev \in l \/ gone)
         \/ l2 = l /\ (ev \in d2 <=> ev \in d \/ gone)

\* A worker that lets go of events, delivering or losing each, keeps its books.
LEMMA LetGo ==
  ASSUME NEW c \in Seq(Events), NEW hd, NEW d, NEW l, NEW c2, NEW hd2, NEW d2, NEW l2,
         NEW ev \in Events, LetsGo(c, hd, d, l, c2, hd2, d2, l2, ev),
         Touched(<<>>, c, hd, d, l, ev) <= 1
  PROVE  Touched(<<>>, c2, hd2, d2, l2, ev) = Touched(<<>>, c, hd, d, l, ev)
<1> DEFINE t == TimesIn(c, ev)
           u == TimesIn(c2, ev)
           o == IF hd = ev THEN 1 ELSE 0
           o2 == IF hd2 = ev THEN 1 ELSE 0
           e == IF ev \in d THEN 1 ELSE 0
           e2 == IF ev \in d2 THEN 1 ELSE 0
           k == IF ev \in l THEN 1 ELSE 0
           k2 == IF ev \in l2 THEN 1 ELSE 0
<1>0. /\ c2 \in {c, <<>>} /\ hd2 \in {hd, NoEvent}
      /\ \/ d2 = d /\ (ev \in l2 <=> ev \in l \/ (c2 = <<>> /\ ev \in Range(c))
                                     \/ (hd2 # hd /\ ev = hd))
         \/ l2 = l /\ (ev \in d2 <=> ev \in d \/ (c2 = <<>> /\ ev \in Range(c))
                                     \/ (hd2 # hd /\ ev = hd))
  BY DEF LetsGo
<1>1. t \in Nat /\ u \in Nat /\ TimesIn(<<>>, ev[2]) = 0 /\ TimesIn(<<>>, ev) = 0
      /\ (t = 0 <=> ev \notin Range(c))
  BY <1>0, TimesIs, TimesInEmpty
<1>3. NoEvent # ev
  BY NoEventIs
<1>5. /\ Touched(<<>>, c, hd, d, l, ev) = t + o + e + k
      /\ Touched(<<>>, c2, hd2, d2, l2, ev) = u + o2 + e2 + k2
  BY <1>1 DEF Touched, One
<1>6. c2 = <<>> \/ u = t
  BY <1>0
<1>7. c2 = <<>> => u = 0
  BY <1>1
<1>8. hd2 # hd => o2 = 0
  BY <1>0, <1>3
<1>9. t + o + e + k <= 1
  BY <1>5
<1>10. u + o2 + e2 + k2 = t + o + e + k
  <2>1. t \in Nat /\ u \in Nat /\ (t = 0 <=> ev \notin Range(c))
    BY <1>1
  <2> HIDE DEF t, u
  <2> QED
    BY <1>0, <2>1, <1>3, <1>6, <1>7, <1>8, <1>9
<1> QED
  BY <1>5, <1>10

\* Every step of a worker other than a handover to an output keeps the books.
LEMMA RecvBooks ==
  ASSUME TypeInv, TypeInv', NEW w \in Workers, ParserRecv(w) \/ OutRecv(w)
  PROVE  BooksKept
<1>0. WorkersType /\ wk[w].ch \in Seq(Events)
  BY WorkerHas DEF TypeInv
<1> DEFINE c == wk[w].ch
           hd == wk[w].hand
<1>1. CASE ParserRecv(w)
  <2>1. Becomes(w, "run", Tail(c), Head(c), wk[w].rep)
    BY <1>0, <1>1, Moves
  <2>2. UNCHANGED <<pk, delivered, lost>> /\ hd = NoEvent /\ c # <<>>
    BY <1>1 DEF ParserRecv, data
  <2> HIDE DEF c, hd
  <2>3. c \in Seq(Events)
    BY <1>0 DEF c
  <2>4. \A ev \in Events : Touched(<<>>, c, hd, delivered, lost, ev) <= 1 =>
          Touched(<<>>, Tail(c), Head(c), delivered, lost, ev)
            = Touched(<<>>, c, hd, delivered, lost, ev)
    BY <2>2, <2>3, Received
  <2> QED
    BY <2>1, <2>2, <2>4, WorkerBooks DEF c, hd
<1>2. CASE OutRecv(w)
  <2>1. Becomes(w, wk[w].st, Tail(c), hd, wk[w].rep)
    BY <1>0, <1>2, Moves
  <2>2. UNCHANGED <<pk, lost>> /\ delivered' = delivered \cup {Head(c)} /\ c # <<>>
    BY <1>2 DEF OutRecv
  <2> HIDE DEF c, hd
  <2>3. \A ev \in Events : Touched(<<>>, c, hd, delivered, lost, ev) <= 1 =>
          Touched(<<>>, Tail(c), hd, delivered', lost', ev)
            = Touched(<<>>, c, hd, delivered, lost, ev)
    BY <1>0, <2>2, Received DEF c
  <2> QED
    BY <2>1, <2>2, <2>3, WorkerBooks DEF c, hd
<1> QED
  BY <1>1, <1>2

\* A worker lets go of its hand or of everything.
LEMMA LetGoBooks ==
  ASSUME TypeInv, TypeInv', NEW w \in Workers, NEW st, NEW rep,
         NEW ch \in {wk[w].ch, <<>>}, NEW hand \in {wk[w].hand, NoEvent},
         Becomes(w, st, ch, hand, rep), UNCHANGED pk,
         NEW gone, gone = {ev \in Events : \/ ch = <<>> /\ ev \in Range(wk[w].ch)
                                           \/ hand # wk[w].hand /\ ev = wk[w].hand},
         \/ UNCHANGED delivered /\ lost' = lost \cup gone
         \/ UNCHANGED lost /\ delivered' = delivered \cup gone
  PROVE  BooksKept
<1>0. wk[w].ch \in Seq(Events)
  BY WorkerHas DEF TypeInv
<1> DEFINE c == wk[w].ch
           hd == wk[w].hand
<1>1. ASSUME NEW ev \in Events, Touched(<<>>, c, hd, delivered, lost, ev) <= 1
      PROVE  Touched(<<>>, ch, hand, delivered', lost', ev)
               = Touched(<<>>, c, hd, delivered, lost, ev)
  <2>1. ch \in {c, <<>>} /\ hand \in {hd, NoEvent} /\ c \in Seq(Events)
    BY <1>0
  <2>2. ev \in gone <=> (ch = <<>> /\ ev \in Range(c)) \/ (hand # hd /\ ev = hd)
    OBVIOUS
  <2> HIDE DEF c, hd
  <2>3. \/ delivered' = delivered /\ (ev \in lost' <=> ev \in lost \/ ev \in gone)
        \/ lost' = lost /\ (ev \in delivered' <=> ev \in delivered \/ ev \in gone)
    OBVIOUS
  <2> DEFINE d2 == delivered'
             l2 == lost'
  <2>4. LetsGo(c, hd, delivered, lost, ch, hand, d2, l2, ev)
    BY <2>1, <2>2, <2>3 DEF LetsGo
  <2> HIDE DEF d2, l2
  <2>5. Touched(<<>>, ch, hand, d2, l2, ev) = Touched(<<>>, c, hd, delivered, lost, ev)
    BY <1>1, <2>1, <2>4, LetGo
  <2> QED
    BY <2>5 DEF d2, l2
<1> QED
  BY <1>1, WorkerBooks

\* The steps that end a worker's loop, close its channel or drop its hand.
LEMMA EndBooks ==
  ASSUME TypeInv, TypeInv', NEW w \in Workers,
         \/ ParserLoopEnds(w) \/ OutStop(w) \/ OutDrained(w) \/ TaskReturns(w)
         \/ \E st : Fault(w, st)
  PROVE  BooksKept
<1>0. WorkersType /\ Range(wk[w].ch) \subseteq Events /\ wk[w].hand \in Events \cup {NoEvent}
  BY WorkerHas DEF TypeInv
<1>1. CASE ParserLoopEnds(w) \/ OutStop(w) \/ OutDrained(w)
  <2>1. \E st, rep : Becomes(w, st, wk[w].ch, wk[w].hand, rep)
    BY <1>0, <1>1, Moves
  <2>2. UNCHANGED <<pk, data>>
    BY <1>1 DEF ParserLoopEnds, OutStop, OutDrained
  <2>3. \A v \in Workers : wk'[v].ch = wk[v].ch /\ wk'[v].hand = wk[v].hand
    BY <1>0, <2>1, BecomesIs
  <2> QED
    BY <2>2, <2>3, NothingMoves
<1>2. CASE TaskReturns(w)
  <2> DEFINE gone == {ev \in Events : \/ <<>> = <<>> /\ ev \in Range(wk[w].ch)
                                      \/ wk[w].hand # wk[w].hand /\ ev = wk[w].hand}
  <2>1. Becomes(w, "done", <<>>, wk[w].hand, wk[w].rep)
    BY <1>0, <1>2, Moves
  <2>2. UNCHANGED <<pk, delivered>> /\ lost' = lost \cup Range(wk[w].ch)
    BY <1>2 DEF TaskReturns
  <2>3. gone = Range(wk[w].ch)
    BY <1>0
  <2> HIDE DEF gone
  <2>4. lost' = lost \cup gone
    BY <2>2, <2>3
  <2> QED
    BY <2>1, <2>2, <2>4, LetGoBooks DEF gone
<1>3. ASSUME NEW st, Fault(w, st) PROVE BooksKept
  <2> DEFINE gone == {ev \in Events : \/ <<>> = <<>> /\ ev \in Range(wk[w].ch)
                                      \/ NoEvent # wk[w].hand /\ ev = wk[w].hand}
  <2>1. Becomes(w, st, <<>>, NoEvent, "Aborted")
    BY <1>0, <1>3, Moves
  <2>2. /\ UNCHANGED <<pk, delivered>>
        /\ lost' = lost \cup Range(wk[w].ch) \cup (IF wk[w].hand = NoEvent THEN {} ELSE {wk[w].hand})
    BY <1>3 DEF Fault
  <2>3. gone = Range(wk[w].ch) \cup (IF wk[w].hand = NoEvent THEN {} ELSE {wk[w].hand})
    BY <1>0
  <2> HIDE DEF gone
  <2>4. lost' = lost \cup gone
    BY <2>2, <2>3
  <2> QED
    BY <2>1, <2>2, <2>4, LetGoBooks DEF gone
<1> QED
  BY <1>1, <1>2, <1>3

\* A handover to an output takes the event out of one hand and puts it into one
\* channel.
LEMMA HandedBooks ==
  ASSUME TypeInv, TypeInv', NEW w \in ParserSet, NEW out \in OutSet, wk[w].hand \in Events,
         Handed(w, out, wk[w].hand), UNCHANGED <<pk, data>>
  PROVE  BooksKept
<1> DEFINE e == wk[w].hand
<1>0. WorkersType /\ TypedWorkers(wk) /\ TypedWorkers(wk')
  BY Typed DEF TypeInv
<1>1. /\ w \in Workers /\ out \in Workers /\ out # w
      /\ wk'[w].hand = NoEvent /\ wk'[w].ch = wk[w].ch
      /\ wk'[out].hand = wk[out].hand /\ wk'[out].ch = Append(wk[out].ch, e)
      /\ \A v \in Workers : v # w /\ v # out => wk'[v] = wk[v]
  BY <1>0, HandedIs
<1>2. OtherChans(wk, wk', out) /\ OtherHands(wk, wk', w)
  BY <1>1 DEF OtherChans, OtherHands
<1>3. wk[out].ch \in Seq(Events)
  BY <1>0, <1>1, WorkerHas
<1> SUFFICES ASSUME NEW p \in Pickers, NEW n \in 1 .. NEvents PROVE Places(p, n)' = Places(p, n)
  BY DEF BooksKept
<1> DEFINE ev == <<p, n>>
           c1 == Cardinality(InChans(wk, ev))
           c2 == Cardinality(InChans(wk', ev))
           h1 == Cardinality(InHands(wk, ev))
           h2 == Cardinality(InHands(wk', ev))
           t == TimesIn(wk[out].ch, ev)
           u == TimesIn(wk'[out].ch, ev)
           o == IF e = ev THEN 1 ELSE 0
<1>4. ev \in Events /\ NoEvent # ev
  <2>1. ev \in Events
    BY DEF Events
  <2> QED
    BY <2>1, NoEventIs
<1> HIDE DEF ev
<1>5. c1 \in Nat /\ c2 \in Nat /\ t \in Nat /\ u \in Nat /\ c2 + t = c1 + u
  <2> DEFINE g == wk'
  <2>1. TypedWorkers(wk) /\ TypedWorkers(g) /\ out \in Workers /\ OtherChans(wk, g, out)
    BY <1>0, <1>1, <1>2
  <2> HIDE DEF g
  <2>2. /\ c1 \in Nat /\ Cardinality(InChans(g, ev)) \in Nat
        /\ t \in Nat /\ TimesIn(g[out].ch, ev) \in Nat
        /\ Cardinality(InChans(g, ev)) + t = c1 + TimesIn(g[out].ch, ev)
    BY <2>1, ChansMove
  <2> QED
    BY <2>2 DEF g
<1>6. h1 \in Nat /\ h2 \in Nat /\ h2 + o = h1
  <2> DEFINE f == wk
             g == wk'
             x == IF f[w].hand = ev THEN 1 ELSE 0
             y == IF g[w].hand = ev THEN 1 ELSE 0
             j == Cardinality(InHands(f, ev))
             k == Cardinality(InHands(g, ev))
  <2>1. w \in Workers /\ g[w].hand = NoEvent /\ OtherHands(f, g, w)
    BY <1>1, <1>2
  <2> HIDE DEF f, g
  <2>2. j \in Nat /\ k \in Nat /\ k + x = j + y
    BY <2>1, HandsMove
  <2>3. y = 0
    BY <1>4, <2>1
  <2> HIDE DEF x, y, j, k
  <2>4. j \in Nat /\ k \in Nat /\ k + x = j
    BY <2>2, <2>3
  <2> QED
    BY <2>4 DEF f, g, j, k, x
<1>7. u = t + o
  BY <1>1, <1>3, TimesAppend
<1>8. o \in Nat
  OBVIOUS
<1> HIDE DEF c1, c2, h1, h2, t, u, o
<1>9. c2 + h2 = c1 + h1
  BY <1>5, <1>6, <1>7, <1>8
<1> DEFINE q == TimesIn(pk[p].pend, ev[2])
           d == One(ev \in delivered)
           l == One(ev \in lost)
<1>10. q \in Nat /\ d \in Nat /\ l \in Nat
  <2>1. q \in Nat
    BY Typed, TimesIs
  <2>2. d \in Nat
    BY DEF One
  <2>3. l \in Nat
    BY DEF One
  <2> QED
    BY <2>1, <2>2, <2>3
<1>11. /\ Places(p, n) = q + c1 + h1 + d + l
       /\ Places(p, n)' = q + c2 + h2 + d + l
  <2>1. Places(p, n) = q + c1 + h1 + d + l
    BY PlacesAre DEF PlacesIn, c1, h1, ev
  <2>2. Places(p, n)' = PlacesIn(pk'[p].pend, wk', delivered', lost', ev)
    BY PlacesAre DEF ev
  <2>3. pk' = pk /\ delivered' = delivered /\ lost' = lost
    BY DEF data
  <2> QED
    BY <2>1, <2>2, <2>3 DEF PlacesIn, c2, h2
<1> HIDE DEF q, d, l
<1> QED
  BY <1>5, <1>6, <1>9, <1>10, <1>11

\* A batch is sent: it leaves pending and enters one channel.
LEMMA SendBooks ==
  ASSUME TypeInv, TypeInv', NEW p \in Pickers, NEW w \in ParserSet, TrySend(p),
         pk' = [pk EXCEPT ![p] = [pk[p] EXCEPT !.pc = "idle", !.snap = <<>>, !.pend = Tail(@)]],
         Becomes(w, wk[w].st, Append(wk[w].ch, <<p, Head(pk[p].pend)>>), wk[w].hand, wk[w].rep),
         UNCHANGED data
  PROVE  BooksKept
<1> DEFINE s == pk[p].pend
           e == <<p, Head(s)>>
           c == wk[w].ch
<1>0. /\ pk \in [Pickers -> PickerRec] /\ pk[p] \in PickerRec /\ WorkersType /\ w \in Workers
      /\ TypedWorkers(wk) /\ TypedWorkers(wk') /\ delivered' = delivered /\ lost' = lost
  BY Typed DEF TypeInv, PickersType, ParserSet, data
<1>1. s \in Seq(1 .. NEvents) /\ s # <<>> /\ Head(s) \in 1 .. NEvents /\ Tail(s) \in Seq(1 .. NEvents)
  <2>1. s \in Seq(1 .. NEvents)
    BY Typed
  <2>2. s # <<>>
    BY DEF TrySend, TypeInv, PickersType
  <2> HIDE DEF s
  <2> QED
    BY <2>1, <2>2, HeadTail
<1>2. /\ \A q \in Pickers : pk'[q].src = pk[q].src /\ (q # p => pk'[q].pend = pk[q].pend)
      /\ pk'[p].pend = Tail(s)
  BY <1>0 DEF PickerRec
<1>3. /\ wk'[w].ch = Append(c, e) /\ wk'[w].hand = wk[w].hand
      /\ OtherChans(wk, wk', w) /\ OtherHands(wk, wk', w)
  <2> DEFINE ch == Append(c, e)
  <2>1. Becomes(w, wk[w].st, ch, wk[w].hand, wk[w].rep)
    OBVIOUS
  <2> HIDE DEF ch
  <2>2. /\ wk'[w].ch = ch /\ wk'[w].hand = wk[w].hand
        /\ \A v \in Workers : v # w => wk'[v] = wk[v]
    BY <1>0, <2>1, BecomesIs
  <2> QED
    BY <2>2 DEF ch, OtherChans, OtherHands
<1>4. c \in Seq(Events) /\ e \in Events
  BY <1>0, <1>1, WorkerHas DEF Events
<1> SUFFICES ASSUME NEW q \in Pickers, NEW n \in 1 .. NEvents, Places(q, n) <= 1
             PROVE  Places(q, n)' = Places(q, n)
  BY <1>2 DEF BooksKept
<1> DEFINE ev == <<q, n>>
           s1 == pk[q].pend
           s2 == pk'[q].pend
<1>5. /\ s1 \in Seq(1 .. NEvents) /\ s2 \in Seq(1 .. NEvents)
      /\ ev[2] = n
  BY Typed
<1>6. TimesIn(Append(c, e), ev) = TimesIn(c, ev) + (IF e = ev THEN 1 ELSE 0)
  <2> HIDE DEF c, e, ev
  <2> QED
    BY <1>4, TimesAppend
<1>7. e = ev <=> q = p /\ Head(s) = n
  OBVIOUS
<1>8. TimesIn(s1, n) = TimesIn(s2, n) + (IF e = ev THEN 1 ELSE 0)
  <2>1. CASE q = p
    <3>1. s1 = s /\ s2 = Tail(s) /\ (e = ev <=> Head(s) = n)
      BY <1>2, <1>7, <2>1
    <3>2. TimesIn(s, n) = TimesIn(Tail(s), n) + (IF Head(s) = n THEN 1 ELSE 0)
      <4> HIDE DEF s
      <4> QED
        BY <1>1, TimesTail
    <3> QED
      BY <3>1, <3>2
  <2>2. CASE q # p
    <3>1. s1 = s2 /\ e # ev
      BY <1>2, <1>7, <2>2
    <3>2. TimesIn(s2, n) \in Nat
      <4> HIDE DEF s2
      <4> QED
        BY <1>5, TimesIs
    <3> QED
      BY <3>1, <3>2
  <2> QED
    BY <2>1, <2>2
<1>9. /\ TimesIn(s1, n) \in Nat /\ TimesIn(s2, n) \in Nat
      /\ TimesIn(c, ev) \in Nat /\ TimesIn(Append(c, e), ev) \in Nat
  <2>1. TimesIn(s1, n) \in Nat /\ TimesIn(s2, n) \in Nat
    <3> HIDE DEF s1, s2
    <3> QED
      BY <1>5, TimesIs
  <2>2. TimesIn(c, ev) \in Nat
    <3> HIDE DEF c, ev
    <3> QED
      BY <1>4, TimesIs
  <2> QED
    BY <1>6, <2>1, <2>2
<1> HIDE DEF c, e, ev, s1, s2
<1>10. Touched(s2, Append(c, e), wk[w].hand, delivered, lost, ev)
         = Touched(s1, c, wk[w].hand, delivered, lost, ev)
  BY <1>5, <1>6, <1>8, <1>9 DEF Touched, One
<1>11. PlacesIn(s1, wk, delivered, lost, ev) <= 1
  BY PlacesAre DEF s1, ev
<1>12. PlacesIn(s2, wk', delivered, lost, ev) = PlacesIn(s1, wk, delivered, lost, ev)
  <2> DEFINE g == wk'
  <2>1. g[w].ch = Append(c, e) /\ g[w].hand = wk[w].hand /\ c = wk[w].ch
    BY <1>3 DEF c
  <2>3. /\ TypedWorkers(wk) /\ TypedWorkers(g) /\ w \in Workers
        /\ OtherChans(wk, g, w) /\ OtherHands(wk, g, w)
    BY <1>0, <1>3
  <2> DEFINE S == 1 .. NEvents
  <2>0. s1 \in Seq(S) /\ s2 \in Seq(S)
    BY <1>5
  <2> HIDE DEF g, S
  <2>2. Balances(s1, wk[w].ch, wk[w].hand, delivered, lost, s2, g[w].ch, g[w].hand,
                 delivered, lost, ev)
    BY <1>10, <2>1 DEF Balances
  <2>4. PlacesIn(s2, g, delivered, lost, ev) = PlacesIn(s1, wk, delivered, lost, ev)
    BY <1>11, <2>0, <2>2, <2>3, OneWorkerPlaces
  <2> QED
    BY <2>4 DEF g
<1>13. Places(q, n)' = PlacesIn(s2, wk', delivered', lost', ev)
  BY PlacesAre DEF ev, s2
<1> QED
  BY <1>0, <1>12, <1>13, PlacesAre DEF s1, ev

\* A parser lets go of the event in its hand.
LEMMA ForwardBooks ==
  ASSUME TypeInv, TypeInv', NEW w \in ParserSet, ParserForward(w) PROVE BooksKept
<1> DEFINE e == wk[w].hand
           c == wk[w].ch
<1>0. /\ w \in Workers /\ e \in Events /\ Range(c) \subseteq Events /\ e # NoEvent
      /\ UNCHANGED pk
  <2>1. w \in Workers /\ WorkersType
    BY DEF ParserSet, TypeInv
  <2> QED
    BY <2>1, WorkerHas, ForwardMoves, NoEventIs
<1>1. PICK out : Forwards(w, out)
  BY ForwardMoves
<1>2. Range(<<>>) = {}
  BY DEF Range
<1>3. CASE /\ Becomes(w, "run", c, NoEvent, wk[w].rep)
           /\ delivered' = delivered \cup {e} /\ UNCHANGED <<drain, lost>>
  <2> DEFINE gone == {ev \in Events : (c = <<>> /\ ev \in Range(c)) \/ (NoEvent # e /\ ev = e)}
  <2>1. gone = {e}
    BY <1>0, <1>2
  <2> QED
    BY <1>0, <1>3, <2>1, LetGoBooks
<1>4. CASE /\ out \in OutSet /\ Handed(w, out, e) /\ UNCHANGED <<drain, data>>
  BY <1>0, <1>4, HandedBooks
<1>5. CASE /\ Becomes(w, "failed", <<>>, NoEvent, "Aborted")
           /\ lost' = lost \cup {e} \cup Range(c) /\ UNCHANGED delivered
  <2> DEFINE gone == {ev \in Events : (<<>> = <<>> /\ ev \in Range(c)) \/ (NoEvent # e /\ ev = e)}
  <2>1. gone = {e} \cup Range(c)
    BY <1>0
  <2>2. lost' = lost \cup gone
    BY <1>5, <2>1
  <2> QED
    BY <1>0, <1>5, <2>2, LetGoBooks
<1>6. CASE /\ Becomes(w, "run", c, NoEvent, wk[w].rep)
           /\ lost' = lost \cup {e} /\ UNCHANGED <<drain, delivered>>
  <2> DEFINE gone == {ev \in Events : (c = <<>> /\ ev \in Range(c)) \/ (NoEvent # e /\ ev = e)}
  <2>1. gone = {e}
    BY <1>0, <1>2
  <2> QED
    BY <1>0, <1>6, <2>1, LetGoBooks
<1> QED
  BY <1>1, <1>3, <1>4, <1>5, <1>6 DEF Forwards

\* One picker changes, neither its source nor its pending batches.
LEMMA StillPending ==
  ASSUME pk \in [Pickers -> PickerRec], NEW p \in Pickers, NEW rec, pk' = [pk EXCEPT ![p] = rec],
         rec.src = pk[p].src, rec.pend = pk[p].pend
  PROVE  \A q \in Pickers : pk'[q].src = pk[q].src /\ pk'[q].pend = pk[q].pend
OBVIOUS

\* A try that is refused changes neither.
LEMMA RefusedKeeps ==
  ASSUME TypeInv, NEW p \in Pickers, TrySend(p), wk' = wk
  PROVE  \A q \in Pickers : pk'[q].src = pk[q].src /\ pk'[q].pend = pk[q].pend
<1> DEFINE v == pk[p].snap[pk[p].k]
           sent == RecvAlive(v) /\ Len(wk[v].ch) < ChanCap
           full == pk[p].full \/ (RecvAlive(v) /\ ~sent)
           b == <<p, Head(pk[p].pend)>>
<1>0. /\ pk \in [Pickers -> PickerRec] /\ pk[p] \in PickerRec /\ WorkersType
      /\ pk[p].k \in 1 .. Len(pk[p].snap)
  BY DEF TypeInv, PickersType, TrySend
<1>1. v \in Workers
  BY <1>0 DEF PickerRec, ParserSet
<1>2. /\ wk' = IF sent THEN [wk EXCEPT ![v].ch = Append(@, b)] ELSE wk
      /\ pk' = [pk EXCEPT ![p] = AfterTrySend(p, sent, full)]
  BY Zenon DEF TrySend
<1>3. wk \in [Workers -> WorkerRec] /\ wk[v] \in WorkerRec /\ wk[v].ch \in Seq(Events)
  BY <1>0, <1>1, WorkerHas
<1>4. wk[v].ch # Append(wk[v].ch, b)
  <2> HIDE DEF v, b
  <2>1. Len(Append(wk[v].ch, b)) = Len(wk[v].ch) + 1 /\ Len(wk[v].ch) \in Nat
    BY <1>3
  <2> QED
    BY <2>1
<1>5. ~sent
  <2> SUFFICES ASSUME sent PROVE FALSE
    OBVIOUS
  <2> DEFINE c == Append(wk[v].ch, b)
  <2>1. wk' = [wk EXCEPT ![v].ch = c]
    BY <1>2
  <2> HIDE DEF v, c
  <2>2. wk'[v].ch = c
    BY <1>1, <1>3, <2>1 DEF WorkerRec
  <2> QED
    BY <1>4, <2>2 DEF c
<1> DEFINE rec == AfterTrySend(p, sent, full)
<1>6. rec.src = pk[p].src /\ rec.pend = pk[p].pend
  <2> HIDE DEF full, sent
  <2> QED
    BY <1>0, <1>5 DEF AfterTrySend, PickerRec
<1>7. pk' = [pk EXCEPT ![p] = rec]
  BY <1>2
<1> HIDE DEF rec
<1> QED
  BY <1>0, <1>6, <1>7, StillPending

\* A picker's step other than a fetch keeps the books: a batch that is sent
\* leaves pending and enters one channel, a batch that is refused stays.
LEMMA PickerBooks ==
  ASSUME TypeInv, TypeInv', NEW p \in Pickers, PickerStep(p), ~Fetch(p) PROVE BooksKept
<1>0. pk \in [Pickers -> PickerRec] /\ pk[p] \in PickerRec /\ UNCHANGED data
  BY PickerMoves DEF TypeInv, PickersType
<1>1. CASE wk' = wk
  <2>1. CASE PollCmd(p)
    <3> DEFINE rec == [pk[p] EXCEPT !.cmd = Head(pk[p].q), !.q = Tail(pk[p].q)]
    <3>1. pk' = [pk EXCEPT ![p] = rec] /\ rec.src = pk[p].src /\ rec.pend = pk[p].pend
      BY Zenon, <1>0, <2>1 DEF PollCmd, PickerRec
    <3> HIDE DEF rec
    <3> QED
      BY <1>0, <1>1, <3>1, StillPending, NothingMoves
  <2>2. CASE Snapshot(p) /\ router.senders = <<>>
    <3> DEFINE rec == [pk[p] EXCEPT !.pc = "empty"]
    <3>1. pk' = [pk EXCEPT ![p] = rec] /\ rec.src = pk[p].src /\ rec.pend = pk[p].pend
      BY Zenon, <1>0, <2>2 DEF Snapshot, PickerRec
    <3> HIDE DEF rec
    <3> QED
      BY <1>0, <1>1, <3>1, StillPending, NothingMoves
  <2>3. CASE Snapshot(p) /\ router.senders # <<>>
    <3> DEFINE r == Rotated(router.senders, router.next)
               rec == [pk[p] EXCEPT !.pc = "try", !.k = 1, !.full = FALSE, !.snap = r]
    <3>1. pk' = [pk EXCEPT ![p].pc = "try", ![p].k = 1, ![p].full = FALSE, ![p].snap = r]
      BY <2>3 DEF Snapshot
    <3> HIDE DEF r
    <3>2. pk' = [pk EXCEPT ![p] = rec] /\ rec.src = pk[p].src /\ rec.pend = pk[p].pend
      BY Zenon, <1>0, <3>1 DEF PickerRec
    <3> HIDE DEF rec
    <3> QED
      BY <1>0, <1>1, <3>2, StillPending, NothingMoves
  <2>4. CASE LoadReloading(p)
    <3> DEFINE rec == [pk[p] EXCEPT !.pc = IF router.reloading THEN "idle" ELSE "exited"]
    <3>1. pk' = [pk EXCEPT ![p] = rec] /\ rec.src = pk[p].src /\ rec.pend = pk[p].pend
      BY Zenon, <1>0, <2>4 DEF LoadReloading, PickerRec
    <3> HIDE DEF rec
    <3> QED
      BY <1>0, <1>1, <3>1, StillPending, NothingMoves
  <2>5. CASE TrySend(p)
    BY <1>0, <1>1, <2>5, RefusedKeeps, NothingMoves
  <2> QED
    BY <2>1, <2>2, <2>3, <2>4, <2>5 DEF PickerStep
<1> QED
  BY <1>0, <1>1, PickerMoves, SendBooks

\* A fetched event was nowhere and is now pending; no other event moves.
LEMMA FetchPlaces ==
  ASSUME TypeInv, TypeInv', NEW p \in Pickers, Fetch(p), EveryEventInOnePlace
  PROVE  EveryEventInOnePlace'
<1> DEFINE m == pk[p].src + 1
           s == pk[p].pend
<1>0. /\ pk \in [Pickers -> PickerRec] /\ pk[p] \in PickerRec /\ s \in Seq(1 .. NEvents)
      /\ pk[p].src \in Nat /\ UNCHANGED <<wk, delivered, lost>>
  BY DEF TypeInv, PickersType, PickerRec, Fetch, data
<1>1. /\ pk'[p].src = m /\ pk'[p].pend = Append(s, m)
      /\ \A q \in Pickers : q # p => pk'[q] = pk[q]
  <2> DEFINE a == Append(s, m)
             rec == [pk[p] EXCEPT !.src = m, !.pend = a]
  <2>1. pk' = [pk EXCEPT ![p] = rec]
    BY <1>0 DEF Fetch, PickerRec
  <2> HIDE DEF m, a
  <2>2. rec.src = m /\ rec.pend = a
    BY <1>0 DEF PickerRec
  <2> HIDE DEF rec
  <2> QED
    BY <1>0, <2>1, <2>2 DEF a
<1>2. m \in 1 .. NEvents
  BY <1>0, HotReloadAssumption DEF Fetch, PickerRec
<1> SUFFICES ASSUME NEW q \in Pickers, NEW n \in 1 .. NEvents
             PROVE  Places(q, n)' = IF n <= pk'[q].src THEN 1 ELSE 0
  BY DEF EveryEventInOnePlace
<1>3. Places(q, n) = IF n <= pk[q].src THEN 1 ELSE 0
  BY DEF EveryEventInOnePlace
<1> DEFINE ev == <<q, n>>
           x == TimesIn(pk[q].pend, n)
           y == TimesIn(pk'[q].pend, n)
           c == Cardinality(InChans(wk, ev))
           h == Cardinality(InHands(wk, ev))
           d == One(ev \in delivered)
           l == One(ev \in lost)
<1>4. ev[2] = n
  OBVIOUS
<1>5. x \in Nat /\ y \in Nat
  <2>1. pk[q].pend \in Seq(1 .. NEvents) /\ pk'[q].pend \in Seq(1 .. NEvents)
    BY Typed
  <2> QED
    BY <2>1, TimesIs
<1> HIDE DEF ev
<1>6. c \in Nat /\ h \in Nat
  <2>1. TypedWorkers(wk)
    BY Typed
  <2>2. CASE Workers = {}
    <3>1. InChans(wk, ev) = {} /\ InHands(wk, ev) = {}
      BY <2>2 DEF InChans, InHands
    <3> QED
      BY <3>1, FS_EmptySet
  <2>3. ASSUME NEW w \in Workers PROVE c \in Nat /\ h \in Nat
    <3>1. OtherChans(wk, wk, w) /\ OtherHands(wk, wk, w)
      BY DEF OtherChans, OtherHands
    <3> QED
      BY <2>1, <3>1, ChansMove, HandsMove
  <2> QED
    BY <2>2, <2>3
<1>7. d \in Nat /\ l \in Nat
  <2>1. d \in Nat
    BY DEF One
  <2>2. l \in Nat
    BY DEF One
  <2> QED
    BY <2>1, <2>2
<1>8. Places(q, n) = x + c + h + d + l /\ Places(q, n)' = y + c + h + d + l
  <2>1. Places(q, n) = x + c + h + d + l
    BY <1>4, PlacesAre DEF PlacesIn, ev
  <2>2. Places(q, n)' = PlacesIn(pk'[q].pend, wk', delivered', lost', ev)
    BY PlacesAre DEF ev
  <2> QED
    BY <1>0, <1>4, <2>1, <2>2 DEF PlacesIn
<1>9. CASE q # p
  <2>1. y = x /\ pk'[q].src = pk[q].src
    BY <1>1, <1>9
  <2> HIDE DEF x, y, c, h, d, l
  <2> QED
    BY <1>3, <1>8, <2>1
<1>10. CASE q = p
  <2>1. y = x + (IF m = n THEN 1 ELSE 0)
    <3> DEFINE S == 1 .. NEvents
    <3>0. s \in Seq(S) /\ m \in S
      BY <1>0, <1>2
    <3> HIDE DEF m, s, S
    <3>1. TimesIn(Append(s, m), n) = TimesIn(s, n) + (IF m = n THEN 1 ELSE 0)
      BY <3>0, TimesAppend
    <3>2. pk'[q].pend = Append(s, m) /\ pk[q].pend = s
      BY <1>1, <1>10 DEF s
    <3> QED
      BY <3>1, <3>2
  <2> HIDE DEF x, y, c, h, d, l
  <2> QED
    BY <1>0, <1>1, <1>3, <1>5, <1>6, <1>7, <1>8, <1>10, <2>1
<1> QED
  BY <1>9, <1>10

\* Initially no event has been taken from a source and none is anywhere.
LEMMA InitPlaces == Init => EveryEventInOnePlace
<1> SUFFICES ASSUME Init, NEW p \in Pickers, NEW n \in 1 .. NEvents
             PROVE  Places(p, n) = IF n <= pk[p].src THEN 1 ELSE 0
  BY DEF EveryEventInOnePlace
<1> DEFINE ev == <<p, n>>
<1>1. pk[p].pend = <<>> /\ pk[p].src = 0 /\ ev[2] = n
  BY DEF Init
<1>2. \A w \in Workers : wk[w].ch = <<>> /\ wk[w].hand = NoEvent
  BY DEF Init
<1>3. ev \notin delivered /\ ev \notin lost
  BY DEF Init
<1>4. ev \in Events /\ ev # NoEvent
  <2>1. ev \in Events
    BY DEF Events
  <2> QED
    BY <2>1, NoEventIs
<1> HIDE DEF ev
<1>5. InHands(wk, ev) = {}
  BY <1>2, <1>4 DEF InHands
<1>6. InChans(wk, ev) = {}
  <2>1. \A w \in Workers : Len(wk[w].ch) = 0
    BY <1>2
  <2> SUFFICES ASSUME NEW x \in InChans(wk, ev) PROVE FALSE
    OBVIOUS
  <2>2. x[1] \in Workers /\ x[2] \in 1 .. ChanCap + OutCap /\ x[2] <= Len(wk[x[1]].ch)
    BY DEF InChans
  <2>3. x[2] <= 0 /\ x[2] \in 1 .. ChanCap + OutCap
    BY <2>1, <2>2
  <2>4. ChanCap + OutCap \in Int
    BY HotReloadAssumption
  <2> QED
    BY <2>3, <2>4
<1>7. PlacesIn(<<>>, wk, delivered, lost, ev) = 0
  <2>1. Cardinality(InHands(wk, ev)) = 0 /\ Cardinality(InChans(wk, ev)) = 0
    BY <1>5, <1>6, FS_EmptySet
  <2>2. TimesIn(<<>>, ev[2]) = 0
    BY TimesInEmpty
  <2> QED
    BY <1>3, <2>1, <2>2 DEF PlacesIn, One
<1>8. Places(p, n) = 0
  BY <1>1, <1>7, PlacesAre DEF ev
<1> QED
  BY <1>1, <1>8

\* Every step keeps every event in one place.
LEMMA NextPlaces ==
  ASSUME TypeInv, EveryEventInOnePlace, [Next]_vars PROVE EveryEventInOnePlace'
<1>0. TypeInv'
  BY NextType
<1>1. ASSUME BooksKept PROVE EveryEventInOnePlace'
  <2> SUFFICES ASSUME NEW p \in Pickers, NEW n \in 1 .. NEvents
               PROVE  Places(p, n)' = IF n <= pk'[p].src THEN 1 ELSE 0
    BY DEF EveryEventInOnePlace
  <2>1. Places(p, n) = IF n <= pk[p].src THEN 1 ELSE 0
    BY DEF EveryEventInOnePlace
  <2>2. /\ pk'[p].src = pk[p].src
        /\ Places(p, n) <= 1 => Places(p, n)' = Places(p, n)
    BY <1>1 DEF BooksKept
  <2> QED
    BY <2>1, <2>2
<1>2. CASE UNCHANGED vars
  BY <1>1, <1>2, NothingMoves DEF vars, data
<1>3. ASSUME NEW p \in Pickers, PickerStep(p) PROVE EveryEventInOnePlace'
  BY <1>0, <1>1, <1>3, PickerBooks, FetchPlaces
<1>4. ASSUME NEW w \in ParserSet, ParserStep(w) PROVE EveryEventInOnePlace'
  BY <1>0, <1>1, <1>4, RecvBooks, ForwardBooks, EndBooks DEF ParserStep, ParserSet
<1>5. ASSUME NEW w \in OutSet, OutStep(w) PROVE EveryEventInOnePlace'
  BY <1>0, <1>1, <1>5, RecvBooks, EndBooks DEF OutStep, OutSet
<1>6. ASSUME NEW w \in Workers, TaskReturns(w) \/ \E st \in {"failed", "panicked"} : Fault(w, st)
      PROVE  EveryEventInOnePlace'
  BY <1>0, <1>1, <1>6, EndBooks
<1>7. CASE EngineStep
  <2>1. EngineKept
    BY <1>7, EngineKeeps
  <2>2. BooksKept
    BY <2>1, NothingMoves DEF EngineKept
  <2> QED
    BY <1>1, <2>2
<1> QED
  BY <1>2, <1>3, <1>4, <1>5, <1>6, <1>7 DEF Next, EngineStep

\* Every event a picker has taken from its source is in exactly one place, for
\* every interleaving of pickers, parsers, outputs and reloads: the push back
\* after a refused try_send, the two generations and the forced stop neither
\* duplicate an event nor make one vanish unnoticed.
THEOREM EventsAreKept == Spec => []EveryEventInOnePlace
BY InitType, NextType, InitPlaces, NextPlaces, PTL DEF Spec

=============================================================================
